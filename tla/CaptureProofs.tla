---------------------------- MODULE CaptureProofs ----------------------------
(***************************************************************************)
(* What a capture may show, proved for any number of batches and realms,   *)
(* and whichever saves of a record may fail.                               *)
(*                                                                         *)
(* The argument follows one realm through its batch.  It is staged by the  *)
(* exports, and until the packaging loop reaches it its job runs: nothing  *)
(* between the two decides the fate of a staged realm.  At the packaging   *)
(* loop it is sealed, and from then on its job names the sealed bundle     *)
(* until all of the snapshot is stored.  The clone stands apart: a batch   *)
(* that exports has it recorded with its teardown key unspent, so the      *)
(* teardown before the packaging asks for its destruction, and notes in    *)
(* every job that it could not.                                            *)
(*                                                                         *)
(* All that is of the job as its goroutine holds it.  The record on disk   *)
(* is the job as it was at some earlier step, and one lemma, SaveKeeps,    *)
(* carries over what the job only ever goes onward from: a checkpoint is   *)
(* let go for a stored snapshot, which stays, and a settled job stays so.  *)
(***************************************************************************)
EXTENDS CaptureBatch, TLAPS

\* How far the realm at a step's head has got.
Early   == {"idle", "init", "probe", "prepare", "await"}
Exports == {"next", "collect"}
Uploads == {"upload", "clean"}

AtRealm ==
  \A b \in Batch :
    /\ pc[b] \in Early \cup {"teardown"} => at[b] = 1
    /\ pc[b] \in {"collect"} \cup Uploads => at[b] <= Realms

\* A batch that exports has the clone recorded and not torn down.
CloneHeld ==
  \A b \in Batch :
    /\ pc[b] \in Exports \cup {"await", "teardown"} => b \in recorded
    /\ b \in keys => pc[b] \in Uploads \cup {"package", "returned"}

\* A realm that is staged was reached by the exports, not yet by the packaging,
\* and its job is running.
Staged ==
  \A b \in Batch, r \in 1..Realms : <<b, r>> \in collected =>
    /\ rec[<<b, r>>] = "running"
    /\ pc[b] \in Exports \cup Uploads \cup {"teardown", "package"}
    /\ pc[b] \in Exports => r < at[b]
    /\ pc[b] = "package" => r >= at[b]
    /\ pc[b] \in Uploads => r > at[b]

\* The realms whose fate is decided: those behind the exports, then all but the
\* one that is being uploaded.
Decided(b, r) ==
  \/ pc[b] \in Exports /\ r < at[b]
  \/ pc[b] \in Uploads /\ r # at[b]
  \/ pc[b] \in {"teardown", "package", "unprepared", "returned"}

DecidedSettles ==
  \A b \in Batch, r \in 1..Realms :
    Decided(b, r) => <<b, r>> \in collected \/ rec[<<b, r>>] \in Settled

\* The realms that the exports have still to finish have not settled.
Undecided ==
  \A b \in Batch, r \in 1..Realms :
    pc[b] \in Early \/ (pc[b] \in Exports /\ r >= at[b]) => rec[<<b, r>>] \notin Settled

\* What the step at a realm may take for granted of it.
AtStep ==
  \A b \in Batch :
    /\ pc[b] = "collect" => rec[Current(b)] = "running"
    /\ pc[b] = "upload" => Current(b) \in checkpoint
    /\ pc[b] = "clean" => stored[Current(b)] = Objects /\ Current(b) \notin checkpoint

\* What the goroutine's copy of a job says of the bundle and of the storage.
CopyHolds ==
  \A j \in Job :
    /\ j \in checkpoint => j \in bundle
    /\ stored[j] \notin {{}, Objects} => j \in checkpoint
    /\ rec[j] = "completed" => stored[j] = Objects

\* And what the record on disk, an older copy perhaps, still says.
DiskHolds ==
  \A j \in Job :
    /\ disk[j].sealed => j \in checkpoint \/ stored[j] = Objects
    /\ disk[j].state = "completed" => stored[j] = Objects
    /\ disk[j].state \in Settled => rec[j] \in Settled

IInv ==
  /\ TypeOK /\ AtRealm /\ CloneHeld /\ Staged /\ DecidedSettles /\ Undecided /\ AtStep
  /\ NothingParkedWhileUploading /\ CopyHolds /\ DiskHolds
-----------------------------------------------------------------------------
\* The realms of a batch are its jobs, and no two are the same.
LEMMA JobFacts ==
  /\ \A b \in Batch, r \in 1..Realms : <<b, r>> \in Job /\ <<b, r>> \in Jobs(b)
  /\ \A b, c \in Batch, r, s \in 1..Realms : <<b, r>> = <<c, s>> <=> b = c /\ r = s
BY DEF Job, Jobs

\* Whatever a step saves, a record on disk becomes what the job is after the step,
\* what it was before, or stays.
Saves ==
  /\ DOMAIN disk' = Job /\ disk' = [j \in Job |-> disk'[j]]
  /\ \A j \in Job : disk'[j] \in {Now(j)', Now(j), disk[j]}

LEMMA SaveIs == ASSUME NEW js, Save(js) PROVE Saves
<1>1. PICK wrote \in [Job -> {"outcome", "announcement", "nothing"}] :
        disk' = [j \in Job |-> CASE wrote[j] = "outcome" -> Now(j)'
                                [] wrote[j] = "announcement" -> Now(j)
                                [] wrote[j] = "nothing" -> disk[j]]
  BY DEF Save
<1>2. \A j \in Job : wrote[j] \in {"outcome", "announcement", "nothing"}
  OBVIOUS
<1> QED
  BY <1>1, <1>2 DEF Saves

LEMMA UnsavedIs == ASSUME TypeOK, UNCHANGED disk PROVE Saves
BY DEF TypeOK, Saves

\* What no step takes back.
Onward ==
  /\ rec' \in [Job -> States]
  /\ \A j \in Job :
      /\ stored[j] = Objects => stored'[j] = Objects
      /\ j \in checkpoint => j \in checkpoint' \/ stored'[j] = Objects
      /\ rec'[j] = "completed" => stored'[j] = Objects
      /\ rec[j] \in Settled => rec'[j] \in Settled

\* The fields of the record that a save writes.
LEMMA NowIs ==
  \A j \in Job :
    /\ Now(j).state = rec[j] /\ (Now(j).sealed <=> j \in checkpoint)
    /\ Now(j)'.state = rec'[j] /\ (Now(j)'.sealed <=> j \in checkpoint')
BY Zenon DEF Now

LEMMA SaveKeeps ==
  ASSUME TypeOK, CopyHolds, DiskHolds, Saves, Onward
  PROVE  disk' \in [Job -> Record] /\ DiskHolds'
<1>1. \A j \in Job : Now(j) \in Record /\ Now(j)' \in Record /\ disk[j] \in Record
  BY DEF Now, Record, TypeOK, Onward
<1>2. disk' \in [Job -> Record]
  BY <1>1 DEF Saves
<1>3. SUFFICES ASSUME NEW j \in Job
               PROVE  /\ disk'[j].sealed => j \in checkpoint' \/ stored'[j] = Objects
                      /\ disk'[j].state = "completed" => stored'[j] = Objects
                      /\ disk'[j].state \in Settled => rec'[j] \in Settled
  BY <1>2 DEF DiskHolds
<1>4. CASE disk'[j] = Now(j)'
  BY <1>4, NowIs DEF Onward
<1>5. CASE disk'[j] = Now(j)
  BY <1>5, NowIs DEF Onward, CopyHolds
<1>6. CASE disk'[j] = disk[j]
  BY <1>6 DEF DiskHolds, Onward
<1> QED
  BY <1>4, <1>5, <1>6 DEF Saves

\* Nothing is staged, sealed or torn down at the start.
LEMMA InitIInv == Init => IInv
<1> SUFFICES ASSUME Init PROVE IInv
  OBVIOUS
<1> USE BatchAssumption DEF Init
<1>1. TypeOK
  BY DEF TypeOK, Record, States
<1>2. AtRealm /\ CloneHeld /\ Staged /\ DecidedSettles /\ AtStep
  BY DEF AtRealm, Early, CloneHeld, Staged, DecidedSettles, Decided, AtStep, Exports,
     Uploads
<1>3. Undecided /\ NothingParkedWhileUploading /\ CopyHolds /\ DiskHolds
  BY JobFacts DEF Undecided, NothingParkedWhileUploading, CopyHolds, DiskHolds, Settled,
     Terminal
<1> QED
  BY <1>1, <1>2, <1>3 DEF IInv

\* The records of a new batch say queued; none of its realms is staged.
LEMMA CaptureKeeps == ASSUME IInv, NEW b \in Batch, Capture(b) PROVE IInv'
<1> USE JobFacts, BatchAssumption DEF IInv, Capture, At, Goto, Set, Jobs, Unedited, pod,
   job, local
<1>1. rec' \in [Job -> States]
  BY SMTT(60) DEF TypeOK, States, Settled, Terminal
<1>2. Saves
  BY SaveIs
<1>3. CopyHolds'
  BY <1>1, SMTT(30) DEF CopyHolds, TypeOK, AtRealm, AtStep, Staged, Uploads, Job
<1>4. Onward
  BY <1>1, <1>3, SMTT(30) DEF Onward, CopyHolds, TypeOK, AtRealm, AtStep, Staged,
     Undecided, Early, Exports, Uploads, Settled, Terminal, Job
<1>5. disk' \in [Job -> Record] /\ DiskHolds'
  BY <1>2, <1>4, SaveKeeps
<1>6. TypeOK'
  BY <1>1, <1>5, SMTT(30) DEF TypeOK, AtRealm, Uploads
<1>7. AtRealm' /\ CloneHeld'
  BY DEF TypeOK, AtRealm, CloneHeld, Early, Job, Exports, Uploads
<1>8. Staged' /\ AtStep'
  BY DEF Current, TypeOK, AtRealm, Early, AtStep, Staged, Exports, Uploads
<1>9. DecidedSettles' /\ Undecided'
  BY DEF TypeOK, AtRealm, Early, AtStep, Staged, DecidedSettles, Decided, Undecided,
     Settled, Terminal, Exports, Uploads
<1>10. NothingParkedWhileUploading'
  BY DEF TypeOK, CloneHeld, NothingParkedWhileUploading, LeftBehind, Exports, Uploads
<1> QED
  BY <1>3, <1>5, <1>6, <1>7, <1>8, <1>9, <1>10

\* Before the clone is up a failure settles every job of the batch.
LEMMA TrackKeeps == ASSUME IInv, NEW b \in Batch, Track(b) PROVE IInv'
<1> USE JobFacts, BatchAssumption DEF IInv, Track, At, Goto, Fail, Errors, Set, Jobs,
   Unedited, pod, job, local
<1>1. rec' \in [Job -> States]
  BY SMTT(60) DEF TypeOK, States, Settled, Terminal
<1>2. Saves
  BY SaveIs
<1>3. CopyHolds'
  BY <1>1, SMTT(30) DEF CopyHolds, TypeOK, AtRealm, AtStep, Staged, Uploads, Job
<1>4. Onward
  BY <1>1, <1>3, SMTT(30) DEF Onward, CopyHolds, TypeOK, AtRealm, AtStep, Staged,
     Undecided, Early, Exports, Uploads, Settled, Terminal, Job
<1>5. disk' \in [Job -> Record] /\ DiskHolds'
  BY <1>2, <1>4, SaveKeeps
<1>6. TypeOK'
  BY <1>1, <1>5, SMTT(30) DEF TypeOK, AtRealm, Uploads
<1>7. AtRealm' /\ CloneHeld'
  BY DEF TypeOK, AtRealm, CloneHeld, Early, Job, Exports, Uploads
<1>8. Staged' /\ AtStep'
  BY DEF Current, TypeOK, AtRealm, Early, AtStep, Staged, Exports, Uploads
<1>9. DecidedSettles' /\ Undecided'
  BY DEF TypeOK, AtRealm, Early, AtStep, Staged, DecidedSettles, Decided, Undecided,
     Settled, Terminal, Exports, Uploads
<1>10. NothingParkedWhileUploading'
  BY DEF TypeOK, CloneHeld, NothingParkedWhileUploading, LeftBehind, Exports, Uploads
<1> QED
  BY <1>3, <1>5, <1>6, <1>7, <1>8, <1>9, <1>10

\* The same for the probe.
LEMMA ProbeKeeps == ASSUME IInv, NEW b \in Batch, Probe(b) PROVE IInv'
<1> USE JobFacts, BatchAssumption DEF IInv, Probe, At, Goto, Fail, Errors, Set, Jobs,
   Unedited, pod, job, local
<1>1. rec' \in [Job -> States]
  BY SMTT(60) DEF TypeOK, States, Settled, Terminal
<1>2. Saves
  BY SaveIs
<1>3. CopyHolds'
  BY <1>1, SMTT(30) DEF CopyHolds, TypeOK, AtRealm, AtStep, Staged, Uploads, Job
<1>4. Onward
  BY <1>1, <1>3, SMTT(30) DEF Onward, CopyHolds, TypeOK, AtRealm, AtStep, Staged,
     Undecided, Early, Exports, Uploads, Settled, Terminal, Job
<1>5. disk' \in [Job -> Record] /\ DiskHolds'
  BY <1>2, <1>4, SaveKeeps
<1>6. TypeOK'
  BY <1>1, <1>5, SMTT(30) DEF TypeOK, AtRealm, Uploads
<1>7. AtRealm' /\ CloneHeld'
  BY DEF TypeOK, AtRealm, CloneHeld, Early, Job, Exports, Uploads
<1>8. Staged' /\ AtStep'
  BY DEF Current, TypeOK, AtRealm, Early, AtStep, Staged, Exports, Uploads
<1>9. DecidedSettles' /\ Undecided'
  BY DEF TypeOK, AtRealm, Early, AtStep, Staged, DecidedSettles, Decided, Undecided,
     Settled, Terminal, Exports, Uploads
<1>10. NothingParkedWhileUploading'
  BY DEF TypeOK, CloneHeld, NothingParkedWhileUploading, LeftBehind, Exports, Uploads
<1> QED
  BY <1>3, <1>5, <1>6, <1>7, <1>8, <1>9, <1>10

\* A clone that comes up is recorded; otherwise the batch goes to its deferred teardown.
LEMMA CreateKeeps == ASSUME IInv, NEW b \in Batch, Create(b) PROVE IInv'
<1> USE JobFacts, BatchAssumption DEF IInv, Create, At, Goto, Fail, Errors, Set, Jobs,
   Unedited, pod, job, local
<1>1. rec' \in [Job -> States]
  BY SMTT(60) DEF TypeOK, States, Settled, Terminal
<1>2. Saves
  BY SaveIs, UnsavedIs
<1>3. CopyHolds'
  BY <1>1, SMTT(30) DEF CopyHolds, TypeOK, AtRealm, AtStep, Staged, Uploads, Job
<1>4. Onward
  BY <1>1, <1>3, SMTT(30) DEF Onward, CopyHolds, TypeOK, AtRealm, AtStep, Staged,
     Undecided, Early, Exports, Uploads, Settled, Terminal, Job
<1>5. disk' \in [Job -> Record] /\ DiskHolds'
  BY <1>2, <1>4, SaveKeeps
<1>6. TypeOK'
  BY <1>1, <1>5, SMTT(30) DEF TypeOK, AtRealm, Uploads
<1>7. AtRealm' /\ CloneHeld'
  BY DEF TypeOK, AtRealm, CloneHeld, Early, Job, Exports, Uploads
<1>8. Staged' /\ AtStep'
  BY DEF Current, TypeOK, AtRealm, Early, AtStep, Staged, Exports, Uploads
<1>9. DecidedSettles' /\ Undecided'
  BY DEF TypeOK, AtRealm, Early, AtStep, Staged, DecidedSettles, Decided, Undecided,
     Settled, Terminal, Exports, Uploads
<1>10. NothingParkedWhileUploading'
  BY DEF TypeOK, CloneHeld, NothingParkedWhileUploading, LeftBehind, Exports, Uploads
<1> QED
  BY <1>3, <1>5, <1>6, <1>7, <1>8, <1>9, <1>10

\* The recorded clone is what the exports start from.
LEMMA AwaitKeeps == ASSUME IInv, NEW b \in Batch, Await(b) PROVE IInv'
<1> USE JobFacts, BatchAssumption DEF IInv, Await, At, Goto, Fail, Errors, Set, Jobs,
   Unedited, pod, job, local
<1>1. rec' \in [Job -> States]
  BY SMTT(60) DEF TypeOK, States, Settled, Terminal
<1>2. Saves
  BY SaveIs
<1>3. CopyHolds'
  BY <1>1, SMTT(30) DEF CopyHolds, TypeOK, AtRealm, AtStep, Staged, Uploads, Job
<1>4. Onward
  BY <1>1, <1>3, SMTT(30) DEF Onward, CopyHolds, TypeOK, AtRealm, AtStep, Staged,
     Undecided, Early, Exports, Uploads, Settled, Terminal, Job
<1>5. disk' \in [Job -> Record] /\ DiskHolds'
  BY <1>2, <1>4, SaveKeeps
<1>6. TypeOK'
  BY <1>1, <1>5, SMTT(30) DEF TypeOK, AtRealm, Uploads
<1>7. AtRealm' /\ CloneHeld'
  BY DEF TypeOK, AtRealm, CloneHeld, Early, Job, Exports, Uploads
<1>8. Staged' /\ AtStep'
  BY DEF Current, TypeOK, AtRealm, Early, AtStep, Staged, Exports, Uploads
<1>9. DecidedSettles' /\ Undecided'
  BY DEF TypeOK, AtRealm, Early, AtStep, Staged, DecidedSettles, Decided, Undecided,
     Settled, Terminal, Exports, Uploads
<1>10. NothingParkedWhileUploading'
  BY DEF TypeOK, CloneHeld, NothingParkedWhileUploading, LeftBehind, Exports, Uploads
<1> QED
  BY <1>3, <1>5, <1>6, <1>7, <1>8, <1>9, <1>10

\* The realms a cancel leaves unreached are not staged, and all settle.
LEMMA NextRealmKeeps == ASSUME IInv, NEW b \in Batch, NextRealm(b) PROVE IInv'
<1> USE JobFacts, BatchAssumption DEF IInv, NextRealm, At, Goto, Set, Current, pod, job,
   local
<1>1. rec' \in [Job -> States]
  BY SMTT(60) DEF TypeOK, States, Settled, Terminal
<1>2. Saves
  BY SaveIs
<1>3. CopyHolds'
  BY <1>1, SMTT(30) DEF CopyHolds, TypeOK, AtRealm, AtStep, Staged, Uploads, Job
<1>4. Onward
  BY <1>1, <1>3, SMTT(30) DEF Onward, CopyHolds, TypeOK, AtRealm, AtStep, Staged,
     Undecided, Early, Exports, Uploads, Settled, Terminal, Job
<1>5. disk' \in [Job -> Record] /\ DiskHolds'
  BY <1>2, <1>4, SaveKeeps
<1>6. TypeOK'
  BY <1>1, <1>5, SMTT(30) DEF TypeOK, AtRealm, Uploads
<1>7. AtRealm' /\ CloneHeld'
  <2>1. AtRealm'
    BY DEF TypeOK, AtRealm, Early, Exports, Uploads
  <2>2. CloneHeld'
    BY DEF TypeOK, CloneHeld, Exports, Uploads
  <2> QED
    BY <2>1, <2>2
<1>8. Staged' /\ AtStep'
  BY DEF Current, TypeOK, AtRealm, Early, AtStep, Staged, Exports, Uploads
<1>9. DecidedSettles' /\ Undecided'
  BY DEF TypeOK, AtRealm, Early, AtStep, Staged, DecidedSettles, Decided, Undecided,
     Settled, Terminal, Exports, Uploads
<1>10. NothingParkedWhileUploading'
  BY DEF TypeOK, CloneHeld, NothingParkedWhileUploading, LeftBehind, Exports, Uploads
<1> QED
  BY <1>3, <1>5, <1>6, <1>7, <1>8, <1>9, <1>10

\* A staged realm is behind the head of the exports, and runs.
LEMMA CollectKeeps == ASSUME IInv, NEW b \in Batch, Collect(b) PROVE IInv'
<1> USE JobFacts, BatchAssumption DEF IInv, Collect, At, Goto, Fail, Errors, Set,
   Current, Unedited, pod, job, local
<1>1. rec' \in [Job -> States]
  BY SMTT(60) DEF TypeOK, States, Settled, Terminal
<1>2. Saves
  BY SaveIs
<1>3. CopyHolds'
  <2>1. Current(b) \in Job /\ at[b] \in 1 .. Realms
    BY DEF TypeOK, AtRealm, Uploads, Job
  <2>2. UNCHANGED <<checkpoint, bundle, stored>>
    OBVIOUS
  <2>3. \A j \in Job : rec'[j] = "completed" => rec[j] = "completed"
    BY <2>1 DEF TypeOK
  <2> QED
    BY <2>2, <2>3 DEF CopyHolds
<1>4. Onward
  <2>1. Current(b) \in Job /\ at[b] \in 1 .. Realms
    BY DEF TypeOK, AtRealm, Uploads, Job
  <2>2. UNCHANGED <<checkpoint, bundle, stored>>
    OBVIOUS
  <2>3. rec[Current(b)] \notin Settled
    BY DEF AtStep, Settled, Terminal
  <2>4. \A j \in Job : rec[j] \in Settled => rec'[j] = rec[j]
    BY <2>1, <2>3 DEF TypeOK
  <2> QED
    BY <1>1, <1>3, <2>2, <2>4 DEF Onward, CopyHolds
<1>5. disk' \in [Job -> Record] /\ DiskHolds'
  BY <1>2, <1>4, SaveKeeps
<1>6. TypeOK'
  BY <1>1, <1>5, SMTT(30) DEF TypeOK, AtRealm, Uploads
<1>7. AtRealm' /\ CloneHeld'
  BY DEF TypeOK, AtRealm, CloneHeld, Early, Job, Exports, Uploads
<1>8. Staged' /\ AtStep'
  BY DEF Current, TypeOK, AtRealm, Early, AtStep, Staged, Exports, Uploads
<1>9. DecidedSettles' /\ Undecided'
  BY DEF TypeOK, AtRealm, Early, AtStep, Staged, DecidedSettles, Decided, Undecided,
     Settled, Terminal, Exports, Uploads
<1>10. NothingParkedWhileUploading'
  BY DEF TypeOK, CloneHeld, NothingParkedWhileUploading, LeftBehind, Exports, Uploads
<1> QED
  BY <1>3, <1>5, <1>6, <1>7, <1>8, <1>9, <1>10

\* The key of a batch that exported is unspent, so the clone is asked to go.
LEMMA TeardownKeeps == ASSUME IInv, NEW b \in Batch, Teardown(b) PROVE IInv'
<1> USE JobFacts, BatchAssumption DEF IInv, Teardown, At, Goto, Once, DestroyClone,
   LeftBehind, pod, job, local
<1>1. rec' \in [Job -> States]
  BY DEF TypeOK
<1>2. Saves
  BY SaveIs, UnsavedIs
<1>3. CopyHolds'
  <2>1. UNCHANGED <<rec, checkpoint, bundle, stored>>
    OBVIOUS
  <2> QED
    BY <2>1 DEF CopyHolds
<1>4. Onward
  <2>1. UNCHANGED <<rec, checkpoint, bundle, stored>>
    OBVIOUS
  <2> QED
    BY <1>1, <2>1 DEF Onward, CopyHolds
<1>5. disk' \in [Job -> Record] /\ DiskHolds'
  BY <1>2, <1>4, SaveKeeps
<1>6. TypeOK'
  <2>1. Jobs(b) \subseteq Job
    BY DEF Jobs, Job
  <2>2. named' \subseteq Job /\ ledger' \subseteq Job
    BY <2>1 DEF TypeOK
  <2>3. cluster' \subseteq Batch /\ destroyed' \subseteq Batch /\ UNCHANGED checkpoint
    BY DEF TypeOK
  <2> QED
    BY <1>1, <1>5, <2>2, <2>3, SMTT(30) DEF TypeOK
<1>7. AtRealm' /\ CloneHeld'
  BY DEF TypeOK, AtRealm, CloneHeld, Early, Job, Exports, Uploads
<1>8. Staged' /\ AtStep'
  BY DEF Current, TypeOK, AtRealm, Early, AtStep, Staged, Exports, Uploads
<1>9. DecidedSettles' /\ Undecided'
  BY DEF TypeOK, AtRealm, Early, AtStep, Staged, DecidedSettles, Decided, Undecided,
     Settled, Terminal, Exports, Uploads
<1>10. NothingParkedWhileUploading'
  BY DEF TypeOK, CloneHeld, NothingParkedWhileUploading, LeftBehind, Exports, Uploads
<1> QED
  BY <1>3, <1>5, <1>6, <1>7, <1>8, <1>9, <1>10

\* After a failed Prepare every job has settled already.
LEMMA DeferredTeardownKeeps == ASSUME IInv, NEW b \in Batch, DeferredTeardown(b) PROVE IInv'
<1> USE JobFacts, BatchAssumption DEF IInv, DeferredTeardown, At, Goto, Once,
   DestroyClone, LeftBehind, pod, job, local
<1>1. rec' \in [Job -> States]
  BY DEF TypeOK
<1>2. Saves
  BY SaveIs, UnsavedIs
<1>3. CopyHolds'
  <2>1. UNCHANGED <<rec, checkpoint, bundle, stored>>
    OBVIOUS
  <2> QED
    BY <2>1 DEF CopyHolds
<1>4. Onward
  <2>1. UNCHANGED <<rec, checkpoint, bundle, stored>>
    OBVIOUS
  <2> QED
    BY <1>1, <2>1 DEF Onward, CopyHolds
<1>5. disk' \in [Job -> Record] /\ DiskHolds'
  BY <1>2, <1>4, SaveKeeps
<1>6. TypeOK'
  <2>1. Jobs(b) \subseteq Job
    BY DEF Jobs, Job
  <2>2. named' \subseteq Job /\ ledger' \subseteq Job
    BY <2>1 DEF TypeOK
  <2>3. cluster' \subseteq Batch /\ destroyed' \subseteq Batch /\ UNCHANGED checkpoint
    BY DEF TypeOK
  <2> QED
    BY <1>1, <1>5, <2>2, <2>3, SMTT(30) DEF TypeOK
<1>7. AtRealm' /\ CloneHeld'
  BY DEF TypeOK, AtRealm, CloneHeld, Early, Job, Exports, Uploads
<1>8. Staged' /\ AtStep'
  BY DEF Current, TypeOK, AtRealm, Early, AtStep, Staged, Exports, Uploads
<1>9. DecidedSettles' /\ Undecided'
  BY DEF TypeOK, AtRealm, Early, AtStep, Staged, DecidedSettles, Decided, Undecided,
     Settled, Terminal, Exports, Uploads
<1>10. NothingParkedWhileUploading'
  BY DEF TypeOK, CloneHeld, NothingParkedWhileUploading, LeftBehind, Exports, Uploads
<1> QED
  BY <1>3, <1>5, <1>6, <1>7, <1>8, <1>9, <1>10

\* The packaging loop passes only what is not staged.
LEMMA NextBundleKeeps == ASSUME IInv, NEW b \in Batch, NextBundle(b) PROVE IInv'
<1> USE JobFacts, BatchAssumption DEF IInv, NextBundle, At, Goto, Current, pod, job,
   local
<1>1. rec' \in [Job -> States]
  BY DEF TypeOK
<1>2. Saves
  BY UnsavedIs
<1>3. CopyHolds'
  BY <1>1, SMTT(30) DEF CopyHolds, TypeOK, AtRealm, AtStep, Staged, Uploads, Job
<1>4. Onward
  BY <1>1, <1>3, SMTT(30) DEF Onward, CopyHolds, TypeOK, AtRealm, AtStep, Staged,
     Undecided, Early, Exports, Uploads, Settled, Terminal, Job
<1>5. disk' \in [Job -> Record] /\ DiskHolds'
  BY <1>2, <1>4, SaveKeeps
<1>6. TypeOK'
  BY <1>1, <1>5, SMTT(30) DEF TypeOK, AtRealm, Uploads
<1>7. AtRealm' /\ CloneHeld'
  BY DEF TypeOK, AtRealm, CloneHeld, Early, Job, Exports, Uploads
<1>8. Staged' /\ AtStep'
  BY DEF Current, TypeOK, AtRealm, Early, AtStep, Staged, Exports, Uploads
<1>9. DecidedSettles' /\ Undecided'
  BY DEF TypeOK, AtRealm, Early, AtStep, Staged, DecidedSettles, Decided, Undecided,
     Settled, Terminal, Exports, Uploads
<1>10. NothingParkedWhileUploading'
  BY DEF TypeOK, CloneHeld, NothingParkedWhileUploading, LeftBehind, Exports, Uploads
<1> QED
  BY <1>3, <1>5, <1>6, <1>7, <1>8, <1>9, <1>10

\* A sealed bundle and the checkpoint that names it appear together.
LEMMA SealKeeps == ASSUME IInv, NEW b \in Batch, Seal(b) PROVE IInv'
<1> USE JobFacts, BatchAssumption DEF IInv, Seal, At, Goto, Fail, Set, Current, pod,
   job, local
<1>1. rec' \in [Job -> States]
  BY SMTT(60) DEF TypeOK, States, Settled, Terminal
<1>2. Saves
  BY SaveIs
<1>3. CopyHolds'
  BY <1>1, SMTT(30) DEF CopyHolds, TypeOK, AtRealm, AtStep, Staged, Uploads, Job
<1>4. Onward
  BY <1>1, <1>3, SMTT(30) DEF Onward, CopyHolds, TypeOK, AtRealm, AtStep, Staged,
     Undecided, Early, Exports, Uploads, Settled, Terminal, Job
<1>5. disk' \in [Job -> Record] /\ DiskHolds'
  BY <1>2, <1>4, SaveKeeps
<1>6. TypeOK'
  <2>1. Current(b) \in Job /\ at[b] \in 1 .. Realms
    BY SMTT(60) DEF Job, TypeOK
  <2>2. at' \in [Batch -> 1 .. Realms + 1]
    BY <2>1, SMTT(60) DEF TypeOK
  <2> QED
    BY <1>1, <1>5, <2>1, <2>2, SMTT(60) DEF TypeOK
<1>7. AtRealm' /\ CloneHeld'
  BY DEF TypeOK, AtRealm, CloneHeld, Early, Job, Exports, Uploads
<1>8. Staged' /\ AtStep'
  BY DEF Current, TypeOK, AtRealm, Early, AtStep, Staged, Exports, Uploads
<1>9. DecidedSettles' /\ Undecided'
  BY DEF TypeOK, AtRealm, Early, AtStep, Staged, DecidedSettles, Decided, Undecided,
     Settled, Terminal, Exports, Uploads
<1>10. NothingParkedWhileUploading'
  BY DEF TypeOK, CloneHeld, NothingParkedWhileUploading, LeftBehind, Exports, Uploads
<1> QED
  BY <1>3, <1>5, <1>6, <1>7, <1>8, <1>9, <1>10

\* What is being stored is named by its checkpoint.
LEMMA PutKeeps == ASSUME IInv, NEW b \in Batch, Put(b) PROVE IInv'
<1> USE JobFacts, BatchAssumption DEF IInv, Put, At, Goto, Fail, Set, Current, Unedited,
   pod, job, local
<1>1. rec' \in [Job -> States]
  BY SMTT(60) DEF TypeOK, States, Settled, Terminal
<1>2. Saves
  BY SaveIs, UnsavedIs
<1>3. CopyHolds'
  <2>1. Current(b) \in Job /\ at[b] \in 1 .. Realms
    BY DEF TypeOK, AtRealm, Uploads, Job
  <2>2. UNCHANGED <<checkpoint, bundle>>
    OBVIOUS
  <2>3. \A j \in Job : j # Current(b) => stored'[j] = stored[j] /\ rec'[j] = rec[j]
    BY <2>1 DEF TypeOK
  <2>4. rec'[Current(b)] # "completed" /\ Current(b) \in checkpoint
    BY <2>1 DEF TypeOK, CopyHolds, AtStep
  <2> QED
    BY <2>2, <2>3, <2>4 DEF CopyHolds
<1>4. Onward
  <2>1. Current(b) \in Job /\ at[b] \in 1 .. Realms
    BY DEF TypeOK, AtRealm, Uploads, Job
  <2>2. UNCHANGED checkpoint
    OBVIOUS
  <2>3. \A j \in Job : j # Current(b) => stored'[j] = stored[j] /\ rec'[j] = rec[j]
    BY <2>1 DEF TypeOK
  <2>4. rec'[Current(b)] = rec[Current(b)] \/ rec'[Current(b)] \in Settled
    BY <2>1 DEF TypeOK, Settled, Terminal
  <2> QED
    BY <1>1, <1>3, <2>1, <2>2, <2>3, <2>4 DEF Onward, CopyHolds
<1>5. disk' \in [Job -> Record] /\ DiskHolds'
  BY <1>2, <1>4, SaveKeeps
<1>6. TypeOK'
  BY <1>1, <1>5, SMTT(30) DEF TypeOK, AtRealm, Uploads
<1>7. AtRealm' /\ CloneHeld'
  BY DEF TypeOK, AtRealm, CloneHeld, Early, Job, Exports, Uploads
<1>8. Staged' /\ AtStep'
  BY DEF Current, TypeOK, AtRealm, Early, AtStep, Staged, Exports, Uploads
<1>9. DecidedSettles' /\ Undecided'
  BY DEF TypeOK, AtRealm, Early, AtStep, Staged, DecidedSettles, Decided, Undecided,
     Settled, Terminal, Exports, Uploads
<1>10. NothingParkedWhileUploading'
  BY DEF TypeOK, CloneHeld, NothingParkedWhileUploading, LeftBehind, Exports, Uploads
<1> QED
  BY <1>3, <1>5, <1>6, <1>7, <1>8, <1>9, <1>10

\* The job lets go of the bundle when all objects are stored.
LEMMA UploadedKeeps == ASSUME IInv, NEW b \in Batch, Uploaded(b) PROVE IInv'
<1> USE JobFacts, BatchAssumption DEF IInv, Uploaded, At, Goto, Current, pod, job, local
<1>1. rec' \in [Job -> States]
  BY DEF TypeOK
<1>2. Saves
  BY SaveIs
<1>3. CopyHolds'
  BY <1>1, SMTT(30) DEF CopyHolds, TypeOK, AtRealm, AtStep, Staged, Uploads, Job
<1>4. Onward
  BY <1>1, <1>3, SMTT(30) DEF Onward, CopyHolds, TypeOK, AtRealm, AtStep, Staged,
     Undecided, Early, Exports, Uploads, Settled, Terminal, Job
<1>5. disk' \in [Job -> Record] /\ DiskHolds'
  BY <1>2, <1>4, SaveKeeps
<1>6. TypeOK'
  BY <1>1, <1>5, SMTT(30) DEF TypeOK, AtRealm, Uploads
<1>7. AtRealm' /\ CloneHeld'
  BY DEF TypeOK, AtRealm, CloneHeld, Early, Job, Exports, Uploads
<1>8. Staged' /\ AtStep'
  BY DEF Current, TypeOK, AtRealm, Early, AtStep, Staged, Exports, Uploads
<1>9. DecidedSettles' /\ Undecided'
  BY DEF TypeOK, AtRealm, Early, AtStep, Staged, DecidedSettles, Decided, Undecided,
     Settled, Terminal, Exports, Uploads
<1>10. NothingParkedWhileUploading'
  BY DEF TypeOK, CloneHeld, NothingParkedWhileUploading, LeftBehind, Exports, Uploads
<1> QED
  BY <1>3, <1>5, <1>6, <1>7, <1>8, <1>9, <1>10

\* The local copy goes when no checkpoint names it.
LEMMA CompleteKeeps == ASSUME IInv, NEW b \in Batch, Complete(b) PROVE IInv'
<1> USE JobFacts, BatchAssumption DEF IInv, Complete, At, Goto, Set, Current, Unedited,
   pod, job, local
<1>1. rec' \in [Job -> States]
  BY SMTT(60) DEF TypeOK, States, Settled, Terminal
<1>2. Saves
  BY SaveIs
<1>3. CopyHolds'
  BY <1>1, SMTT(30) DEF CopyHolds, TypeOK, AtRealm, AtStep, Staged, Uploads, Job
<1>4. Onward
  BY <1>1, <1>3, SMTT(30) DEF Onward, CopyHolds, TypeOK, AtRealm, AtStep, Staged,
     Undecided, Early, Exports, Uploads, Settled, Terminal, Job
<1>5. disk' \in [Job -> Record] /\ DiskHolds'
  BY <1>2, <1>4, SaveKeeps
<1>6. TypeOK'
  BY <1>1, <1>5, SMTT(30) DEF TypeOK, AtRealm, Uploads
<1>7. AtRealm' /\ CloneHeld'
  BY DEF TypeOK, AtRealm, CloneHeld, Early, Job, Exports, Uploads
<1>8. Staged' /\ AtStep'
  BY DEF Current, TypeOK, AtRealm, Early, AtStep, Staged, Exports, Uploads
<1>9. DecidedSettles' /\ Undecided'
  BY DEF TypeOK, AtRealm, Early, AtStep, Staged, DecidedSettles, Decided, Undecided,
     Settled, Terminal, Exports, Uploads
<1>10. NothingParkedWhileUploading'
  BY DEF TypeOK, CloneHeld, NothingParkedWhileUploading, LeftBehind, Exports, Uploads
<1> QED
  BY <1>3, <1>5, <1>6, <1>7, <1>8, <1>9, <1>10

\* A call that never returns moves nothing.
LEMMA HangKeeps == ASSUME IInv, NEW b \in Batch, Hang(b) PROVE IInv'
<1> USE JobFacts, BatchAssumption DEF IInv, Hang, pod, job, local
<1>1. rec' \in [Job -> States]
  BY DEF TypeOK
<1>2. Saves
  BY UnsavedIs
<1>3. CopyHolds'
  BY <1>1, SMTT(30) DEF CopyHolds, TypeOK, AtRealm, AtStep, Staged, Uploads, Job
<1>4. Onward
  BY <1>1, <1>3, SMTT(30) DEF Onward, CopyHolds, TypeOK, AtRealm, AtStep, Staged,
     Undecided, Early, Exports, Uploads, Settled, Terminal, Job
<1>5. disk' \in [Job -> Record] /\ DiskHolds'
  BY <1>2, <1>4, SaveKeeps
<1>6. TypeOK'
  BY <1>1, <1>5, SMTT(30) DEF TypeOK, AtRealm, Uploads
<1>7. AtRealm' /\ CloneHeld'
  BY DEF TypeOK, AtRealm, CloneHeld, Early, Job, Exports, Uploads
<1>8. Staged' /\ AtStep'
  BY DEF Current, TypeOK, AtRealm, Early, AtStep, Staged, Exports, Uploads
<1>9. DecidedSettles' /\ Undecided'
  BY DEF TypeOK, AtRealm, Early, AtStep, Staged, DecidedSettles, Decided, Undecided,
     Settled, Terminal, Exports, Uploads
<1>10. NothingParkedWhileUploading'
  BY DEF TypeOK, CloneHeld, NothingParkedWhileUploading, LeftBehind, Exports, Uploads
<1> QED
  BY <1>3, <1>5, <1>6, <1>7, <1>8, <1>9, <1>10

\* A cancel marks the context and touches no job.
LEMMA CancelKeeps == ASSUME IInv, NEW b \in Batch, Cancel(b) PROVE IInv'
<1> USE JobFacts, BatchAssumption DEF IInv, Cancel, pod, job, local
<1>1. rec' \in [Job -> States]
  BY DEF TypeOK
<1>2. Saves
  BY UnsavedIs
<1>3. CopyHolds'
  BY <1>1, SMTT(30) DEF CopyHolds, TypeOK, AtRealm, AtStep, Staged, Uploads, Job
<1>4. Onward
  BY <1>1, <1>3, SMTT(30) DEF Onward, CopyHolds, TypeOK, AtRealm, AtStep, Staged,
     Undecided, Early, Exports, Uploads, Settled, Terminal, Job
<1>5. disk' \in [Job -> Record] /\ DiskHolds'
  BY <1>2, <1>4, SaveKeeps
<1>6. TypeOK'
  BY <1>1, <1>5, SMTT(30) DEF TypeOK, AtRealm, Uploads
<1>7. AtRealm' /\ CloneHeld'
  BY DEF TypeOK, AtRealm, CloneHeld, Early, Job, Exports, Uploads
<1>8. Staged' /\ AtStep'
  BY DEF Current, TypeOK, AtRealm, Early, AtStep, Staged, Exports, Uploads
<1>9. DecidedSettles' /\ Undecided'
  BY DEF TypeOK, AtRealm, Early, AtStep, Staged, DecidedSettles, Decided, Undecided,
     Settled, Terminal, Exports, Uploads
<1>10. NothingParkedWhileUploading'
  BY DEF TypeOK, CloneHeld, NothingParkedWhileUploading, LeftBehind, Exports, Uploads
<1> QED
  BY <1>3, <1>5, <1>6, <1>7, <1>8, <1>9, <1>10

\* The front end leaves batches alone.
LEMMA FrontKeeps ==
  ASSUME IInv, Signal \/ WaitOver \/ Abandon \/ Crash \/ UNCHANGED vars
  PROVE  IInv'
<1>1. /\ UNCHANGED <<pc, at, pod, job, local, hung>> /\ cancelled' \subseteq Batch
      /\ front' \in Fronts \cup {"cancelling", "left", "dead"}
  BY DEF IInv, TypeOK, Signal, WaitOver, Abandon, Crash, Job, Jobs, vars
<1>2. TypeOK'
  BY <1>1 DEF IInv, TypeOK, pod, job, local
<1>3. AtRealm' /\ CloneHeld' /\ Staged' /\ DecidedSettles' /\ Undecided' /\ AtStep'
  BY <1>1 DEF IInv, AtRealm, CloneHeld, Staged, DecidedSettles, Decided, Undecided, AtStep,
     Current, pod, job, local
<1>4. NothingParkedWhileUploading' /\ CopyHolds' /\ DiskHolds'
  BY <1>1 DEF IInv, NothingParkedWhileUploading, LeftBehind, CopyHolds, DiskHolds, pod,
     job, local
<1> QED
  BY <1>2, <1>3, <1>4 DEF IInv

\* Every step keeps the invariant.
LEMMA NextIInv == IInv /\ [Next]_vars => IInv'
<1> SUFFICES ASSUME IInv, [Next]_vars PROVE IInv'
  OBVIOUS
<1>1. ASSUME NEW b \in Batch, Capture(b) \/ Step(b) \/ Hang(b) \/ Cancel(b) PROVE IInv'
  BY <1>1, CaptureKeeps, TrackKeeps, ProbeKeeps, CreateKeeps, AwaitKeeps, NextRealmKeeps,
     CollectKeeps, TeardownKeeps, DeferredTeardownKeeps, NextBundleKeeps, SealKeeps,
     PutKeeps, UploadedKeeps, CompleteKeeps, HangKeeps, CancelKeeps DEF Step
<1>2. CASE Signal \/ WaitOver \/ Abandon \/ Crash \/ UNCHANGED vars
  BY <1>2, FrontKeeps
<1> QED
  BY <1>1, <1>2 DEF Next

\* The invariant holds always.
LEMMA Invariant == Spec => []IInv
BY InitIInv, NextIInv, PTL DEF Spec
-----------------------------------------------------------------------------
\* The variables keep their types: the loops stay within the realms of their batch.
THEOREM TypeCorrect == Spec => []TypeOK
BY Invariant, PTL DEF IInv

\* jobs.go:59 and capture.go:744: through every error, failed save, cancel and crash,
\* the bundle a record on disk names is there unless the snapshot is stored whole,
\* a snapshot begun in storage can be finished from here, and a job that its record
\* or its goroutine calls completed has all of it in storage.
THEOREM SnapshotsAreSafe == Spec => [](CheckpointIsDurable /\ CompletedIsStored)
<1>1. IInv => CheckpointIsDurable
  <2> SUFFICES ASSUME IInv, NEW j \in Job
               PROVE  /\ disk[j].sealed => j \in bundle \/ (stored[j] = Objects /\ Behind(j))
                      /\ stored[j] \notin {{}, Objects}
                           => j \in bundle /\ (disk[j].sealed \/ Behind(j))
    BY DEF CheckpointIsDurable
  <2> QED
    BY NowIs DEF IInv, CopyHolds, DiskHolds, Behind
<1>2. IInv => CompletedIsStored
  BY DEF IInv, CopyHolds, DiskHolds, CompletedIsStored
<1> QED
  BY <1>1, <1>2, Invariant, PTL

\* capture.go:236: while bundles are packaged and uploaded the clone is gone, or
\* every job of the batch says that it was left behind.
THEOREM CloneIsSafe == Spec => []NothingParkedWhileUploading
BY Invariant, PTL DEF IInv

\* One snapshot holds one realm: what was collected is packaged, no record says
\* otherwise, and when a batch has returned all its jobs have settled.
THEOREM NothingIsLost == Spec => []CollectedIsNotLost
<1>1. IInv => CollectedIsNotLost
  <2> SUFFICES ASSUME IInv, NEW b \in Batch, NEW r \in 1..Realms
               PROVE  /\ <<b, r>> \in collected =>
                           rec[<<b, r>>] = "running" /\ disk[<<b, r>>].state \notin Settled
                      /\ pc[b] = "returned" => rec[<<b, r>>] \in Settled
    BY DEF CollectedIsNotLost, Jobs
  <2>1. "running" \notin Settled
    BY DEF Settled, Terminal
  <2> QED
    BY <2>1, JobFacts DEF IInv, Staged, DecidedSettles, Decided, Exports, Uploads, DiskHolds
<1> QED
  BY <1>1, Invariant, PTL
=============================================================================
