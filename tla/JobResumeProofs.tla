--------------------------- MODULE JobResumeProofs ---------------------------
(***************************************************************************)
(* What is proved of a capture job after its export, for any number of     *)
(* Resume calls and any of the storages.                                   *)
(*                                                                         *)
(* The argument: the capture and a Resume never upload at the same time,   *)
(* for a record says interrupted with a checkpoint only once the capture   *)
(* has returned.  So, unless two Resume calls overlap, a Put that fails    *)
(* takes no object from a run that has its own behind it; and on S3, where *)
(* they may overlap, it takes none from anybody.                           *)
(***************************************************************************)
EXTENDS JobResume, TLAPS

Busy == {"planned", "open", "put", "sidecars", "unlink", "complete"}

\* A dead process runs nothing, and a call that has not begun holds no copy.
Quiet ==
  /\ process # "up" => capture = "returned" /\ \A c \in Call : call[c] \notin Busy
  /\ \A c \in Call : call[c] = "idle" => copy[c] = "none"

\* While the capture runs there is nothing to resume an upload from.
CaptureFirst ==
  /\ capture \in {"collect", "seal", "upload", "clean"} => rec \in {"running", "none"}
  /\ capture = "teardown" => cp = "none" /\ (mine = "running" => rec \in {"running", "none"})
  /\ capture = "collect" => cp = "none"
  /\ capture # "returned" => \A c \in Call : call[c] \notin Busy

\* Calls that do not overlap are never busy together, and none is busy once the
\* record says completed.
OneBusy ==
  ~overlapped => /\ \A c, d \in Call : call[c] \in Busy /\ call[d] \in Busy => c = d
                 /\ rec = "completed" => \A c \in Call : call[c] \notin Busy

\* A run that has its Put behind it has its bundle in storage.
PutIsBehind ==
  /\ capture = "clean" => "bundle" \in stored
  /\ OneAtATime /\ Keyed =>
       \A c \in Call : call[c] \in {"sidecars", "unlink", "complete"} => "bundle" \in stored

\* teardown, which saves the goroutine's copy, never saves it as completed.
NeverMine == mine # "completed"

IInv == /\ TypeOK /\ Quiet /\ CaptureFirst /\ OneBusy /\ PutIsBehind /\ NeverMine
        /\ CompletedHasBundle

LEMMA InitIInv == Init => IInv
BY DEF Init, IInv, TypeOK, Quiet, CaptureFirst, OneBusy, PutIsBehind, NeverMine,
       CompletedHasBundle, Settled, Terminal, Busy

\* Every step keeps the types.
LEMMA StepTypeOK == TypeOK /\ [Next]_vars => TypeOK'
<1> SUFFICES ASSUME TypeOK, [Next]_vars PROVE TypeOK'
  OBVIOUS
<1> USE DEF TypeOK, Settled, Terminal, Stopped, Objects, Up, Save, Unlink, disk, runs
<1>1. CASE Collect
  BY <1>1 DEF Collect, Capture
<1>2. CASE Teardown
  BY <1>2 DEF Teardown, Capture
<1>3. CASE Seal
  <2>1. bundle' \in BOOLEAN
    BY <1>3 DEF Seal
  <2>2. /\ rec' \in Settled \cup {"none", "running"} /\ cp' \in {"none", "sealed", "upload"}
        /\ capture' \in {"upload", "returned"}
    BY <1>3 DEF Seal, Capture
  <2> QED
    BY <1>3, <2>1, <2>2 DEF Seal
<1>4. CASE Upload
  <2>1. stored' \subseteq Objects
    BY <1>4 DEF Upload
  <2>2. /\ rec' \in Settled \cup {"none", "running"} /\ cp' \in {"none", "sealed", "upload"}
        /\ capture' \in {"upload", "clean", "returned"}
    BY <1>4 DEF Upload, Capture
  <2> QED
    BY <1>4, <2>1, <2>2 DEF Upload
<1>5. CASE Complete
  <2>1. bundle' \in BOOLEAN
    BY <1>5 DEF Complete
  <2> QED
    BY <1>5, <2>1 DEF Complete, Capture
<1>6. ASSUME NEW c \in Call, ResumeUpload(c) PROVE TypeOK'
  <2>1. overlapped' \in BOOLEAN
    BY <1>6 DEF ResumeUpload
  <2>2. cp \in {"none", "sealed", "upload"} /\ Plan = "upload"
    BY <1>6 DEF ResumeUpload
  <2> QED
    BY <1>6, <2>1, <2>2 DEF ResumeUpload
<1>7. ASSUME NEW c \in Call, ResumeRestart(c) PROVE TypeOK'
  BY <1>7 DEF ResumeRestart
<1>8. ASSUME NEW c \in Call, ResumeBegin(c) PROVE TypeOK'
  BY <1>8 DEF ResumeBegin, Run
<1>9. ASSUME NEW c \in Call, ResumeOpen(c) PROVE TypeOK'
  BY <1>9 DEF ResumeOpen, Run
<1>10. ASSUME NEW c \in Call, ResumePut(c) PROVE TypeOK'
  <2>1. stored' \subseteq Objects
    BY <1>10 DEF ResumePut, PutWorks, PutFails
  <2>2. rec' \in Settled \cup {"none", "running"} /\ cp' \in {"none", "sealed", "upload"}
    BY <1>10 DEF ResumePut
  <2>3. call' \in [Call -> {"idle", "planned", "open", "put", "sidecars", "unlink",
                            "complete", "returned"}]
    BY <1>10 DEF ResumePut, Run
  <2> QED
    BY <1>10, <2>1, <2>2, <2>3 DEF ResumePut
<1>11. ASSUME NEW c \in Call, ResumeSidecars(c) PROVE TypeOK'
  <2>1. stored' \subseteq Objects
    BY <1>11 DEF ResumeSidecars
  <2> QED
    BY <1>11, <2>1 DEF ResumeSidecars, Run
<1>12. ASSUME NEW c \in Call, ResumeUnlink(c) PROVE TypeOK'
  <2>1. bundle' \in BOOLEAN
    BY <1>12 DEF ResumeUnlink
  <2> QED
    BY <1>12, <2>1 DEF ResumeUnlink, Run
<1>13. ASSUME NEW c \in Call, ResumeComplete(c) PROVE TypeOK'
  BY <1>13 DEF ResumeComplete, Run
<1>14. ASSUME NEW c \in Call, Hang(c) PROVE TypeOK'
  BY <1>14 DEF Hang
<1>15. CASE DiscardCheck
  BY <1>15 DEF DiscardCheck
<1>16. CASE DiscardFiles \/ PurgeFiles
  <2>1. bundle' \in BOOLEAN
    BY <1>16 DEF DiscardFiles, PurgeFiles
  <2>2. discard' \in {"idle", "checked", "removed", "done"}
    BY <1>16 DEF DiscardFiles, PurgeFiles
  <2>3. UNCHANGED <<process, swept, rec, cp, stored, capture, mine, call, copy, again, runs>>
    BY <1>16 DEF DiscardFiles, PurgeFiles
  <2> QED
    BY <2>1, <2>2, <2>3
<1>17. CASE DiscardRecord \/ Purge
  <2>1. /\ discard' \in {"idle", "checked", "removed", "done"}
        /\ rec' \in {rec, "none"} /\ cp' \in {cp, "none"}
    BY <1>17 DEF DiscardRecord, Purge
  <2>2. UNCHANGED <<process, swept, bundle, stored, capture, mine, call, copy, again, runs>>
    BY <1>17 DEF DiscardRecord, Purge
  <2> QED
    BY <2>1, <2>2
<1>18. CASE Crash
  BY <1>18 DEF Crash
<1>19. CASE Adopt
  BY <1>19 DEF Adopt
<1>20. CASE SweepWork
  <2>1. bundle' \in BOOLEAN
    BY <1>20 DEF SweepWork
  <2> QED
    BY <1>20, <2>1 DEF SweepWork
<1>21. CASE StartBeside
  BY <1>21 DEF StartBeside
<1>22. CASE UNCHANGED vars
  BY <1>22 DEF vars
<1> QED
  BY <1>1, <1>2, <1>3, <1>4, <1>5, <1>6, <1>7, <1>8, <1>9, <1>10, <1>11, <1>12, <1>13, <1>14,
     <1>15, <1>16, <1>17, <1>18, <1>19, <1>20, <1>21, <1>22 DEF Next, CaptureStep, ResumeStep

\* A step of the capture: no call is busy, so nothing but the capture's own
\* Puts, which only add, has touched the storage.
LEMMA CaptureKeeps == IInv /\ CaptureStep => IInv'
<1> SUFFICES ASSUME IInv, CaptureStep PROVE IInv'
  OBVIOUS
<1>1. TypeOK'
  BY StepTypeOK DEF IInv, Next
<1>2. UNCHANGED <<call, copy, overlapped, backend, process>>
  BY DEF CaptureStep, Collect, Teardown, Seal, Upload, Complete, runs
<1>3. Up /\ capture # "returned"
  BY DEF CaptureStep, Collect, Teardown, Seal, Upload, Complete, Capture
<1>4. \A c \in Call : call[c] \notin Busy
  BY <1>3 DEF IInv, CaptureFirst
<1>5. Quiet'
  BY <1>2, <1>3, <1>4 DEF Quiet, IInv, Up
<1>6. CaptureFirst' /\ NeverMine' /\ (capture' = "clean" => "bundle" \in stored')
      /\ ("bundle" \in stored => "bundle" \in stored')
      /\ (rec' = "completed" => rec = "completed" \/ "bundle" \in stored')
  <2> USE DEF CaptureFirst, NeverMine, Settled, Terminal, Stopped, Save, Objects, TypeOK
  <2>1. CASE Collect
    BY <2>1, <1>2, <1>4 DEF Collect, Capture, IInv
  <2>2. CASE Teardown
    BY <2>2, <1>2, <1>4 DEF Teardown, Capture, IInv
  <2>3. CASE Seal
    BY <2>3, <1>2, <1>4 DEF Seal, Capture, IInv
  <2>4. CASE Upload
    BY <2>4, <1>2, <1>4 DEF Upload, Capture, IInv
  <2>5. CASE Complete
    BY <2>5, <1>2, <1>4 DEF Complete, Capture, IInv, PutIsBehind
  <2> QED
    BY <2>1, <2>2, <2>3, <2>4, <2>5 DEF CaptureStep
<1>7. OneBusy' /\ PutIsBehind' /\ CompletedHasBundle'
  BY <1>2, <1>4, <1>6 DEF OneBusy, PutIsBehind, CompletedHasBundle, OneAtATime, Keyed, IInv, Busy
<1> QED
  BY <1>1, <1>5, <1>6, <1>7 DEF IInv

\* A call that begins: it was idle, so it holds no copy yet, and the capture has
\* returned.
LEMMA BeginKeeps == ASSUME NEW c \in Call, IInv, ResumeUpload(c) \/ ResumeRestart(c)
                    PROVE  IInv'
<1>1. TypeOK'
  BY StepTypeOK DEF IInv, Next
<1> USE DEF IInv, TypeOK, Busy
<1>2. CASE ResumeUpload(c)
  <2>1. rec = "interrupted" /\ cp # "none" /\ capture = "returned"
    BY <1>2 DEF ResumeUpload, Plan, CaptureFirst
  <2>2. /\ UNCHANGED <<process, capture, mine, rec, cp, stored, backend>>
        /\ Up /\ call[c] = "idle" /\ copy[c] = "none"
        /\ \A d \in Call : d # c => call'[d] = call[d] /\ copy'[d] = copy[d]
        /\ call'[c] = "planned"
    BY <1>2 DEF ResumeUpload, disk, Quiet
  <2>3. overlapped' = (overlapped \/ \E d \in Call \ {c} : Uploading(d))
    BY <1>2 DEF ResumeUpload
  <2>4. Quiet' /\ CaptureFirst' /\ NeverMine'
    BY <2>1, <2>2 DEF Quiet, CaptureFirst, NeverMine, Up
  <2>5. (~overlapped' => ~overlapped) /\ (Keyed' => Keyed)
    BY <2>2, <2>3 DEF Keyed
  <2>6. OneBusy'
    BY <2>1, <2>2, <2>3, <2>5 DEF OneBusy, Uploading
  <2>7. PutIsBehind' /\ CompletedHasBundle'
    BY <2>1, <2>2, <2>5 DEF PutIsBehind, CompletedHasBundle, OneAtATime
  <2> QED
    BY <1>1, <2>4, <2>6, <2>7
<1>3. CASE ResumeRestart(c)
  <2>1. /\ UNCHANGED <<process, capture, mine, rec, cp, stored, backend, overlapped, copy>>
        /\ \A d \in Call : call'[d] = call[d] \/ call'[d] = "returned"
    BY <1>3 DEF ResumeRestart, disk, runs
  <2> QED
    BY <1>1, <2>1 DEF Quiet, CaptureFirst, OneBusy, PutIsBehind, NeverMine, CompletedHasBundle,
                      OneAtATime, Keyed
<1> QED
  BY <1>2, <1>3

\* A step of a busy call: if the calls do not overlap it is the only one, and
\* what it has behind it nobody takes away.
LEMMA ResumeKeeps == ASSUME NEW c \in Call, IInv, ResumeStep(c)
                     PROVE  IInv'
<1>1. TypeOK'
  BY StepTypeOK DEF IInv, Next
<1> USE DEF IInv, TypeOK, Busy
<1>2. /\ UNCHANGED <<process, capture, mine, backend, overlapped, copy>>
      /\ Up /\ call[c] \in Busy
      /\ call'[c] \in Busy \cup {"returned"}
      /\ \A d \in Call : d # c => call'[d] = call[d]
  BY DEF ResumeStep, ResumeBegin, ResumeOpen, ResumePut, ResumeSidecars, ResumeUnlink,
         ResumeComplete, Run, runs
<1>3. capture = "returned"
  BY <1>2 DEF CaptureFirst
<1>4. Quiet' /\ CaptureFirst' /\ NeverMine'
  BY <1>2, <1>3 DEF Quiet, CaptureFirst, NeverMine, Up
<1>5. rec' = "completed" => rec = "completed" \/ (call[c] = "complete" /\ call'[c] = "returned")
  <2>1. CASE ResumeBegin(c) \/ ResumeOpen(c) \/ ResumePut(c)
    BY <2>1 DEF ResumeBegin, ResumeOpen, ResumePut, Save, Stopped, Settled, Terminal
  <2>2. CASE ResumeSidecars(c) \/ ResumeUnlink(c)
    BY <2>2 DEF ResumeSidecars, ResumeUnlink
  <2>3. CASE ResumeComplete(c)
    BY <2>3 DEF ResumeComplete, Run
  <2> QED
    BY <2>1, <2>2, <2>3 DEF ResumeStep
<1>6. OneBusy'
  BY <1>2, <1>5 DEF OneBusy
<1>7. OneAtATime /\ Keyed /\ call'[c] \in {"sidecars", "unlink", "complete"} => "bundle" \in stored'
  <2> SUFFICES ASSUME OneAtATime, Keyed, call'[c] \in {"sidecars", "unlink", "complete"}
               PROVE  "bundle" \in stored'
    OBVIOUS
  <2>1. CASE ResumePut(c)
    <3>1. copy[c] # "sealed" /\ PutWorks(c)
      BY <2>1 DEF ResumePut, Run, Keyed, PutWorks
    <3>2. ~(backend \in Sharing /\ \E d \in Call \ {c} : call[d] = "put")
      BY <1>2 DEF Sharing, OneAtATime, OneBusy
    <3> QED
      BY <3>1, <3>2 DEF PutWorks
  <2>2. CASE ResumeSidecars(c)
    BY <2>2 DEF ResumeSidecars, Run, PutIsBehind
  <2>3. CASE ResumeUnlink(c)
    BY <2>3 DEF ResumeUnlink, Run, PutIsBehind
  <2>4. CASE ResumeBegin(c) \/ ResumeOpen(c) \/ ResumeComplete(c)
    BY <2>4 DEF ResumeBegin, ResumeOpen, ResumeComplete, Run
  <2> QED
    BY <2>1, <2>2, <2>3, <2>4 DEF ResumeStep
<1>8. backend = "s3" /\ "bundle" \in stored => "bundle" \in stored'
  <2>1. CASE ResumePut(c)
    BY <2>1 DEF ResumePut, PutWorks, PutFails, Removing, Sharing
  <2>2. CASE ResumeSidecars(c)
    BY <2>2 DEF ResumeSidecars, Removing
  <2>3. CASE ResumeBegin(c) \/ ResumeOpen(c) \/ ResumeComplete(c) \/ ResumeUnlink(c)
    BY <2>3 DEF ResumeBegin, ResumeOpen, ResumeComplete, ResumeUnlink
  <2> QED
    BY <2>1, <2>2, <2>3 DEF ResumeStep
<1>9. PutIsBehind'
  BY <1>2, <1>3, <1>7, <1>8 DEF PutIsBehind, OneAtATime, Keyed, OneBusy
<1>10. CompletedHasBundle'
  <2> SUFFICES ASSUME OneAtATime, Keyed, rec' = "completed" PROVE "bundle" \in stored'
    BY <1>2 DEF CompletedHasBundle, OneAtATime, Keyed
  <2>1. CASE rec = "completed"
    BY <1>2, <1>8, <2>1 DEF OneBusy, OneAtATime, CompletedHasBundle
  <2>2. CASE call[c] = "complete"
    BY <2>2 DEF PutIsBehind, ResumeStep, ResumeBegin, ResumeOpen, ResumePut, ResumeSidecars,
                ResumeUnlink, ResumeComplete, Run
  <2> QED
    BY <1>5, <2>1, <2>2
<1> QED
  BY <1>1, <1>4, <1>6, <1>9, <1>10

\* Any other step leaves the storage alone, and completes nothing.
LEMMA RestKeeps ==
  ASSUME IInv,
         \/ \E c \in Call : Hang(c)
         \/ DiscardCheck \/ DiscardFiles \/ DiscardRecord \/ PurgeFiles \/ Purge
         \/ Crash \/ Adopt \/ SweepWork \/ StartBeside \/ UNCHANGED vars
  PROVE  IInv'
<1>1. TypeOK'
  BY StepTypeOK DEF IInv, Next
<1> USE DEF IInv, TypeOK, Busy
<1>2. /\ UNCHANGED <<mine, stored, backend, overlapped, copy>>
      /\ rec' \in {rec, "none", "interrupted"}
  BY DEF Hang, DiscardCheck, DiscardFiles, DiscardRecord, PurgeFiles, Purge, Crash, Adopt,
         SweepWork, StartBeside, vars, disk, runs, Save
<1>3. \A c \in Call : call'[c] = call[c] \/ (call'[c] = "returned" /\ call[c] # "idle")
  <2>1. CASE Crash
    BY <2>1 DEF Crash
  <2>2. CASE ~Crash
    BY <2>2 DEF Hang, DiscardCheck, DiscardFiles, DiscardRecord, PurgeFiles, Purge, Adopt,
                SweepWork, StartBeside, vars
  <2> QED
    BY <2>1, <2>2
<1>4. capture' \in {capture, "returned"} /\ (process' # "up" => capture' = "returned")
  BY DEF Hang, DiscardCheck, DiscardFiles, DiscardRecord, PurgeFiles, Purge, Crash, Adopt,
         SweepWork, StartBeside, vars, Quiet, Up
<1>5. process' # "up" => \A c \in Call : call'[c] \notin Busy
  BY DEF Hang, DiscardCheck, DiscardFiles, DiscardRecord, PurgeFiles, Purge, Crash, Adopt,
         SweepWork, StartBeside, vars, Quiet, Up
<1>6. capture' # "returned" => rec' \in {rec, "none"} /\ cp' \in {cp, "none"}
  BY DEF Hang, DiscardCheck, DiscardFiles, DiscardRecord, PurgeFiles, Purge, Crash, Adopt,
         SweepWork, StartBeside, vars, disk, Quiet, Up, Save
<1>7. Quiet' /\ CaptureFirst' /\ NeverMine'
  BY <1>2, <1>3, <1>4, <1>5, <1>6 DEF Quiet, CaptureFirst, NeverMine
<1>8. OneBusy'
  BY <1>2, <1>3 DEF OneBusy
<1>9. PutIsBehind' /\ CompletedHasBundle'
  BY <1>2, <1>3, <1>4 DEF PutIsBehind, CompletedHasBundle, OneAtATime, Keyed
<1> QED
  BY <1>1, <1>7, <1>8, <1>9

LEMMA StepIInv == IInv /\ [Next]_vars => IInv'
BY CaptureKeeps, BeginKeeps, ResumeKeeps, RestKeeps DEF Next

\* Every variable keeps its type.
THEOREM TypeIsKept == Spec => []TypeOK
<1>1. IInv => TypeOK
  BY DEF IInv
<1> QED
  BY <1>1, InitIInv, StepIInv, PTL DEF Spec

\* A record that says completed has its bundle in storage (05-resilience.md
\* 5.1), whatever Puts have failed on the way and whichever saves, as long as no
\* two uploads of the job overlap and each has its key.
THEOREM CompletedMeansStored == Spec => []CompletedHasBundle
<1>1. IInv => CompletedHasBundle
  BY DEF IInv
<1> QED
  BY <1>1, InitIInv, StepIInv, PTL DEF Spec

\* Under the same two conditions the sealed bundle leaves this machine only once
\* it is in storage, by a Discard or a Purge, or by the startup sweep
\* (capture.go:744-746).
THEOREM KeptUntilStored == Spec => BundleIsKept
<1>1. IInv /\ [Next]_vars
      => [OneAtATime /\ Keyed /\ bundle /\ ~bundle' =>
            "bundle" \in stored \/ DiscardFiles \/ PurgeFiles \/ SweepWork]_vars
  <2> SUFFICES ASSUME IInv, Next, OneAtATime, Keyed, bundle, ~bundle'
               PROVE  "bundle" \in stored \/ DiscardFiles \/ PurgeFiles \/ SweepWork
    OBVIOUS
  <2>1. CASE CaptureStep
    BY <2>1 DEF CaptureStep, Collect, Teardown, Seal, Upload, Complete, Capture, IInv, PutIsBehind
  <2>2. ASSUME NEW c \in Call, ResumeUpload(c) \/ ResumeRestart(c) \/ ResumeStep(c) \/ Hang(c)
        PROVE  "bundle" \in stored
    BY <2>2 DEF ResumeUpload, ResumeRestart, ResumeStep, ResumeBegin, ResumeOpen, ResumePut,
                ResumeSidecars, ResumeUnlink, ResumeComplete, Hang, Run, IInv, PutIsBehind, disk
  <2>3. CASE DiscardCheck \/ DiscardRecord \/ Purge \/ Crash \/ Adopt \/ StartBeside
    BY <2>3 DEF DiscardCheck, DiscardRecord, Purge, Crash, Adopt, StartBeside, disk
  <2> QED
    BY <2>1, <2>2, <2>3 DEF Next
<1> QED
  BY <1>1, InitIInv, StepIInv, PTL DEF Spec, BundleIsKept
=============================================================================
