------------------------------ MODULE Targets ------------------------------
(***************************************************************************)
(* What PortCloak does in somebody's environment: it probes it, prepares a *)
(* context there, runs an export in the context and collects the files.    *)
(*                                                                         *)
(* A behaviour is about one of the four.  The steps of a job follow one    *)
(* another (module CaptureBatch), each taking from the one before it only  *)
(* that it succeeded, so together the parts would only multiply states.    *)
(***************************************************************************)
EXTENDS Naturals

CONSTANTS
  Job, Restores, Proc, MaxAttempts, MaxFaults, MaxSweeps,
  Options, maxExportAttempts, UserCounts, Patience, Sizes, UsersPerFileMin, UsersPerFileDefault,
  Radix, UserFileDigits, MaxGrabs,
  File, MaxSize, MaxBreaks,
  MaxUnanswered

ASSUME TargetsAssumption ==
  /\ Restores \subseteq Job /\ Job \cap Proc = {}
  /\ {MaxAttempts, maxExportAttempts} \subseteq Nat \ {0}
  /\ {MaxFaults, MaxSweeps, MaxGrabs, MaxSize, MaxBreaks, MaxUnanswered} \subseteq Nat
  /\ UserCounts \subseteq Nat /\ Patience \subseteq Nat /\ Sizes \subseteq Nat
  /\ UsersPerFileMin \in Nat \ {0} /\ UsersPerFileDefault \in Nat
  /\ UsersPerFileMin <= UsersPerFileDefault
  /\ Radix \in Nat \ {0, 1} /\ UserFileDigits \in Nat \ {0} /\ "none" \notin File

AllKinds == {"docker", "k8s", "ssh", "local"}

VARIABLES
  part,
  kind, thing, job, ex, settled, sweep, faults, sweeps,
  host, taken, req, known, try, dir, listed, staged, phase, grabs,
  transport, size, left, stream, ended, reading, sunk, result, failed, breaks,
  probed, world, at, missing, checks, unanswered

Context == INSTANCE Contexts WITH Kinds <- AllKinds
Exports == INSTANCE Export WITH at <- phase
Copy    == INSTANCE CopyOut WITH faults <- breaks, MaxFaults <- MaxBreaks
Probing == INSTANCE Probe WITH kind <- probed, Kinds <- AllKinds

contextVars == <<kind, thing, job, ex, settled, sweep, faults, sweeps>>
exportVars == <<host, taken, req, known, try, dir, listed, staged, phase, grabs>>
copyVars == <<transport, size, left, stream, ended, reading, sunk, result, failed, breaks>>
probeVars == <<probed, world, at, missing, checks, unanswered>>
vars == <<part, contextVars, exportVars, copyVars, probeVars>>

TypeOK == Context!TypeOK /\ Exports!TypeOK /\ Copy!TypeOK /\ Probing!TypeOK

\* The parts a behaviour is not about stand still at some start of theirs.
Init ==
  /\ part \in {"context", "export", "copy", "probe"}
  /\ IF part = "context" THEN Context!Init ELSE Context!Starts("local")
  /\ IF part = "export" THEN Exports!Init
     ELSE \E h \in Exports!Hosts, r \in Exports!Requests :
            /\ Exports!Starts(h, r)
            /\ <<h, r>> = CHOOSE pair \in Exports!Hosts \X Exports!Requests : TRUE
  /\ IF part = "copy" THEN Copy!Init ELSE Copy!Starts("tar", {}) /\ size = <<>>
  /\ IF part = "probe" THEN Probing!Init ELSE Probing!Starts("local") /\ world = {}

Next ==
  \/ /\ part = "context" /\ Context!Next
     /\ UNCHANGED <<part, exportVars, copyVars, probeVars>>
  \/ /\ part = "export" /\ Exports!Next
     /\ UNCHANGED <<part, contextVars, copyVars, probeVars>>
  \/ /\ part = "copy" /\ Copy!Next
     /\ UNCHANGED <<part, contextVars, exportVars, probeVars>>
  \/ /\ part = "probe" /\ Probing!Next
     /\ UNCHANGED <<part, contextVars, exportVars, copyVars>>

Spec == Init /\ [][Next]_vars

\* A job runs on a goroutine of its own, and goes on as long as its calls return.
LiveSpec == Spec /\ \A j \in Job : WF_vars(part = "context" /\ Context!JobSteps(j)
                                          /\ UNCHANGED <<part, exportVars, copyVars, probeVars>>)
-----------------------------------------------------------------------------
\* A clone is never removed under a job of the PortCloak that removes it, whichever of
\* the two came first, unless another PortCloak had removed that job's clone before and
\* the job has made it anew (RemoveOrphan, refuseIfRunning).
SparesOwnJobs == [][Context!SparesOwn]_vars

\* A teardown that reported nothing left behind left nothing of what the
\* executor had recorded (Teardown of the executors, Orchestrator.teardown).
CleanMeansGone == Context!CleanMeansGone

\* A context a job was handed is gone in the end, or reported as left behind, or its
\* PortCloak died, or a call of the job never returns (the deferred teardown of
\* captures and restores).
AccountedFor == Context!AccountedFor

\* A job gives up over a taken port when it had no port to move, or at its last attempt:
\* on this machine, moving them all, only if a port was taken from it every time (export).
GivesUpOnlyWhenItMust == Exports!GivesUpOnlyWhenItMust

\* Every file kc.sh wrote is staged under a name of its own, and the pages of a
\* prefix are in order when their names are (PadUserFiles, fetch).
StagedIsExported == Exports!StagedIsExported

\* A transfer that reports no error handed over every file, whole (CopyOut, FetchDir).
FetchedIsWhole == Copy!FetchedIsWhole

\* A probe answered throughout is OK exactly when a capture could start (Probe, OK).
OkMeansPossible == Probing!OkMeansPossible

\* "Teardown is retried ... a transient API error is a poor reason to accept it"
\* (reliable.go): refuted, a failed teardown marks the clone as torn down first.
TransientIsSurvived == Context!TransientIsSurvived
=============================================================================
