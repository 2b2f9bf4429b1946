------------------------------ MODULE Contexts ------------------------------
(***************************************************************************)
(* The execution context a job runs its export in, and what becomes of it. *)
(* On Docker and Kubernetes it is an ephemeral clone of the serving        *)
(* workload, on a host it is a directory that will hold unmasked secrets.  *)
(*                                                                         *)
(* The module follows one environment.  Jobs of several PortCloaks (each   *)
(* with a home folder of its own) prepare a context, work in it and tear   *)
(* it down; the calls that reach the environment fail, and fail after they *)
(* took effect.  Meanwhile an operator looks for clones left behind and    *)
(* removes one.                                                            *)
(***************************************************************************)
EXTENDS Naturals, FiniteSets

CONSTANTS
  Job,          \* the captures and restores; a job's clone is named after it
  Restores,     \* those of them that are restores, and send files
  Proc,         \* the running PortCloaks
  Kinds,        \* the kinds of environment to look at, of the four there are
  MaxAttempts,  \* resil.Policy: how often one call is tried
  MaxFaults,    \* bound: calls that fail or never return, answers lost, crashes
  MaxSweeps     \* bound: how often an operator looks for orphans

NoOne == "no one"
NoContext == "no context"
CloneKinds == {"docker", "k8s"}

VARIABLES
  kind,     \* what the environment is
  thing,    \* what exists there under each job's name
  job,      \* each job: where it is, whose it is, and what it reported
  ex,       \* the job's executor: what it recorded, who the clone runs as
  settled,  \* orchestrator.tornDown of each PortCloak
  sweep,    \* the operator's look for orphans in each PortCloak
  faults, sweeps

vars == <<kind, thing, job, ex, settled, sweep, faults, sweeps>>

NoJob == [at |-> "idle", by |-> NoOne, tries |-> 0, cancelled |-> FALSE, hung |-> FALSE,
          ready |-> FALSE, verdict |-> "none"]
NewExecutor == [ref |-> "never", conn |-> "none", owner |-> "unasked", pushed |-> "no"]
NoSweep == [at |-> "idle", running |-> {}, shown |-> {}, ref |-> NoOne]

TypeOK ==
  /\ kind \in Kinds
  /\ thing \in [Job -> {"none", "made", "up", "ended"}]
  /\ job \in [Job -> [at : {"idle", "create", "wait", "work", "teardown", "over", "lost"},
                      by : Proc \cup {NoOne}, tries : 0..MaxAttempts, cancelled : BOOLEAN,
                      hung : BOOLEAN, ready : BOOLEAN, verdict : {"none", "clean", "left"}]]
  /\ ex \in [Job -> [ref : {"never", "held", "given up"}, conn : {"none", "live", "dead"},
                     owner : {"unasked", "its own", "root"},
                     pushed : {"no", "readable", "unreadable"}]]
  /\ settled \in [Proc -> SUBSET (Job \cup {NoContext})]
  /\ sweep \in [Proc -> [at : {"idle", "listing", "shown", "asked", "cleared"},
                         running : SUBSET Job, shown : SUBSET Job, ref : Job \cup {NoOne}]]
  /\ faults \in 0..MaxFaults /\ sweeps \in 0..MaxSweeps

Starts(k) ==
  /\ kind = k
  /\ thing = [j \in Job |-> "none"] /\ job = [j \in Job |-> NoJob]
  /\ ex = [j \in Job |-> NewExecutor]
  /\ settled = [p \in Proc |-> {}] /\ sweep = [p \in Proc |-> NoSweep]
  /\ faults = 0 /\ sweeps = 0
Init == \E k \in Kinds : Starts(k)

Fault == faults < MaxFaults /\ faults' = faults + 1
NoFault == UNCHANGED faults

\* The jobs a PortCloak is driving (Orchestrator.Running).
Running(p) == {j \in Job : job[j].by = p /\ job[j].at \in {"create", "wait", "work", "teardown"}}
-----------------------------------------------------------------------------
(* Preparing.  A job leaves Prepare for its work, or for its teardown with *)
(* no context to name.                                                     *)

Goes(j, at) == job' = [job EXCEPT ![j].at = at]
Fails(j) == Goes(j, "teardown")

Readies(j) == job' = [job EXCEPT ![j].at = "work", ![j].ready = TRUE]

\* A failure worth retrying starts Prepare again, as long as attempts are left
\* and nobody cancelled.
TriesAgain(j) ==
  IF job[j].tries + 1 < MaxAttempts /\ ~job[j].cancelled
    THEN job' = [job EXCEPT ![j].at = "create", ![j].tries = @ + 1]
    ELSE Fails(j)

Begin(p, j) ==
  /\ job[j].at = "idle"
  /\ job' = [job EXCEPT ![j].at = "create", ![j].by = p]
  /\ UNCHANGED <<kind, thing, ex, settled, sweep, faults, sweeps>>

\* The operator cancels; the calls under way see it at their next wait.
Cancel(j) ==
  /\ job[j].at \in {"create", "wait", "work"} /\ ~job[j].cancelled
  /\ job' = [job EXCEPT ![j].cancelled = TRUE]
  /\ UNCHANGED <<kind, thing, ex, settled, sweep, faults, sweeps>>

\* Mutant: the reference is recorded once the clone is known to run.
CreatedUnrecorded(j) ==
  /\ kind \in CloneKinds /\ thing[j] = "none" /\ ~job[j].cancelled
  /\ thing' = [thing EXCEPT ![j] = "made"]
  /\ Goes(j, "wait") /\ NoFault /\ UNCHANGED ex

\* A clone is made under the job's name, which must be free, and its reference
\* recorded before anything waits for it.
Created(j) ==
  /\ kind \in CloneKinds /\ thing[j] = "none" /\ ~job[j].cancelled
  /\ thing' = [thing EXCEPT ![j] = "made"]
  /\ ex' = [ex EXCEPT ![j] = [NewExecutor EXCEPT !.ref = "held"]]
  /\ Goes(j, "wait") /\ NoFault

\* The serving workload cannot be read, or its Keycloak is not to be found in it.
InspectRefused(j) ==
  /\ kind \in CloneKinds /\ (Fault \/ (job[j].cancelled /\ NoFault))
  /\ Fails(j) /\ UNCHANGED <<thing, ex>>

\* Creating is refused: by a policy, or because the name is taken.  Every such
\* refusal is final.
CreateRefused(j) ==
  /\ kind \in CloneKinds /\ (Fault \/ (thing[j] # "none" /\ NoFault))
  /\ Fails(j) /\ UNCHANGED <<thing, ex>>

\* The clone is made, the answer never arrives: no reference is recorded.
CreateAnswerLost(j) ==
  /\ kind \in CloneKinds /\ thing[j] = "none"
  /\ IF job[j].cancelled THEN NoFault ELSE Fault
  /\ thing' = [thing EXCEPT ![j] = "made"]
  /\ Fails(j) /\ UNCHANGED ex

\* Docker creates, then starts.  A container that does not start is removed
\* under the context of the call, which a cancel has ended.
StartFails(j) ==
  /\ kind = "docker" /\ thing[j] = "none" /\ Fault
  /\ thing' = [thing EXCEPT ![j] = IF job[j].cancelled THEN "made" ELSE "none"]
  /\ Fails(j) /\ UNCHANGED ex

\* A host makes a directory; over SSH a connection is made first and kept.
DirMade(j) ==
  /\ kind \in {"ssh", "local"} /\ ~job[j].cancelled
  /\ kind = "ssh" => ex[j].conn # "dead"
  /\ thing' = [thing EXCEPT ![j] = "up"]
  /\ ex' = [ex EXCEPT ![j].ref = "held", ![j].conn = IF kind = "ssh" THEN "live" ELSE "none"]
  /\ Readies(j) /\ NoFault

\* The directory is refused.
DirRefused(j) ==
  /\ kind \in {"ssh", "local"} /\ (Fault \/ (job[j].cancelled /\ NoFault))
  /\ Fails(j) /\ UNCHANGED <<thing, ex>>

\* No credential to offer, one the host will not take, or a host key other than
\* the recorded one.
LoginRefused(j) ==
  /\ kind = "ssh" /\ ex[j].conn = "none" /\ Fault
  /\ Fails(j) /\ UNCHANGED <<thing, ex>>

\* The host was not reached, or its key is not known here: it is never asked about.
HostUnreached(j) ==
  /\ kind = "ssh" /\ ex[j].conn = "none" /\ Fault
  /\ TriesAgain(j) /\ UNCHANGED <<thing, ex>>

\* No port was free.
NoPorts(j) ==
  /\ kind \in {"ssh", "local"} /\ Fault
  /\ TriesAgain(j) /\ UNCHANGED <<thing, ex>>

\* The directory is made and the session drops before it says so.
DirAnswerLost(j) ==
  /\ kind = "ssh" /\ ex[j].conn # "dead" /\ Fault
  /\ thing' = [thing EXCEPT ![j] = "up"]
  /\ ex' = [ex EXCEPT ![j].conn = "dead"]
  /\ TriesAgain(j)

\* A connection that dropped is still the one connect hands out.
DeadConnection(j) ==
  /\ kind = "ssh" /\ ex[j].conn = "dead"
  /\ TriesAgain(j) /\ NoFault /\ UNCHANGED <<thing, ex>>

Create(j) ==
  /\ job[j].at = "create"
  /\ \/ Created(j) \/ InspectRefused(j) \/ CreateRefused(j) \/ CreateAnswerLost(j)
     \/ StartFails(j) \/ DirMade(j) \/ DirRefused(j) \/ LoginRefused(j) \/ HostUnreached(j)
     \/ NoPorts(j) \/ DirAnswerLost(j) \/ DeadConnection(j)
  /\ UNCHANGED <<kind, settled, sweep, sweeps>>

\* The clone runs and has its work directory.
CameUp(j) ==
  /\ thing[j] = "made" /\ ~job[j].cancelled /\ NoFault
  /\ thing' = [thing EXCEPT ![j] = "up"]
  /\ Readies(j)

\* It will not: it ended, cannot be scheduled or pulled, has no shell, took too
\* long, or the job was cancelled.
WillNotCome(j) ==
  /\ ((thing[j] = "ended" \/ job[j].cancelled) /\ NoFault) \/ Fault
  /\ Fails(j) /\ UNCHANGED thing

\* It is out of sight, for good when somebody removed it.
OutOfSight(j) ==
  /\ (thing[j] = "none" /\ NoFault) \/ Fault
  /\ TriesAgain(j) /\ UNCHANGED thing

WaitRunning(j) ==
  /\ job[j].at = "wait"
  /\ CameUp(j) \/ WillNotCome(j) \/ OutOfSight(j)
  /\ UNCHANGED <<kind, ex, settled, sweep, sweeps>>
-----------------------------------------------------------------------------
(* Working.                                                                *)

\* Who the clone runs as is asked once.  A question that fails is answered
\* root, and the answer kept.
RuntimeOwner(j, answered) ==
  IF ex[j].owner # "unasked" THEN ex[j].owner
  ELSE IF answered THEN "its own" ELSE "root"

\* A restore sends its files.  Docker gives each the owner it was told; on the
\* other kinds the file belongs to whoever wrote it.
PushFile(j) ==
  /\ j \in Restores /\ job[j].at = "work" /\ ex[j].pushed = "no" /\ thing[j] = "up"
  /\ ~job[j].hung
  /\ kind = "ssh" => ex[j].conn = "live"
  /\ \E answered \in BOOLEAN, arrives \in BOOLEAN :
       LET owner == RuntimeOwner(j, answered) IN
       /\ IF answered /\ arrives THEN NoFault ELSE Fault
       /\ ex' = [ex EXCEPT
            ![j].owner = IF kind \in CloneKinds THEN owner ELSE @,
            ![j].pushed = IF ~arrives THEN "no"
                          ELSE IF kind = "docker" /\ owner = "root" THEN "unreadable" ELSE "readable"]
  /\ UNCHANGED <<kind, thing, job, settled, sweep, sweeps>>

\* The connection to a host drops under the command.
Drop(j) ==
  /\ job[j].at = "work" /\ ex[j].conn = "live" /\ ~job[j].hung /\ Fault
  /\ ex' = [ex EXCEPT ![j].conn = "dead"]
  /\ UNCHANGED <<kind, thing, job, settled, sweep, sweeps>>

\* The artifacts are out, or the job failed or was cancelled.
Finish(j) ==
  /\ job[j].at = "work"
  /\ Goes(j, "teardown")
  /\ UNCHANGED <<kind, thing, ex, settled, sweep, faults, sweeps>>

\* activeDeadlineSeconds: the cluster ends the pod and keeps its record.
Deadline(j) ==
  /\ kind = "k8s" /\ thing[j] \in {"made", "up"}
  /\ thing' = [thing EXCEPT ![j] = "ended"]
  /\ UNCHANGED <<kind, job, ex, settled, sweep, faults, sweeps>>
-----------------------------------------------------------------------------
(* Tearing down.  Called after the collection and again from the defer.    *)

\* What the orchestrator remembers a teardown by: the work directory and the
\* reference, both empty when Prepare failed.
Key(j) == IF job[j].ready THEN j ELSE NoContext

\* Mutant: nothing is remembered, and the deferred call runs again.
NothingRemembered(j) == FALSE

AlreadySettled(j) == Key(j) \in settled[job[j].by]

\* What the executor's Teardown does.  It has nothing to remove, or removes it,
\* or is answered with an error, or has only a dead connection to ask over.
Reports(j, verdict) == job' = [job EXCEPT ![j].verdict = verdict]

NothingHeld(j) ==
  /\ ex[j].ref # "held" /\ NoFault
  /\ Reports(j, "clean") /\ UNCHANGED thing
Destroyed(j) ==
  /\ ex[j].ref = "held" /\ ex[j].conn # "dead" /\ NoFault
  /\ Reports(j, "clean") /\ thing' = [thing EXCEPT ![j] = "none"]
Unconfirmed(j) ==
  /\ ex[j].ref = "held" /\ ex[j].conn # "dead" /\ Fault
  /\ Reports(j, "left") /\ \E after \in {thing[j], "none"} : thing' = [thing EXCEPT ![j] = after]
OutOfReach(j) ==
  /\ ex[j].ref = "held" /\ ex[j].conn = "dead" /\ NoFault
  /\ Reports(j, "left") /\ UNCHANGED thing

\* One failure is final: a clone is marked torn down before it is destroyed, and
\* a host's directory is forgotten before it is removed.
Teardown(j) ==
  /\ job[j].at = "teardown"
  /\ IF AlreadySettled(j)
       THEN Goes(j, "over") /\ UNCHANGED <<thing, ex, settled, faults>>
       ELSE /\ NothingHeld(j) \/ Destroyed(j) \/ Unconfirmed(j) \/ OutOfReach(j)
            /\ settled' = [settled EXCEPT ![job[j].by] = @ \cup {Key(j)}]
            /\ ex' = [ex EXCEPT ![j].ref = IF @ = "held" THEN "given up" ELSE @]
  /\ UNCHANGED <<kind, sweep, sweeps>>

\* A call that never returns: only the teardown's has a deadline, and over SSH not
\* even that one, which first waits for a channel.
Hang(j) ==
  /\ ~job[j].hung /\ Fault
  /\ \/ job[j].at \in {"wait", "work"} \/ (job[j].at = "create" /\ kind # "local")
     \/ job[j].at = "teardown" /\ kind = "ssh" /\ ex[j].ref = "held" /\ ~AlreadySettled(j)
  /\ job' = [job EXCEPT ![j].hung = TRUE]
  /\ UNCHANGED <<kind, thing, ex, settled, sweep, sweeps>>

\* A PortCloak dies.  What it drove is nobody's, and it starts again knowing
\* nothing of it.
Crash(p) ==
  /\ Fault
  /\ job' = [j \in Job |-> IF j \in Running(p) THEN [job[j] EXCEPT !.at = "lost"] ELSE job[j]]
  /\ settled' = [settled EXCEPT ![p] = {}] /\ sweep' = [sweep EXCEPT ![p] = NoSweep]
  /\ UNCHANGED <<kind, thing, ex, sweeps>>
-----------------------------------------------------------------------------
(* Orphans.  Looking reads what runs here, then asks the platform; removing *)
(* reads both again.                                                        *)

Exists == {j \in Job : thing[j] # "none"}

\* Clones labelled with a job of this process are not orphans.
Abandoned(found, running) == found \ running

Look(p) ==
  /\ kind \in CloneKinds /\ sweep[p].at = "idle" /\ sweeps < MaxSweeps
  /\ sweep' = [sweep EXCEPT ![p] = [NoSweep EXCEPT !.at = "listing", !.running = Running(p)]]
  /\ sweeps' = sweeps + 1
  /\ UNCHANGED <<kind, thing, job, ex, settled, faults>>

Listed(p) ==
  /\ sweep[p].at = "listing"
  /\ \/ /\ NoFault
        /\ sweep' = [sweep EXCEPT ![p].at = "shown",
                                  ![p].shown = Abandoned(Exists, sweep[p].running)]
     \/ Fault /\ sweep' = [sweep EXCEPT ![p] = NoSweep]
  /\ UNCHANGED <<kind, thing, job, ex, settled, sweeps>>

Ask(p) ==
  /\ sweep[p].at = "shown"
  /\ \E j \in sweep[p].shown :
       sweep' = [sweep EXCEPT ![p].at = "asked", ![p].ref = j, ![p].running = Running(p)]
  /\ UNCHANGED <<kind, thing, job, ex, settled, faults, sweeps>>

\* Mutant: what the list said when it was drawn is taken for the answer.
TrustsTheList(p, listed) == TRUE

\* The removal is refused when the clone is a running job's, or when that
\* cannot be told while something runs.
MayRemove(p, listed) ==
  LET s == sweep[p] IN s.running = {} \/ (listed /\ ~(s.ref \in Exists /\ s.ref \in s.running))

RefuseIfRunning(p) ==
  /\ sweep[p].at = "asked"
  /\ \E listed \in BOOLEAN :
       /\ IF listed THEN NoFault ELSE Fault
       /\ sweep' = [sweep EXCEPT ![p].at = IF MayRemove(p, listed) THEN "cleared" ELSE "shown"]
  /\ UNCHANGED <<kind, thing, job, ex, settled, sweeps>>

Remove(p) ==
  /\ sweep[p].at = "cleared"
  /\ \/ NoFault /\ thing' = [thing EXCEPT ![sweep[p].ref] = "none"]
     \/ Fault /\ UNCHANGED thing
  /\ sweep' = [sweep EXCEPT ![p] = NoSweep]
  /\ UNCHANGED <<kind, job, ex, settled, sweeps>>
-----------------------------------------------------------------------------
JobSteps(j) == ~job[j].hung /\ (Create(j) \/ WaitRunning(j) \/ Finish(j) \/ Teardown(j))

Next ==
  \/ \E j \in Job : JobSteps(j) \/ Cancel(j) \/ PushFile(j) \/ Drop(j) \/ Deadline(j) \/ Hang(j)
  \/ \E p \in Proc, j \in Job : Begin(p, j)
  \/ \E p \in Proc : Crash(p) \/ Look(p) \/ Listed(p) \/ Ask(p) \/ RefuseIfRunning(p) \/ Remove(p)

\* A job runs on a goroutine of its own, and goes on as long as its calls return.
Fairness == \A j \in Job : WF_vars(JobSteps(j))

Spec == Init /\ [][Next]_vars
LiveSpec == Spec /\ Fairness
-----------------------------------------------------------------------------
\* A clone is never removed under a job of the PortCloak that removes it,
\* whichever of the two came first (RemoveOrphan, refuseIfRunning): unless another
\* PortCloak had removed that job's clone first and the job has made it anew.
Removes(p, j) ==
  sweep[p].at = "cleared" /\ sweep[p].ref = j /\ sweep'[p].at = "idle"
  /\ thing[j] # "none" /\ thing'[j] = "none"
MadeAnew(p, j) == job[j].tries > 0 /\ Proc # {p}
SparesOwn == \A p \in Proc, j \in Job : Removes(p, j) /\ j \in Running(p) => MadeAnew(p, j)
SparesOwnJobs == [][SparesOwn]_vars

\* A teardown that reported nothing left behind left nothing of what the
\* executor had recorded (Teardown of the four executors, teardown).
CleanMeansGone ==
  \A j \in Job : job[j].verdict = "clean" /\ ex[j].ref # "never" => thing[j] = "none"

\* A context that was handed to a job is gone in the end, or reported as left behind,
\* or its PortCloak died, or a call of the job never returns (runCaptureBatch,
\* applyImport: the deferred teardown).
AccountedFor ==
  \A j \in Job : job[j].at = "work" ~>
    (thing[j] = "none" \/ job[j].verdict = "left" \/ job[j].at = "lost" \/ job[j].hung)
-----------------------------------------------------------------------------
(* What the sources say and the code does not keep: see the README.        *)

\* "Teardown is retried, because leaving a clone behind is the worst outcome the
\* tool has and a transient API error is a poor reason to accept it" (reliable.go).
TransientIsSurvived ==
  \A j \in Job : job[j].at = "over" /\ ex[j].ref = "given up" /\ kind \in CloneKinds
                 /\ faults < MaxAttempts => thing[j] = "none"

\* "Nothing was left behind." (docker.go Create's advice, and the teardown phase).
NothingWasLeft == \A j \in Job : job[j].at = "over" /\ job[j].verdict = "clean" => thing[j] = "none"

\* "The container exists even though it did not start, so it is removed here
\* rather than left for the sweep" (docker.go, Create).
UnstartedIsRemoved == [][\A j \in Job :
  job[j].at = "create" /\ job[j].cancelled /\ job'[j].at = "teardown" => thing'[j] = thing[j]]_vars

\* "The file must end up readable by the process that will read it" (clone.go, CopyIn).
PushedIsReadable == \A j \in Job : ex[j].pushed # "unreadable"

\* "it is the execution context an export is streaming through, and removing it
\* would kill the capture" (orphans.go): true of this PortCloak's jobs only.
SparesEveryJob == [][\A p \in Proc, j \in Job : Removes(p, j) => job[j].at # "work"]_vars

\* "Not in the listing: already gone, or never there. Removal is harmless."
\* (settings_controller.go): not when a second PortCloak took it, and its job made it anew.
GoneIsHarmless == [][\A p \in Proc, j \in Job : Removes(p, j) => j \notin Running(p)]_vars

\* A call is retried because trying again can help (ssh.go: "The connection
\* dropped", retryable): over SSH the dead connection is handed out again.
RetryCanHelp ==
  \A j \in Job : job[j].at = "create" /\ kind = "ssh" => ex[j].conn # "dead"
=============================================================================
