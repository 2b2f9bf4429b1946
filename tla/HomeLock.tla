------------------------------ MODULE HomeLock ------------------------------
(***************************************************************************)
(* The processes that share one home folder: a PortCloak window or a       *)
(* pcloak command starts, sweeps the folder if it is alone, claims it,     *)
(* runs jobs, closes, and may be killed at any moment.                     *)
(*                                                                         *)
(* The folder holds one record per job and one working directory per job.  *)
(* The startup sweep rewrites records of jobs in flight to "interrupted"   *)
(* and deletes working directories.  The sweep knows only its own          *)
(* process's sessions, so run beside a live capture it would destroy that  *)
(* capture's state: the claim is what is meant to keep them apart.         *)
(*                                                                         *)
(* Sources: engine/config/lock.go, engine/config/jobs.go, app/engine.go,   *)
(* cli/context.go, desktop/run.go, engine/inspect/session.go.              *)
(***************************************************************************)
CONSTANTS Proc, Job, Nobody
ASSUME NobodyIsNoProcess == Nobody \notin Proc

VARIABLES
  stage,    \* stage[p]: how far process p has got
  want,     \* want[p]: the mode p's command asks for
  claim,    \* claim[p]: the mode p holds the folder in
  holder,   \* who the lock file names: the last to take it exclusively
  told,     \* told[p]: who p was told is in the way, when it was refused
  rec,      \* rec[j]: the state in job j's record on disk
  runner,   \* runner[j]: the live process whose goroutine runs job j
  work,     \* the jobs that have a working directory on disk
  todo      \* todo[p]: what p's sweep has listed and not yet dealt with

procVars == <<stage, want, told>>
diskVars == <<rec, work>>
vars == <<stage, want, claim, holder, told, rec, runner, work, todo>>

Lock == INSTANCE FolderClaim

Live     == {"queued", "running"}
Outcome  == {"interrupted", "completed", "failed", "cancelled"}
Sweeping == {"adopting", "sweeping"}
Stage    == {"off", "starting", "claiming", "up", "closed"} \cup Sweeping

TypeOK ==
  /\ stage \in [Proc -> Stage]
  /\ want \in [Proc -> Lock!Mode]
  /\ claim \in [Proc -> Lock!Mode \cup {"none"}]
  /\ holder \in Proc \cup {Nobody}
  /\ told \in [Proc -> Proc \cup {Nobody}]
  /\ rec \in [Job -> Live \cup Outcome \cup {"none"}]
  /\ runner \in [Job -> Proc \cup {Nobody}]
  /\ work \subseteq Job
  /\ todo \in [Proc -> SUBSET Job]

Init ==
  /\ stage = [p \in Proc |-> "off"]
  /\ want = [p \in Proc |-> "shared"]
  /\ claim = [p \in Proc |-> "none"]
  /\ holder = Nobody
  /\ told = [p \in Proc |-> Nobody]
  /\ rec = [j \in Job |-> "none"]
  /\ runner = [j \in Job |-> Nobody]
  /\ work = {}
  /\ todo = [p \in Proc |-> {}]
-----------------------------------------------------------------------------
Goto(p, from, to) == stage[p] = from /\ stage' = [stage EXCEPT ![p] = to]

(***************************************************************************)
(* Acquire: the flock, and under an exclusive one the description of who   *)
(* holds it.  Nothing ever erases that description.                        *)
(***************************************************************************)
Acquire(p, m) ==
  /\ Lock!Acquire(p, m)
  /\ holder' = IF m = "exclusive" THEN p ELSE holder

\* NewEngineFor: the engine is built before anything is claimed.
Start(p, m) ==
  /\ Goto(p, "off", "starting")
  /\ want' = [want EXCEPT ![p] = m]
  /\ told' = [told EXCEPT ![p] = Nobody]
  /\ UNCHANGED <<claim, holder, rec, runner, work, todo>>

\* Mutant: the sweep runs without taking the folder.
SweepBeginUnclaimed(p) ==
  /\ Goto(p, "starting", "adopting")
  /\ todo' = [todo EXCEPT ![p] = {j \in Job : rec[j] \in Live}]
  /\ UNCHANGED <<want, claim, holder, told, rec, runner, work>>

\* SweepIfSolelyHere wins the folder; AdoptRunning lists the jobs in flight.
SweepBegin(p) ==
  /\ Goto(p, "starting", "adopting")
  /\ Acquire(p, "exclusive")
  /\ todo' = [todo EXCEPT ![p] = {j \in Job : rec[j] \in Live}]
  /\ UNCHANGED <<want, told, rec, runner, work>>

\* Mutant: a refused claim goes on to sweep the working directories.
SweepSkipAdoption(p) ==
  /\ Goto(p, "starting", "sweeping")
  /\ ~Lock!Free(p, "exclusive")
  /\ todo' = [todo EXCEPT ![p] = work]
  /\ UNCHANGED <<want, claim, holder, told, rec, runner, work>>

\* A refused claim is a reason to skip the sweep, never to fail.
SweepSkip(p) ==
  /\ Goto(p, "starting", "claiming")
  /\ ~Lock!Free(p, "exclusive")
  /\ UNCHANGED <<want, claim, holder, told, rec, runner, work, todo>>

\* AdoptRunning rewrites one listed record.
Adopt(p, j) ==
  /\ stage[p] = "adopting" /\ j \in todo[p]
  /\ rec' = [rec EXCEPT ![j] = "interrupted"]
  /\ todo' = [todo EXCEPT ![p] = @ \ {j}]
  /\ UNCHANGED <<stage, want, claim, holder, told, runner, work>>

\* Adoption is over, finished or given up at a record that could not be saved;
\* SweepWorkDirs reads the directory of working directories.
AdoptEnd(p) ==
  /\ Goto(p, "adopting", "sweeping")
  /\ todo' = [todo EXCEPT ![p] = work]
  /\ UNCHANGED <<want, claim, holder, told, rec, runner, work>>

\* SweepWorkDirs deletes one directory, or fails to and carries on.
SweepDir(p, j) ==
  /\ stage[p] = "sweeping" /\ j \in todo[p]
  /\ work' \in {work, work \ {j}}
  /\ todo' = [todo EXCEPT ![p] = @ \ {j}]
  /\ UNCHANGED <<stage, want, claim, holder, told, rec, runner>>

\* Mutant: the sweep's own claim outlives it and is in the way.
SweepEndStillClaimed(p) ==
  /\ Goto(p, "sweeping", "claiming")
  /\ todo[p] = {}
  /\ UNCHANGED <<want, claim, holder, told, rec, runner, work, todo>>

SweepEnd(p) ==
  /\ Goto(p, "sweeping", "claiming")
  /\ todo[p] = {}
  /\ Lock!Release(p)
  /\ UNCHANGED <<want, holder, told, rec, runner, work, todo>>

\* acquire and Hold: the claim the command keeps for its run.
Claim(p) ==
  /\ Goto(p, "claiming", "up")
  /\ Acquire(p, want[p])
  /\ UNCHANGED <<want, told, rec, runner, work, todo>>

\* A refusal names whoever the lock file names; with --wait-for-lock the
\* claim is polled again, without it or past its deadline the process leaves.
Refused(p) ==
  /\ stage[p] = "claiming" /\ ~Lock!Free(p, want[p])
  /\ stage' \in {stage, [stage EXCEPT ![p] = "off"]}
  /\ told' = [told EXCEPT ![p] = holder]
  /\ UNCHANGED <<want, claim, holder, rec, runner, work, todo>>
-----------------------------------------------------------------------------
\* A capture saves its record before its goroutine starts.  Both front ends
\* capture under the shared claim.
Queue(p, j) ==
  /\ stage[p] = "up" /\ claim[p] = "shared" /\ rec[j] = "none"
  /\ rec' = [rec EXCEPT ![j] = "queued"]
  /\ runner' = [runner EXCEPT ![j] = p]
  /\ UNCHANGED <<procVars, claim, holder, work, todo>>

\* A live goroutine saves its own copy of the record, whatever the disk says,
\* and writes into its working directory.
Work(j) ==
  /\ runner[j] # Nobody
  /\ rec' = [rec EXCEPT ![j] = "running"]
  /\ work' = work \cup {j}
  /\ UNCHANGED <<procVars, claim, holder, runner, todo>>

\* fail or complete: the goroutine saves the outcome and returns.
Finish(j, s) ==
  /\ runner[j] # Nobody
  /\ rec' = [rec EXCEPT ![j] = s]
  /\ runner' = [runner EXCEPT ![j] = Nobody]
  /\ UNCHANGED <<procVars, claim, holder, work, todo>>

\* Engine.Close gives the claim back.  It does not wait for the goroutines.
Close(p) ==
  /\ Goto(p, "up", "closed")
  /\ Lock!Release(p)
  /\ UNCHANGED <<want, holder, told, rec, runner, work, todo>>

Gone(p) == runner' = [j \in Job |-> IF runner[j] = p THEN Nobody ELSE runner[j]]

\* The process ends, and with it every goroutine it still ran.
Exit(p) ==
  /\ Goto(p, "closed", "off")
  /\ Gone(p)
  /\ UNCHANGED <<want, claim, holder, told, rec, work, todo>>

\* Killed: the kernel drops the claim, the disk stays as it was.
Crash(p) ==
  /\ stage[p] # "off"
  /\ stage' = [stage EXCEPT ![p] = "off"]
  /\ Lock!Release(p)
  /\ Gone(p)
  /\ todo' = [todo EXCEPT ![p] = {}]
  /\ UNCHANGED <<want, holder, told, rec, work>>
-----------------------------------------------------------------------------
Open(p) == \/ SweepBegin(p) \/ SweepSkip(p) \/ AdoptEnd(p) \/ SweepEnd(p)
           \/ Claim(p)
           \/ \E j \in Job : Adopt(p, j) \/ SweepDir(p, j)

JobStep(j) == Work(j) \/ \E s \in Outcome : Finish(j, s)

Next ==
  \/ \E p \in Proc : \/ \E m \in Lock!Mode : Start(p, m)
                     \/ Open(p) \/ Refused(p)
                     \/ \E j \in Job : Queue(p, j)
                     \/ Close(p) \/ Exit(p) \/ Crash(p)
  \/ \E j \in Job : JobStep(j)

(***************************************************************************)
(* A process that is scheduled keeps opening: each step of the sweep is    *)
(* local and bounded, and the poll at or past the deadline either takes    *)
(* the claim or leaves, so one of the two is always enabled.               *)
(***************************************************************************)
Leave(p) == Refused(p) /\ stage'[p] = "off"

Fairness == \A p \in Proc : WF_vars(Open(p) \/ Leave(p))

Spec == Init /\ [][Next]_vars
LiveSpec == Spec /\ Fairness
-----------------------------------------------------------------------------
(***************************************************************************)
(* lock.go, the package comment: a process that holds the folder           *)
(* exclusively is the only one holding it.                                 *)
(***************************************************************************)
Exclusion == Lock!Exclusion

(***************************************************************************)
(* While one process sweeps, every job that a goroutine still runs belongs *)
(* to a process that has already given its claim back: a job under a held  *)
(* claim is never adopted and its working directory never deleted.         *)
(***************************************************************************)
SweepSparesClaimants ==
  \A p \in Proc : stage[p] \in Sweeping =>
    \A j \in Job : runner[j] # Nobody =>
      runner[j] # p /\ claim[runner[j]] = "none"

(***************************************************************************)
(* A job run under a held claim keeps its state on disk: nobody else has   *)
(* rewritten its record, and the working directory its goroutine has       *)
(* created is still there.                                                 *)
(***************************************************************************)
ClaimedJobsAreIntact ==
  \A j \in Job : runner[j] # Nobody /\ claim[runner[j]] # "none" =>
    /\ rec[j] \in Live
    /\ rec[j] = "running" => j \in work

(***************************************************************************)
(* Opening ends: a process that starts is up, or has left, in the end,     *)
(* however the others come and go.                                         *)
(***************************************************************************)
OpeningEnds ==
  \A p \in Proc : stage[p] = "starting" ~> stage[p] \in {"up", "off", "closed"}
-----------------------------------------------------------------------------
(* What the sources say and the code does not keep: see the README. *)

(***************************************************************************)
(* jobs.go:38 says a terminal job "will not move again on its own".        *)
(***************************************************************************)
FinishedStaysFinished ==
  [][\A j \in Job : rec[j] \in Outcome \ {"interrupted"} => rec'[j] = rec[j]]_vars

(***************************************************************************)
(* lock.go:101-103 says the description a refused process reads "was       *)
(* written by whoever is in the way".                                      *)
(***************************************************************************)
ToldWhoIsInTheWay ==
  [][\A p \in Proc : Refused(p) =>
        told'[p] # Nobody /\ claim[told'[p]] # "none"]_vars
=============================================================================
