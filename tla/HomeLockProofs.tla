--------------------------- MODULE HomeLockProofs ---------------------------
(***************************************************************************)
(* Theorems about HomeLock, for any processes and any jobs: its type       *)
(* invariant, its three safety invariants, and that what the processes do  *)
(* to the claim implements the lock (FolderClaim).                         *)
(***************************************************************************)
EXTENDS HomeLock, TLAPS

(***************************************************************************)
(* The inductive invariant.  A process's claim follows from how far it has *)
(* got (StageClaim), and only a process that has come up runs jobs         *)
(* (RunnerUp): neither is visible in the properties, and all of them need  *)
(* both.                                                                   *)
(***************************************************************************)
StageClaim ==
  \A p \in Proc : claim[p] = IF stage[p] \in Sweeping THEN "exclusive"
                             ELSE IF stage[p] = "up" THEN want[p]
                             ELSE "none"

RunnerUp ==
  \A j \in Job : runner[j] \in Proc => stage[runner[j]] \in {"up", "closed"}

Safe == Exclusion /\ StageClaim /\ RunnerUp /\ ClaimedJobsAreIntact
IInv == TypeOK /\ Safe
-----------------------------------------------------------------------------
(***************************************************************************)
(* Every variable keeps its type: TypeOK is inductive by itself.           *)
(***************************************************************************)
LEMMA TypeInductive == TypeOK /\ [Next]_vars => TypeOK'
<1> SUFFICES ASSUME TypeOK, [Next]_vars PROVE TypeOK'
  OBVIOUS
<1> USE DEF TypeOK, Stage, Sweeping, Live, Outcome, Lock!Mode, procVars, vars
<1>1. ASSUME NEW p \in Proc, NEW m \in Lock!Mode, Start(p, m) PROVE TypeOK'
  BY <1>1 DEF Start, Goto
<1>2. ASSUME NEW p \in Proc, SweepBegin(p) PROVE TypeOK'
  BY <1>2 DEF SweepBegin, Goto, Acquire, Lock!Acquire
<1>3. ASSUME NEW p \in Proc, SweepSkip(p) PROVE TypeOK'
  BY <1>3 DEF SweepSkip, Goto
<1>4. ASSUME NEW p \in Proc, NEW j \in Job, Adopt(p, j) PROVE TypeOK'
  BY <1>4 DEF Adopt
<1>5. ASSUME NEW p \in Proc, AdoptEnd(p) PROVE TypeOK'
  BY <1>5 DEF AdoptEnd, Goto
<1>6. ASSUME NEW p \in Proc, NEW j \in Job, SweepDir(p, j) PROVE TypeOK'
  BY <1>6 DEF SweepDir
<1>7. ASSUME NEW p \in Proc, SweepEnd(p) PROVE TypeOK'
  BY <1>7 DEF SweepEnd, Goto, Lock!Release
<1>8. ASSUME NEW p \in Proc, Claim(p) PROVE TypeOK'
  BY <1>8 DEF Claim, Goto, Acquire, Lock!Acquire
<1>9. ASSUME NEW p \in Proc, Refused(p) PROVE TypeOK'
  BY <1>9 DEF Refused
<1>10. ASSUME NEW p \in Proc, NEW j \in Job, Queue(p, j) PROVE TypeOK'
  BY <1>10 DEF Queue
<1>11. ASSUME NEW p \in Proc, Close(p) PROVE TypeOK'
  BY <1>11 DEF Close, Goto, Lock!Release
<1>12. ASSUME NEW p \in Proc, Exit(p) PROVE TypeOK'
  BY <1>12 DEF Exit, Goto, Gone
<1>13. ASSUME NEW p \in Proc, Crash(p) PROVE TypeOK'
  BY <1>13 DEF Crash, Gone, Lock!Release
<1>14. ASSUME NEW j \in Job, Work(j) PROVE TypeOK'
  BY <1>14 DEF Work
<1>15. ASSUME NEW j \in Job, NEW s \in Outcome, Finish(j, s) PROVE TypeOK'
  BY <1>15 DEF Finish
<1>16. CASE UNCHANGED vars
  BY <1>16
<1>. QED
  BY <1>1, <1>2, <1>3, <1>4, <1>5, <1>6, <1>7, <1>8, <1>9, <1>10, <1>11,
     <1>12, <1>13, <1>14, <1>15, <1>16 DEF Next, Open, JobStep
-----------------------------------------------------------------------------
(***************************************************************************)
(* Every step of the processes is a step of the lock or leaves it alone.   *)
(***************************************************************************)
LEMMA StepRefines == TypeOK /\ [Next]_vars => [Lock!Next]_claim
<1> SUFFICES ASSUME TypeOK, [Next]_vars PROVE [Lock!Next]_claim
  OBVIOUS
<1>1. ASSUME NEW p \in Proc, SweepBegin(p) PROVE Lock!Next
  BY <1>1 DEF SweepBegin, Acquire, Lock!Next, Lock!Mode
<1>2. ASSUME NEW p \in Proc, Claim(p) PROVE Lock!Next
  BY <1>2 DEF Claim, Acquire, Lock!Next, TypeOK
<1>3. ASSUME NEW p \in Proc, SweepEnd(p) \/ Close(p) \/ Crash(p) PROVE Lock!Next
  BY <1>3 DEF SweepEnd, Close, Crash, Lock!Next
<1>4. ASSUME NEW p \in Proc, SweepSkip(p) \/ AdoptEnd(p) \/ Refused(p) \/ Exit(p)
      PROVE UNCHANGED claim
  BY <1>4 DEF SweepSkip, AdoptEnd, Refused, Exit
<1>5. ASSUME NEW p \in Proc, NEW m \in Lock!Mode, Start(p, m)
      PROVE UNCHANGED claim
  BY <1>5 DEF Start
<1>6. ASSUME NEW p \in Proc, NEW j \in Job, Adopt(p, j) \/ SweepDir(p, j) \/ Queue(p, j)
      PROVE UNCHANGED claim
  BY <1>6 DEF Adopt, SweepDir, Queue
<1>7. ASSUME NEW j \in Job, JobStep(j) PROVE UNCHANGED claim
  BY <1>7 DEF JobStep, Work, Finish
<1>8. CASE UNCHANGED vars
  BY <1>8 DEF vars
<1>. QED
  BY <1>1, <1>2, <1>3, <1>4, <1>5, <1>6, <1>7, <1>8 DEF Next, Open

(***************************************************************************)
(* The lock itself keeps its promise.                                      *)
(***************************************************************************)
LEMMA LockExcludes ==
  ASSUME claim \in [Proc -> Lock!Mode \cup {"none"}], Exclusion, [Lock!Next]_claim
  PROVE  Exclusion'
<1>1. ASSUME NEW p \in Proc, Lock!Release(p) PROVE Exclusion'
  BY <1>1 DEF Exclusion, Lock!Exclusion, Lock!Release, Lock!Mode
<1>2. ASSUME NEW p \in Proc, NEW m \in Lock!Mode, Lock!Acquire(p, m)
      PROVE Exclusion'
  BY <1>2 DEF Exclusion, Lock!Exclusion, Lock!Acquire, Lock!Free, Lock!Mode
<1>3. CASE UNCHANGED claim
  BY <1>3 DEF Exclusion, Lock!Exclusion
<1>. QED
  BY <1>1, <1>2, <1>3 DEF Lock!Next
-----------------------------------------------------------------------------
LEMMA InitSafe == Init => IInv
  BY NobodyIsNoProcess DEF Init, IInv, Safe, TypeOK, Exclusion, Lock!Exclusion,
     StageClaim, RunnerUp, ClaimedJobsAreIntact, Stage, Sweeping, Live, Outcome,
     Lock!Mode

(***************************************************************************)
(* The other three conjuncts are kept together: an action that takes or    *)
(* drops a claim moves the stage with it, and one that rewrites a record   *)
(* or a directory either is the job's own or is done under an exclusive    *)
(* claim, beside which no job's process holds one.                         *)
(***************************************************************************)
LEMMA SafeInductive == IInv /\ [Next]_vars => StageClaim' /\ RunnerUp' /\ ClaimedJobsAreIntact'
<1> SUFFICES ASSUME IInv, [Next]_vars
             PROVE  StageClaim' /\ RunnerUp' /\ ClaimedJobsAreIntact'
  OBVIOUS
<1> DEFINE Kept == StageClaim' /\ RunnerUp' /\ ClaimedJobsAreIntact'
<1> USE NobodyIsNoProcess
    DEF IInv, Safe, TypeOK, Stage, Sweeping, Live, Outcome, Lock!Mode, procVars,
        StageClaim, RunnerUp, ClaimedJobsAreIntact
<1>1. ASSUME NEW p \in Proc, NEW m \in Lock!Mode, Start(p, m) PROVE Kept
  BY <1>1 DEF Start, Goto
<1>2. ASSUME NEW p \in Proc, SweepBegin(p) PROVE Kept
  BY <1>2 DEF SweepBegin, Goto, Acquire, Lock!Acquire
<1>3. ASSUME NEW p \in Proc, SweepSkip(p) PROVE Kept
  BY <1>3 DEF SweepSkip, Goto
<1>4. ASSUME NEW p \in Proc, NEW j \in Job, Adopt(p, j) PROVE Kept
  BY <1>4 DEF Adopt, Exclusion, Lock!Exclusion
<1>5. ASSUME NEW p \in Proc, AdoptEnd(p) PROVE Kept
  BY <1>5 DEF AdoptEnd, Goto
<1>6. ASSUME NEW p \in Proc, NEW j \in Job, SweepDir(p, j) PROVE Kept
  BY <1>6 DEF SweepDir, Exclusion, Lock!Exclusion
<1>7. ASSUME NEW p \in Proc, SweepEnd(p) PROVE Kept
  BY <1>7 DEF SweepEnd, Goto, Lock!Release
<1>8. ASSUME NEW p \in Proc, Claim(p) PROVE Kept
  BY <1>8 DEF Claim, Goto, Acquire, Lock!Acquire
<1>9. ASSUME NEW p \in Proc, Refused(p) PROVE Kept
  BY <1>9 DEF Refused
<1>10. ASSUME NEW p \in Proc, NEW j \in Job, Queue(p, j) PROVE Kept
  BY <1>10 DEF Queue
<1>11. ASSUME NEW p \in Proc, Close(p) PROVE Kept
  BY <1>11 DEF Close, Goto, Lock!Release
<1>12. ASSUME NEW p \in Proc, Exit(p) PROVE Kept
  BY <1>12 DEF Exit, Goto, Gone
<1>13. ASSUME NEW p \in Proc, Crash(p) PROVE Kept
  BY <1>13 DEF Crash, Gone, Lock!Release
<1>14. ASSUME NEW j \in Job, Work(j) PROVE Kept
  BY <1>14 DEF Work
<1>15. ASSUME NEW j \in Job, NEW s \in Outcome, Finish(j, s) PROVE Kept
  BY <1>15 DEF Finish
<1>16. CASE UNCHANGED vars
  BY <1>16 DEF vars
<1>. QED
  BY <1>1, <1>2, <1>3, <1>4, <1>5, <1>6, <1>7, <1>8, <1>9, <1>10, <1>11,
     <1>12, <1>13, <1>14, <1>15, <1>16 DEF Next, Open, JobStep

LEMMA Inductive == IInv /\ [Next]_vars => IInv'
  BY TypeInductive, StepRefines, LockExcludes, SafeInductive DEF IInv, Safe, TypeOK

(***************************************************************************)
(* A sweeping process holds the folder exclusively, so a process with a    *)
(* running job, which has come up, can only have closed.                   *)
(***************************************************************************)
LEMMA SweepIsAlone == IInv => SweepSparesClaimants
  BY NobodyIsNoProcess DEF IInv, Safe, TypeOK, Exclusion, Lock!Exclusion, StageClaim,
     RunnerUp, SweepSparesClaimants, Sweeping
-----------------------------------------------------------------------------
(***************************************************************************)
(* The variables of HomeLock always have their types.                      *)
(***************************************************************************)
THEOREM TypeCorrect == Spec => []TypeOK
<1>1. Init => TypeOK
  BY InitSafe DEF IInv
<1>. QED
  BY <1>1, TypeInductive, PTL DEF Spec

(***************************************************************************)
(* lock.go: a process that holds the folder exclusively is alone, and no   *)
(* startup sweep touches a job that runs under a held claim.               *)
(***************************************************************************)
THEOREM HomeIsSafe == Spec => [](Exclusion /\ SweepSparesClaimants /\ ClaimedJobsAreIntact)
<1>1. IInv => Exclusion /\ SweepSparesClaimants /\ ClaimedJobsAreIntact
  BY SweepIsAlone DEF IInv, Safe
<1>. QED
  BY InitSafe, Inductive, <1>1, PTL DEF Spec

(***************************************************************************)
(* A job run under a held claim keeps its record and its directory, for    *)
(* any numbers of sweepers, runners and jobs.                              *)
(***************************************************************************)
THEOREM JobsAreIntact == Spec => []ClaimedJobsAreIntact
  BY HomeIsSafe, PTL

=============================================================================
