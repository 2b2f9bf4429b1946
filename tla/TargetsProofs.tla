---------------------------- MODULE TargetsProofs ----------------------------
(***************************************************************************)
(* What is proved of PortCloak's work in somebody's environment, for any   *)
(* number of jobs, of running PortCloaks and of attempts, any realm and any*)
(* export: what a removal leaves and spares, what an export gives up and   *)
(* stages, what is fetched, and what a probe that says yes has asked.      *)
(***************************************************************************)
EXTENDS Targets, FiniteSetTheorems, FunctionTheorems, WellFoundedInduction,
        SequenceTheorems, TLAPS

-----------------------------------------------------------------------------
(***************************************************************************)
(* The contexts.                                                           *)
(***************************************************************************)
\* What is recorded of a job, of its executor and of a look for orphans.
JobAt == {"idle", "create", "wait", "work", "teardown", "over", "lost"}
JobRec ==
  [at : JobAt, by : Proc \cup {Context!NoOne}, tries : 0..MaxAttempts, cancelled : BOOLEAN,
   hung : BOOLEAN, ready : BOOLEAN, verdict : {"none", "clean", "left"}]
ExRec ==
  [ref : {"never", "held", "given up"}, conn : {"none", "live", "dead"},
   owner : {"unasked", "its own", "root"}, pushed : {"no", "readable", "unreadable"}]
SweepRec ==
  [at : {"idle", "listing", "shown", "asked", "cleared"}, running : SUBSET Job,
   shown : SUBSET Job, ref : Job \cup {Context!NoOne}]

ContextTyped ==
  /\ kind \in AllKinds
  /\ thing \in [Job -> {"none", "made", "up", "ended"}]
  /\ job \in [Job -> JobRec] /\ ex \in [Job -> ExRec]
  /\ settled \in [Proc -> SUBSET (Job \cup {Context!NoContext})]
  /\ sweep \in [Proc -> SweepRec]
  /\ faults \in 0..MaxFaults /\ sweeps \in 0..MaxSweeps

\* Types.
LEMMA ContextTypes == Context!TypeOK <=> ContextTyped
BY DEF Context!TypeOK, ContextTyped, JobRec, ExRec, SweepRec, JobAt

\* The forms in which a step of a job changes what is recorded of it.
LEMMA JobUpdates ==
  ASSUME NEW r \in JobRec
  PROVE  /\ \A a \in JobAt : [r EXCEPT !.at = a] \in JobRec
         /\ [r EXCEPT !.at = "work", !.ready = TRUE] \in JobRec
         /\ r.tries + 1 < MaxAttempts => [r EXCEPT !.at = "create", !.tries = @ + 1] \in JobRec
         /\ \A p \in Proc : [r EXCEPT !.at = "create", !.by = p] \in JobRec
         /\ [r EXCEPT !.cancelled = TRUE] \in JobRec /\ [r EXCEPT !.hung = TRUE] \in JobRec
         /\ \A v \in {"clean", "left"} : [r EXCEPT !.verdict = v] \in JobRec
<1>1. \A a \in JobAt : [r EXCEPT !.at = a] \in JobRec
  BY DEF JobRec, JobAt
<1>2. [r EXCEPT !.at = "work", !.ready = TRUE] \in JobRec
  BY DEF JobRec, JobAt
<1>3. r.tries + 1 < MaxAttempts => [r EXCEPT !.at = "create", !.tries = @ + 1] \in JobRec
  <2>1. MaxAttempts \in Nat /\ r.tries \in 0..MaxAttempts
    BY TargetsAssumption DEF JobRec
  <2>2. ASSUME NEW n \in 0..MaxAttempts
        PROVE  [r EXCEPT !.at = "create", !.tries = n] \in JobRec
    BY DEF JobRec, JobAt
  <2>3. r.tries + 1 < MaxAttempts => r.tries + 1 \in 0..MaxAttempts
    BY <2>1
  <2> QED
    BY <2>2, <2>3
<1>4. \A p \in Proc : [r EXCEPT !.at = "create", !.by = p] \in JobRec
  BY DEF JobRec, JobAt
<1>5. [r EXCEPT !.cancelled = TRUE] \in JobRec /\ [r EXCEPT !.hung = TRUE] \in JobRec
  BY DEF JobRec, JobAt
<1>6. \A v \in {"clean", "left"} : [r EXCEPT !.verdict = v] \in JobRec
  BY DEF JobRec, JobAt
<1> QED
  BY <1>1, <1>2, <1>3, <1>4, <1>5, <1>6

\* Every way a step changes what is recorded of a job leaves a record.
LEMMA JobStaysTyped ==
  ASSUME job \in [Job -> JobRec], NEW j \in Job,
         \/ \E a \in JobAt : Context!Goes(j, a)
         \/ Context!Fails(j) \/ Context!Readies(j) \/ Context!TriesAgain(j)
         \/ \E v \in {"clean", "left"} : Context!Reports(j, v)
         \/ \E p \in Proc : job' = [job EXCEPT ![j].at = "create", ![j].by = p]
         \/ job' = [job EXCEPT ![j].cancelled = TRUE] \/ job' = [job EXCEPT ![j].hung = TRUE]
  PROVE  job' \in [Job -> JobRec]
<1>1. job[j] \in JobRec
  OBVIOUS
<1>2. PICK r \in JobRec : job' = [job EXCEPT ![j] = r]
  <2> USE <1>1, JobUpdates
  <2>1. ASSUME NEW a \in JobAt, Context!Goes(j, a)
        PROVE  \E r \in JobRec : job' = [job EXCEPT ![j] = r]
    BY <2>1 DEF Context!Goes
  <2>2. CASE Context!Fails(j)
    BY <2>1, <2>2 DEF Context!Fails, JobAt
  <2>3. CASE Context!Readies(j)
    BY <2>3 DEF Context!Readies
  <2>4. CASE Context!TriesAgain(j)
    BY <2>2, <2>4 DEF Context!TriesAgain
  <2>5. ASSUME NEW v \in {"clean", "left"}, Context!Reports(j, v)
        PROVE  \E r \in JobRec : job' = [job EXCEPT ![j] = r]
    BY <2>5 DEF Context!Reports
  <2>6. ASSUME NEW p \in Proc, job' = [job EXCEPT ![j].at = "create", ![j].by = p]
        PROVE  \E r \in JobRec : job' = [job EXCEPT ![j] = r]
    BY <2>6
  <2>7. CASE job' = [job EXCEPT ![j].cancelled = TRUE]
    BY <2>7
  <2>8. CASE job' = [job EXCEPT ![j].hung = TRUE]
    BY <2>8
  <2> QED
    BY <2>1, <2>2, <2>3, <2>4, <2>5, <2>6, <2>7, <2>8
<1> QED
  BY <1>2

\* The same of what an executor records, and of a look for orphans.
LEMMA NewRecords ==
  /\ [Context!NewExecutor EXCEPT !.ref = "held"] \in ExRec
  /\ Context!NoSweep \in SweepRec
BY DEF ExRec, SweepRec, Context!NewExecutor, Context!NoSweep

\* The forms in which a step changes what is recorded of an executor.
LEMMA ExUpdates ==
  ASSUME NEW r \in ExRec
  PROVE  /\ \A c \in {"none", "live", "dead"} : /\ [r EXCEPT !.ref = "held", !.conn = c] \in ExRec
                                             /\ [r EXCEPT !.conn = c] \in ExRec
         /\ \A o \in {"unasked", "its own", "root"}, s \in {"no", "readable", "unreadable"} :
              [r EXCEPT !.owner = o, !.pushed = s] \in ExRec
         /\ [r EXCEPT !.ref = IF @ = "held" THEN "given up" ELSE @] \in ExRec
BY DEF ExRec

\* The forms in which a step changes what is recorded of a look for orphans.
LEMMA SweepUpdates ==
  ASSUME NEW s \in SweepRec
  PROVE  /\ \A a \in {"cleared", "shown"} : [s EXCEPT !.at = a] \in SweepRec
         /\ \A S \in SUBSET Job :
              /\ [Context!NoSweep EXCEPT !.at = "listing", !.running = S] \in SweepRec
              /\ [s EXCEPT !.at = "shown", !.shown = S] \in SweepRec
              /\ \A j \in Job : [s EXCEPT !.at = "asked", !.ref = j, !.running = S] \in SweepRec
BY DEF SweepRec, Context!NoSweep

\* Every step keeps the types.
LEMMA ContextStaysTyped ==
  ASSUME ContextTyped, [Context!Next]_(Context!vars)
  PROVE  ContextTyped'
<1> USE TargetsAssumption DEF ContextTyped, Context!Fault, Context!NoFault
<1>1. ASSUME NEW j \in Job, Context!Create(j) PROVE ContextTyped'
  <2>1. job' \in [Job -> JobRec]
    BY <1>1, JobStaysTyped DEF Context!Create, Context!Created, Context!InspectRefused,
       Context!CreateRefused, Context!CreateAnswerLost, Context!StartFails, Context!DirMade,
       Context!DirRefused, Context!LoginRefused, Context!HostUnreached, Context!NoPorts,
       Context!DirAnswerLost, Context!DeadConnection, JobAt
  <2>2. thing' \in [Job -> {"none", "made", "up", "ended"}]
    BY <1>1 DEF Context!Create, Context!Created, Context!InspectRefused,
       Context!CreateRefused, Context!CreateAnswerLost, Context!StartFails, Context!DirMade,
       Context!DirRefused, Context!LoginRefused, Context!HostUnreached, Context!NoPorts,
       Context!DirAnswerLost, Context!DeadConnection
  <2>3. ex' \in [Job -> ExRec]
    <3>1. PICK r \in ExRec : ex' \in {ex, [ex EXCEPT ![j] = r]}
      <4>1. ex[j] \in ExRec
        OBVIOUS
      <4>2. CASE Context!Created(j)
        BY <4>2, NewRecords DEF Context!Created
      <4>3. CASE Context!DirMade(j)
        <5>1. PICK c \in {"none", "live", "dead"} :
                ex' = [ex EXCEPT ![j] = [ex[j] EXCEPT !.ref = "held", !.conn = c]]
          BY <4>3 DEF Context!DirMade
        <5>2. [ex[j] EXCEPT !.ref = "held", !.conn = c] \in ExRec
          BY <4>1, ExUpdates
        <5> QED
          BY <5>1, <5>2
      <4>4. CASE Context!DirAnswerLost(j)
        <5>1. ex' = [ex EXCEPT ![j] = [ex[j] EXCEPT !.conn = "dead"]]
          BY <4>4 DEF Context!DirAnswerLost
        <5>2. [ex[j] EXCEPT !.conn = "dead"] \in ExRec
          BY <4>1, ExUpdates
        <5> QED
          BY <5>1, <5>2
      <4>5. CASE ex' = ex
        BY <4>1, <4>5
      <4> QED
        BY <1>1, <4>2, <4>3, <4>4, <4>5 DEF Context!Create, Context!InspectRefused,
           Context!CreateRefused, Context!CreateAnswerLost, Context!StartFails,
           Context!DirRefused, Context!LoginRefused, Context!HostUnreached, Context!NoPorts,
           Context!DeadConnection
    <3> QED
      BY <3>1
  <2>4. faults' \in 0..MaxFaults
    BY <1>1 DEF Context!Create, Context!Created, Context!InspectRefused,
       Context!CreateRefused, Context!CreateAnswerLost, Context!StartFails, Context!DirMade,
       Context!DirRefused, Context!LoginRefused, Context!HostUnreached, Context!NoPorts,
       Context!DirAnswerLost, Context!DeadConnection
  <2> QED
    BY <1>1, <2>1, <2>2, <2>3, <2>4 DEF Context!Create
<1>2. ASSUME NEW j \in Job, Context!WaitRunning(j) PROVE ContextTyped'
  <2>1. job' \in [Job -> JobRec]
    BY <1>2, JobStaysTyped DEF Context!WaitRunning, Context!CameUp, Context!WillNotCome,
       Context!OutOfSight
  <2> QED
    BY <1>2, <2>1 DEF Context!WaitRunning, Context!CameUp, Context!WillNotCome,
       Context!OutOfSight
<1>3. ASSUME NEW j \in Job, Context!Finish(j) PROVE ContextTyped'
  BY <1>3, JobStaysTyped DEF Context!Finish, JobAt
<1>4. ASSUME NEW j \in Job, Context!Teardown(j) PROVE ContextTyped'
  <2>1. job' \in [Job -> JobRec]
    BY <1>4, JobStaysTyped DEF Context!Teardown, Context!NothingHeld, Context!Destroyed,
       Context!Unconfirmed, Context!OutOfReach, JobAt
  <2>2. ex' \in [Job -> ExRec]
    <3>1. ex[j] \in ExRec
      OBVIOUS
    <3>2. [ex[j] EXCEPT !.ref = IF @ = "held" THEN "given up" ELSE @] \in ExRec
      BY <3>1, ExUpdates
    <3>3. ex' \in {ex, [ex EXCEPT ![j] = [ex[j] EXCEPT !.ref = IF @ = "held" THEN "given up" ELSE @]]}
      BY <1>4 DEF Context!Teardown
    <3> QED
      BY <3>2, <3>3
  <2>3. Context!Key(j) \in Job \cup {Context!NoContext}
    BY DEF Context!Key
  <2>4. settled' \in [Proc -> SUBSET (Job \cup {Context!NoContext})]
    <3>1. settled' \in {settled, [settled EXCEPT ![job[j].by] = @ \cup {Context!Key(j)}]}
      BY <1>4 DEF Context!Teardown
    <3> QED
      BY <2>3, <3>1
  <2>5. thing' \in [Job -> {"none", "made", "up", "ended"}] /\ faults' \in 0..MaxFaults
    <3>1. CASE Context!NothingHeld(j)
      BY <3>1 DEF Context!NothingHeld
    <3>2. CASE Context!Destroyed(j)
      BY <3>2 DEF Context!Destroyed
    <3>3. CASE Context!Unconfirmed(j)
      BY <3>3 DEF Context!Unconfirmed
    <3>4. CASE Context!OutOfReach(j)
      BY <3>4 DEF Context!OutOfReach
    <3>5. CASE UNCHANGED <<thing, faults>>
      BY <3>5
    <3> QED
      BY <1>4, <3>1, <3>2, <3>3, <3>4, <3>5 DEF Context!Teardown
  <2> QED
    BY <1>4, <2>1, <2>2, <2>4, <2>5 DEF Context!Teardown
<1>5. ASSUME NEW j \in Job, Context!Cancel(j) PROVE ContextTyped'
  BY <1>5, JobStaysTyped DEF Context!Cancel
<1>6. ASSUME NEW j \in Job, Context!PushFile(j) PROVE ContextTyped'
  <2>1. PICK answered \in BOOLEAN, arrives \in BOOLEAN :
          /\ IF answered /\ arrives THEN Context!NoFault ELSE Context!Fault
          /\ ex' = [ex EXCEPT
               ![j].owner = IF kind \in Context!CloneKinds
                            THEN Context!RuntimeOwner(j, answered) ELSE @,
               ![j].pushed = IF ~arrives THEN "no"
                             ELSE IF kind = "docker" /\ Context!RuntimeOwner(j, answered) = "root"
                             THEN "unreadable" ELSE "readable"]
    BY <1>6 DEF Context!PushFile
  <2>2. Context!RuntimeOwner(j, answered) \in {"unasked", "its own", "root"}
    BY DEF Context!RuntimeOwner, ExRec
  <2>3. ex' \in [Job -> ExRec]
    <3>1. PICK o \in {"unasked", "its own", "root"}, s \in {"no", "readable", "unreadable"} :
            ex' = [ex EXCEPT ![j].owner = o, ![j].pushed = s]
      <4>1. ex[j].owner \in {"unasked", "its own", "root"}
        BY DEF ExRec
      <4> QED
        BY <2>1, <2>2, <4>1
    <3> QED
      BY <3>1, ExUpdates
  <2>4. faults' \in 0..MaxFaults
    BY <2>1
  <2> QED
    BY <1>6, <2>3, <2>4 DEF Context!PushFile
<1>7. ASSUME NEW j \in Job, Context!Drop(j) PROVE ContextTyped'
  <2>1. ex[j] \in ExRec /\ ex' = [ex EXCEPT ![j] = [ex[j] EXCEPT !.conn = "dead"]]
    BY <1>7 DEF Context!Drop
  <2>2. ex' \in [Job -> ExRec]
    BY <2>1, ExUpdates
  <2>3. faults' \in 0..MaxFaults
    BY <1>7 DEF Context!Drop
  <2> QED
    BY <1>7, <2>2, <2>3 DEF Context!Drop
<1>8. ASSUME NEW j \in Job, Context!Deadline(j) PROVE ContextTyped'
  BY <1>8 DEF Context!Deadline
<1>9. ASSUME NEW p \in Proc, NEW j \in Job, Context!Begin(p, j) PROVE ContextTyped'
  BY <1>9, JobStaysTyped DEF Context!Begin
<1>10. ASSUME NEW p \in Proc, Context!Crash(p) PROVE ContextTyped'
  <2>1. job' \in [Job -> JobRec]
    BY <1>10, JobUpdates DEF Context!Crash, JobAt
  <2>2. sweep' \in [Proc -> SweepRec]
    BY <1>10, NewRecords DEF Context!Crash
  <2>3. settled' \in [Proc -> SUBSET (Job \cup {Context!NoContext})]
    BY <1>10 DEF Context!Crash
  <2>4. faults' \in 0..MaxFaults
    BY <1>10 DEF Context!Crash
  <2> QED
    BY <1>10, <2>1, <2>2, <2>3, <2>4 DEF Context!Crash
<1>11. ASSUME NEW p \in Proc, Context!Look(p) PROVE ContextTyped'
  <2>1. [Context!NoSweep EXCEPT !.at = "listing", !.running = Context!Running(p)] \in SweepRec
    <3>1. Context!Running(p) \in SUBSET Job
      BY DEF Context!Running
    <3> QED
      BY <3>1, SweepUpdates
  <2>2. sweep' \in [Proc -> SweepRec]
    BY <1>11, <2>1 DEF Context!Look
  <2>3. sweeps' \in 0..MaxSweeps
    BY <1>11 DEF Context!Look
  <2> QED
    BY <1>11, <2>2, <2>3 DEF Context!Look
<1>12. ASSUME NEW p \in Proc, Context!Listed(p) PROVE ContextTyped'
  <2>1. [sweep[p] EXCEPT !.at = "shown",
                         !.shown = Context!Abandoned(Context!Exists, sweep[p].running)] \in SweepRec
    <3>1. Context!Abandoned(Context!Exists, sweep[p].running) \in SUBSET Job
      BY DEF Context!Abandoned, Context!Exists
    <3> QED
      BY <3>1, SweepUpdates
  <2>2. sweep' \in [Proc -> SweepRec]
    BY <1>12, <2>1, NewRecords DEF Context!Listed
  <2>3. faults' \in 0..MaxFaults
    BY <1>12 DEF Context!Listed
  <2> QED
    BY <1>12, <2>2, <2>3 DEF Context!Listed
<1>13. ASSUME NEW p \in Proc, Context!Ask(p) PROVE ContextTyped'
  <2>1. PICK j \in sweep[p].shown :
          sweep' = [sweep EXCEPT ![p] = [sweep[p] EXCEPT !.at = "asked", !.ref = j,
                                                         !.running = Context!Running(p)]]
    BY <1>13 DEF Context!Ask
  <2>2. [sweep[p] EXCEPT !.at = "asked", !.ref = j, !.running = Context!Running(p)] \in SweepRec
    <3>1. Context!Running(p) \in SUBSET Job /\ sweep[p] \in SweepRec
      BY DEF Context!Running
    <3>2. j \in Job
      BY <3>1 DEF SweepRec
    <3> QED
      BY <3>1, <3>2, SweepUpdates
  <2>3. sweep' \in [Proc -> SweepRec]
    BY <2>1, <2>2
  <2> QED
    BY <1>13, <2>3 DEF Context!Ask
<1>14. ASSUME NEW p \in Proc, Context!RefuseIfRunning(p) PROVE ContextTyped'
  <2>1. PICK a \in {"cleared", "shown"} :
          sweep' = [sweep EXCEPT ![p] = [sweep[p] EXCEPT !.at = a]]
    BY <1>14 DEF Context!RefuseIfRunning
  <2>2. sweep[p] \in SweepRec
    OBVIOUS
  <2>3. [sweep[p] EXCEPT !.at = a] \in SweepRec
    BY <2>2, SweepUpdates
  <2>4. sweep' \in [Proc -> SweepRec]
    BY <2>1, <2>3
  <2>5. faults' \in 0..MaxFaults
    BY <1>14 DEF Context!RefuseIfRunning
  <2> QED
    BY <1>14, <2>4, <2>5 DEF Context!RefuseIfRunning
<1>15. ASSUME NEW p \in Proc, Context!Remove(p) PROVE ContextTyped'
  <2>1. sweep' \in [Proc -> SweepRec]
    BY <1>15, NewRecords DEF Context!Remove
  <2>2. thing' \in [Job -> {"none", "made", "up", "ended"}] /\ faults' \in 0..MaxFaults
    BY <1>15 DEF Context!Remove
  <2> QED
    BY <1>15, <2>1, <2>2 DEF Context!Remove
<1>16. CASE UNCHANGED Context!vars
  BY <1>16 DEF Context!vars
<1>17. ASSUME NEW j \in Job, Context!Hang(j) PROVE ContextTyped'
  <2>1. /\ job' = [job EXCEPT ![j].hung = TRUE] /\ UNCHANGED <<kind, thing, ex, settled, sweep, sweeps>>
        /\ faults' \in 0..MaxFaults
    BY <1>17 DEF Context!Hang
  <2>2. job' \in [Job -> JobRec]
    BY <2>1, JobStaysTyped
  <2> QED
    BY <2>1, <2>2
<1> QED
  BY <1>1, <1>2, <1>3, <1>4, <1>5, <1>6, <1>7, <1>8, <1>9, <1>10, <1>11, <1>12, <1>13, <1>14,
     <1>15, <1>16, <1>17 DEF Context!Next, Context!JobSteps
-----------------------------------------------------------------------------
\* A job has nothing in the environment before its first creation, and a verdict
\* is given at its teardown only.
JobsInOrder ==
  \A j \in Job :
    /\ job[j].at = "idle" => thing[j] = "none"
    /\ job[j].at = "create" /\ job[j].tries = 0 => thing[j] = "none"
    /\ job[j].at # "idle" => job[j].by \in Proc
    /\ job[j].verdict # "none" => job[j].at \in {"teardown", "over", "lost"}

InFlight == {"create", "wait", "work"}

\* How a job moves, whatever the step: it begins once, is created again only with
\* its attempts counted, and its clone goes at its teardown or by a removal.
Moves(j) ==
  /\ job[j].at # "idle" =>
       /\ job'[j].at # "idle" /\ job'[j].by = job[j].by
       /\ job'[j].at \in InFlight => job[j].at \in InFlight
       /\ job'[j].at = "teardown" => job[j].at \in InFlight \cup {"teardown"}
       /\ job'[j].at = "create" /\ job'[j].tries = 0 => job[j].at = "create" /\ job[j].tries = 0
  /\ job[j].at = "idle" =>
       job'[j].at = "idle" \/ (job'[j].at = "create" /\ job'[j].by \in Proc)
  /\ job[j].tries > 0 => job'[j].tries > 0
  /\ job'[j].verdict # job[j].verdict => job[j].at = "teardown" /\ job'[j].at = "teardown"
  /\ job[j].at \in {"teardown", "over", "lost"} => job'[j].at \in {"teardown", "over", "lost"}
  /\ thing[j] = "none" /\ thing'[j] # "none" =>
       job[j].at = "create" /\ (job'[j].at # "create" \/ job'[j].tries > 0)
  /\ thing[j] # "none" /\ thing'[j] = "none" =>
       \/ job[j].at = "teardown" /\ job'[j].at = "teardown"
       \/ \E p \in Proc : Context!Remove(p) /\ sweep[p].ref = j

\* Every step changes a job and its thing in one of these ways.
LEMMA HowJobsMove ==
  ASSUME ContextTyped, [Context!Next]_(Context!vars), NEW k \in Job
  PROVE  Moves(k)
<1> USE DEF ContextTyped, Moves, InFlight
<1>0. job[k] \in JobRec /\ job[k].tries \in Nat
  BY TargetsAssumption DEF JobRec
<1>1. ASSUME NEW j \in Job, Context!Create(j) PROVE Moves(k)
  <2>1. /\ job[j].at = "create"
        /\ job' = [job EXCEPT ![j].at = "wait"] \/ Context!Fails(j) \/ Context!Readies(j)
           \/ Context!TriesAgain(j)
    BY <1>1 DEF Context!Create, Context!Created, Context!InspectRefused, Context!Goes,
       Context!CreateRefused, Context!CreateAnswerLost, Context!StartFails, Context!DirMade,
       Context!DirRefused, Context!LoginRefused, Context!HostUnreached, Context!NoPorts,
       Context!DirAnswerLost, Context!DeadConnection
  <2>2. thing' = thing \/ \E a \in {"none", "made", "up"} : thing' = [thing EXCEPT ![j] = a]
    BY <1>1 DEF Context!Create, Context!Created, Context!InspectRefused,
       Context!CreateRefused, Context!CreateAnswerLost, Context!StartFails, Context!DirMade,
       Context!DirRefused, Context!LoginRefused, Context!HostUnreached, Context!NoPorts,
       Context!DirAnswerLost, Context!DeadConnection
  <2>3. thing[j] # "none" => thing'[j] # "none"
    BY <1>1 DEF Context!Create, Context!Created, Context!InspectRefused,
       Context!CreateRefused, Context!CreateAnswerLost, Context!StartFails, Context!DirMade,
       Context!DirRefused, Context!LoginRefused, Context!HostUnreached, Context!NoPorts,
       Context!DirAnswerLost, Context!DeadConnection
  <2>5. CASE k # j
    <3>1. job'[k] = job[k]
      BY <2>1, <2>5 DEF Context!Fails, Context!Goes, Context!Readies, Context!TriesAgain
    <3>2. thing'[k] = thing[k]
      BY <2>2, <2>5
    <3> QED
      BY <1>0, <3>1, <3>2 DEF JobRec
  <2>6. CASE k = j
    <3>1. /\ job'[k].by = job[k].by /\ job'[k].verdict = job[k].verdict
          /\ job'[k].at \in {"create", "wait", "work", "teardown"}
          /\ job[k].tries > 0 => job'[k].tries > 0
          /\ job'[k].at = "create" => job'[k].tries > 0
      BY <1>0, <2>1, <2>6 DEF Context!Fails, Context!Goes, Context!Readies, Context!TriesAgain, JobRec
    <3> QED
      BY <1>0, <2>1, <2>3, <2>6, <3>1
  <2> QED
    BY <2>5, <2>6
<1>2. ASSUME NEW j \in Job, Context!WaitRunning(j) PROVE Moves(k)
  BY <1>0, <1>2 DEF Context!WaitRunning, Context!CameUp, Context!WillNotCome, Context!OutOfSight,
     Context!Fails, Context!Goes, Context!Readies, Context!TriesAgain, JobRec
<1>3. ASSUME NEW j \in Job, Context!Finish(j) PROVE Moves(k)
  BY <1>0, <1>3 DEF Context!Finish, Context!Goes, JobRec
<1>4. ASSUME NEW j \in Job, Context!Teardown(j) PROVE Moves(k)
  <2>1. CASE Context!Goes(j, "over") /\ UNCHANGED thing
    BY <1>0, <1>4, <2>1 DEF Context!Teardown, Context!Goes, JobRec
  <2>2. CASE Context!Reports(j, "clean") /\ UNCHANGED thing
    BY <1>0, <1>4, <2>2 DEF Context!Teardown, Context!Reports, JobRec
  <2>3. CASE Context!Reports(j, "clean") /\ thing' = [thing EXCEPT ![j] = "none"]
    BY <1>0, <1>4, <2>3 DEF Context!Teardown, Context!Reports, JobRec
  <2>4. ASSUME NEW after \in {thing[j], "none"},
               Context!Reports(j, "left"), thing' = [thing EXCEPT ![j] = after]
        PROVE  Moves(k)
    BY <1>0, <1>4, <2>4 DEF Context!Teardown, Context!Reports, JobRec
  <2>5. CASE Context!Reports(j, "left") /\ UNCHANGED thing
    BY <1>0, <1>4, <2>5 DEF Context!Teardown, Context!Reports, JobRec
  <2> QED
    BY <1>4, <2>1, <2>2, <2>3, <2>4, <2>5 DEF Context!Teardown, Context!NothingHeld,
       Context!Destroyed, Context!Unconfirmed, Context!OutOfReach
<1>5. ASSUME NEW j \in Job, Context!Cancel(j) \/ Context!Hang(j) PROVE Moves(k)
  <2>1. /\ UNCHANGED thing
        /\ job' \in {[job EXCEPT ![j].cancelled = TRUE], [job EXCEPT ![j].hung = TRUE]}
    BY <1>5 DEF Context!Cancel, Context!Hang
  <2>2. /\ job'[k].at = job[k].at /\ job'[k].by = job[k].by
        /\ job'[k].tries = job[k].tries /\ job'[k].verdict = job[k].verdict
    BY <1>0, <2>1 DEF JobRec
  <2> QED
    BY <1>0, <2>1, <2>2 DEF JobRec
<1>6. ASSUME NEW j \in Job, Context!PushFile(j) \/ Context!Drop(j) PROVE Moves(k)
  BY <1>0, <1>6 DEF Context!PushFile, Context!Drop
<1>7. ASSUME NEW j \in Job, Context!Deadline(j) PROVE Moves(k)
  BY <1>0, <1>7 DEF Context!Deadline
<1>8. ASSUME NEW p \in Proc, NEW j \in Job, Context!Begin(p, j) PROVE Moves(k)
  BY <1>0, <1>8 DEF Context!Begin, JobRec
<1>9. ASSUME NEW p \in Proc, Context!Crash(p) PROVE Moves(k)
  <2>1. thing' = thing
    BY <1>9 DEF Context!Crash
  <2>2. CASE k \in Context!Running(p)
    <3>1. job'[k] = [job[k] EXCEPT !.at = "lost"]
      BY <1>9, <2>2 DEF Context!Crash
    <3>2. job[k].at \in {"create", "wait", "work", "teardown"}
      BY <2>2 DEF Context!Running
    <3> QED
      BY <1>0, <2>1, <3>1, <3>2 DEF JobRec
  <2>3. CASE k \notin Context!Running(p)
    <3>1. job'[k] = job[k]
      BY <1>9, <2>3 DEF Context!Crash
    <3> QED
      BY <1>0, <2>1, <3>1 DEF JobRec
  <2> QED
    BY <2>2, <2>3
<1>10. ASSUME NEW p \in Proc, Context!Remove(p) PROVE Moves(k)
  BY <1>0, <1>10 DEF Context!Remove
<1>11. CASE UNCHANGED <<job, thing>>
  BY <1>0, <1>11
<1> QED
  BY <1>1, <1>2, <1>3, <1>4, <1>5, <1>6, <1>7, <1>8, <1>9, <1>10, <1>11
     DEF Context!Next, Context!JobSteps, Context!vars, Context!Look, Context!Listed,
         Context!Ask, Context!RefuseIfRunning

\* Every step keeps the order.
LEMMA JobsStayInOrder ==
  ASSUME ContextTyped, JobsInOrder, [Context!Next]_(Context!vars)
  PROVE  JobsInOrder'
<1> SUFFICES ASSUME NEW j \in Job
             PROVE  /\ job'[j].at = "idle" => thing'[j] = "none"
                    /\ job'[j].at = "create" /\ job'[j].tries = 0 => thing'[j] = "none"
                    /\ job'[j].at # "idle" => job'[j].by \in Proc
                    /\ job'[j].verdict # "none" => job'[j].at \in {"teardown", "over", "lost"}
  BY DEF JobsInOrder
<1>1. Moves(j)
  BY HowJobsMove
<1>2. job'[j] \in JobRec /\ job'[j].tries \in Nat
  BY ContextStaysTyped, TargetsAssumption DEF ContextTyped, JobRec
<1> QED
  BY <1>1, <1>2 DEF JobsInOrder, Moves, InFlight

-----------------------------------------------------------------------------
\* A reference is given up at the job's one teardown, which is remembered while
\* the job may still call for another.
GivenUpOnce ==
  \A j \in Job : ex[j].ref = "given up" =>
    \/ job[j].at \in {"over", "lost"}
    \/ job[j].at = "teardown" /\ Context!AlreadySettled(j)

\* Every step keeps that, and with it what a clean verdict means.
LEMMA GivenUpStaysOnce ==
  ASSUME ContextTyped, JobsInOrder, GivenUpOnce, Context!CleanMeansGone,
         [Context!Next]_(Context!vars)
  PROVE  GivenUpOnce' /\ Context!CleanMeansGone'
<1> SUFFICES ASSUME NEW k \in Job
             PROVE  /\ ex'[k].ref = "given up" =>
                         \/ job'[k].at \in {"over", "lost"}
                         \/ job'[k].at = "teardown" /\ Context!AlreadySettled(k)'
                    /\ job'[k].verdict = "clean" /\ ex'[k].ref # "never" => thing'[k] = "none"
  BY DEF GivenUpOnce, Context!CleanMeansGone
<1>0. /\ job[k] \in JobRec /\ ex[k] \in ExRec /\ Moves(k)
      /\ job[k].at # "idle" => job[k].by \in Proc
  BY HowJobsMove DEF ContextTyped, JobsInOrder
<1>1. ASSUME NEW j \in Job, Context!Teardown(j)
      PROVE  /\ ex'[k].ref = "given up" =>
                  \/ job'[k].at \in {"over", "lost"}
                  \/ job'[k].at = "teardown" /\ Context!AlreadySettled(k)'
             /\ job'[k].verdict = "clean" /\ ex'[k].ref # "never" => thing'[k] = "none"
  <2>1. CASE k # j
    <3>1. job'[k] = job[k] /\ ex'[k] = ex[k] /\ thing'[k] = thing[k]
      BY <1>1, <2>1 DEF Context!Teardown, Context!NothingHeld, Context!Destroyed, ContextTyped,
         Context!Unconfirmed, Context!OutOfReach, Context!Reports, Context!Goes
    <3>2. job[k].at # "idle" /\ Context!AlreadySettled(k) => Context!AlreadySettled(k)'
      <4>1. \A p \in Proc : settled[p] \subseteq settled'[p]
        BY <1>1 DEF Context!Teardown, ContextTyped
      <4>2. Context!Key(k)' = Context!Key(k)
        BY <3>1 DEF Context!Key
      <4> QED
        BY <1>0, <3>1, <4>1, <4>2 DEF Context!AlreadySettled
    <3> QED
      BY <3>1, <3>2 DEF GivenUpOnce, Context!CleanMeansGone
  <2>2. CASE k = j /\ Context!AlreadySettled(j)
    <3>1. job' = [job EXCEPT ![j].at = "over"] /\ UNCHANGED <<thing, ex>>
      BY <1>1, <2>2 DEF Context!Teardown, Context!Goes
    <3>2. job'[k].at = "over" /\ job'[k].verdict = job[k].verdict
      BY <1>0, <2>2, <3>1 DEF ContextTyped, JobRec
    <3> QED
      BY <3>1, <3>2 DEF Context!CleanMeansGone
  <2>3. CASE k = j /\ ~Context!AlreadySettled(j)
    <3>1. /\ job[j].at = "teardown" /\ ex[j].ref # "given up"
          /\ settled' = [settled EXCEPT ![job[j].by] = @ \cup {Context!Key(j)}]
          /\ ex' = [ex EXCEPT ![j].ref = IF @ = "held" THEN "given up" ELSE @]
      BY <1>1, <2>3 DEF Context!Teardown, GivenUpOnce
    <3>2. PICK v \in {"clean", "left"} :
            /\ job' = [job EXCEPT ![j].verdict = v]
            /\ v = "clean" => ex[j].ref # "held" \/ thing' = [thing EXCEPT ![j] = "none"]
      BY <1>1, <2>3 DEF Context!Teardown, Context!NothingHeld, Context!Destroyed,
         Context!Unconfirmed, Context!OutOfReach, Context!Reports
    <3>3. /\ job'[j].at = "teardown" /\ job'[j].by = job[j].by /\ job'[j].ready = job[j].ready
          /\ job'[j].verdict = v
      BY <1>0, <3>1, <3>2, <2>3 DEF ContextTyped, JobRec
    <3>4. Context!AlreadySettled(j)'
      BY <1>0, <2>3, <3>1, <3>3 DEF Context!AlreadySettled, Context!Key, ContextTyped
    <3>5. ex'[j].ref # "never" => ex[j].ref = "held"
      BY <1>0, <2>3, <3>1 DEF ContextTyped, ExRec
    <3> QED
      BY <2>3, <3>2, <3>3, <3>4, <3>5 DEF ContextTyped
  <2> QED
    BY <2>1, <2>2, <2>3
<1>2. ASSUME NEW p \in Proc, Context!Crash(p)
      PROVE  /\ ex'[k].ref = "given up" =>
                  \/ job'[k].at \in {"over", "lost"}
                  \/ job'[k].at = "teardown" /\ Context!AlreadySettled(k)'
             /\ job'[k].verdict = "clean" /\ ex'[k].ref # "never" => thing'[k] = "none"
  <2>1. UNCHANGED <<ex, thing>>
    BY <1>2 DEF Context!Crash
  <2>2. CASE k \in Context!Running(p)
    <3>1. job'[k] = [job[k] EXCEPT !.at = "lost"]
      BY <1>2, <2>2 DEF Context!Crash
    <3> QED
      BY <1>0, <2>1, <3>1 DEF Context!CleanMeansGone, JobRec
  <2>3. CASE k \notin Context!Running(p)
    <3>1. job'[k] = job[k]
      BY <1>2, <2>3 DEF Context!Crash
    <3>2. job[k].at = "teardown" => job[k].by # p /\ settled'[job[k].by] = settled[job[k].by]
      BY <1>0, <1>2, <2>3 DEF Context!Running, Context!Crash, ContextTyped
    <3> QED
      BY <2>1, <3>1, <3>2 DEF GivenUpOnce, Context!CleanMeansGone, Context!AlreadySettled,
         Context!Key
  <2> QED
    BY <2>2, <2>3
<1>3. CASE /\ UNCHANGED settled /\ job'[k].verdict = job[k].verdict
           /\ ex'[k].ref # ex[k].ref => ex'[k].ref = "held" /\ job[k].at = "create"
           /\ job'[k].ready # job[k].ready => job[k].at \in InFlight
  <2>1. ex'[k].ref = "given up" => ex[k].ref = "given up" /\ job[k].at \notin InFlight
    BY <1>0, <1>3 DEF GivenUpOnce, InFlight
  <2>2. job'[k].by = job[k].by /\ job'[k].ready = job[k].ready
        => Context!AlreadySettled(k)' = Context!AlreadySettled(k)
    BY <1>3 DEF Context!AlreadySettled, Context!Key
  <2>3. ex'[k].ref = "given up" =>
          \/ job'[k].at \in {"over", "lost"}
          \/ job'[k].at = "teardown" /\ Context!AlreadySettled(k)'
    BY <1>0, <1>3, <2>1, <2>2 DEF GivenUpOnce, Moves, InFlight
  <2>4. job'[k].verdict = "clean" /\ ex'[k].ref # "never" => thing'[k] = "none"
    BY <1>0, <1>3 DEF Moves, JobsInOrder, InFlight, Context!CleanMeansGone
  <2> QED
    BY <2>3, <2>4
<1>4. ASSUME NEW j \in Job, Context!Create(j)
      PROVE  /\ UNCHANGED settled /\ job'[k].verdict = job[k].verdict
             /\ ex'[k].ref # ex[k].ref => ex'[k].ref = "held" /\ job[k].at = "create"
             /\ job'[k].ready # job[k].ready => job[k].at \in InFlight
  <2>1. /\ job[j].at = "create" /\ UNCHANGED settled
        /\ Context!Goes(j, "wait") \/ Context!Fails(j) \/ Context!Readies(j)
           \/ Context!TriesAgain(j)
    BY <1>4 DEF Context!Create, Context!Created, Context!InspectRefused,
       Context!CreateRefused, Context!CreateAnswerLost, Context!StartFails, Context!DirMade,
       Context!DirRefused, Context!LoginRefused, Context!HostUnreached, Context!NoPorts,
       Context!DirAnswerLost, Context!DeadConnection
  <2>2. job'[k].verdict = job[k].verdict /\ (k # j => job'[k] = job[k])
    BY <1>0, <2>1 DEF Context!Goes, Context!Fails, Context!Readies, Context!TriesAgain,
       ContextTyped, JobRec
  <2>3. \/ ex' = ex
        \/ ex' = [ex EXCEPT ![j] = [Context!NewExecutor EXCEPT !.ref = "held"]]
        \/ \E c \in {"live", "none"} : ex' = [ex EXCEPT ![j].ref = "held", ![j].conn = c]
        \/ ex' = [ex EXCEPT ![j].conn = "dead"]
    BY <1>4 DEF Context!Create, Context!Created, Context!InspectRefused,
       Context!CreateRefused, Context!CreateAnswerLost, Context!StartFails, Context!DirMade,
       Context!DirRefused, Context!LoginRefused, Context!HostUnreached, Context!NoPorts,
       Context!DirAnswerLost, Context!DeadConnection
  <2>4. ex'[k].ref # ex[k].ref => k = j /\ ex'[k].ref = "held"
    <3>1. CASE ex' = [ex EXCEPT ![j] = [Context!NewExecutor EXCEPT !.ref = "held"]]
      BY <3>1 DEF Context!NewExecutor, ContextTyped
    <3>2. ASSUME NEW c \in {"live", "none"}, ex' = [ex EXCEPT ![j].ref = "held", ![j].conn = c]
          PROVE  ex'[k].ref # ex[k].ref => k = j /\ ex'[k].ref = "held"
      BY <1>0, <3>2 DEF ContextTyped, ExRec
    <3>3. CASE ex' = [ex EXCEPT ![j].conn = "dead"]
      BY <1>0, <3>3 DEF ContextTyped, ExRec
    <3> QED
      BY <2>3, <3>1, <3>2, <3>3
  <2> QED
    BY <2>1, <2>2, <2>4 DEF InFlight
<1>5. ASSUME NEW j \in Job, \/ Context!WaitRunning(j) \/ Context!Finish(j) \/ Context!Cancel(j)
                             \/ Context!Hang(j)
      PROVE  /\ UNCHANGED <<settled, ex>> /\ job'[k].verdict = job[k].verdict
             /\ job'[k].ready # job[k].ready => job[k].at \in InFlight
  BY <1>0, <1>5 DEF Context!WaitRunning, Context!CameUp, Context!WillNotCome, Context!OutOfSight,
     Context!Finish, Context!Cancel, Context!Hang, Context!Goes, Context!Fails, Context!Readies,
     Context!TriesAgain, ContextTyped, JobRec, InFlight
<1>6. ASSUME NEW j \in Job, Context!PushFile(j) \/ Context!Drop(j)
      PROVE  UNCHANGED <<settled, job>> /\ ex'[k].ref = ex[k].ref
  <2>1. CASE Context!Drop(j)
    BY <1>0, <2>1 DEF Context!Drop, ContextTyped, ExRec
  <2>2. CASE Context!PushFile(j)
    <3>1. PICK answered \in BOOLEAN, arrives \in BOOLEAN :
            ex' = [ex EXCEPT
              ![j].owner = IF kind \in Context!CloneKinds
                           THEN Context!RuntimeOwner(j, answered) ELSE @,
              ![j].pushed = IF ~arrives THEN "no"
                            ELSE IF kind = "docker" /\ Context!RuntimeOwner(j, answered) = "root"
                            THEN "unreadable" ELSE "readable"]
      BY <2>2 DEF Context!PushFile
    <3> QED
      BY <1>0, <2>2, <3>1 DEF Context!PushFile, ContextTyped, ExRec
  <2> QED
    BY <1>6, <2>1, <2>2
<1>7. ASSUME NEW p \in Proc, NEW j \in Job, Context!Begin(p, j)
      PROVE  /\ UNCHANGED <<settled, ex>> /\ job'[k].verdict = job[k].verdict
             /\ job'[k].ready = job[k].ready
  BY <1>0, <1>7 DEF Context!Begin, ContextTyped, JobRec
<1>8. CASE UNCHANGED <<settled, ex, job>>
  BY <1>3, <1>8
<1> QED
  BY <1>1, <1>2, <1>3, <1>4, <1>5, <1>6, <1>7, <1>8
     DEF Context!Next, Context!JobSteps, Context!vars, Context!Look, Context!Listed,
         Context!Ask, Context!RefuseIfRunning, Context!Remove, Context!Deadline
-----------------------------------------------------------------------------
(***************************************************************************)
(* Removing.  What a list has shown was made by a job that had begun, what *)
(* is asked of a removal was asked after, and a job that runs when the     *)
(* answer comes was running when the question was put.                     *)
(***************************************************************************)
Past == {"shown", "asked", "cleared"}

\* What was shown had been made.
ShownWasMade(p) ==
  sweep[p].at \in Past =>
    /\ sweep[p].at # "shown" => sweep[p].ref \in sweep[p].shown
    /\ \A j \in sweep[p].shown :
         job[j].at # "idle" /\ ~(job[j].at = "create" /\ job[j].tries = 0)

\* What is shown stays while its job is at work, if nobody else removes clones.
ShownStays(p) ==
  sweep[p].at \in Past /\ Proc = {p} =>
    \A j \in sweep[p].shown : job[j].at \in InFlight => thing[j] # "none"

\* A job that runs now was running when the removal asked.
RunningWasRunning(p) ==
  sweep[p].at = "asked" /\ sweep[p].ref \in Context!Running(p) => sweep[p].ref \in sweep[p].running

\* What was cleared for removal is nobody's here, or was made anew since.
ClearedIsNotOwn(p) ==
  sweep[p].at = "cleared" /\ sweep[p].ref \in Context!Running(p) /\ thing[sweep[p].ref] # "none"
    => Context!MadeAnew(p, sweep[p].ref)

SweepInv ==
  \A p \in Proc : ShownWasMade(p) /\ ShownStays(p) /\ RunningWasRunning(p) /\ ClearedIsNotOwn(p)

\* Every step keeps what each look for orphans has seen in step with the environment.
LEMMA SweepStays ==
  ASSUME ContextTyped, JobsInOrder, SweepInv, [Context!Next]_(Context!vars)
  PROVE  SweepInv'
<1> SUFFICES ASSUME NEW p \in Proc
             PROVE  ShownWasMade(p)' /\ ShownStays(p)' /\ RunningWasRunning(p)'
                    /\ ClearedIsNotOwn(p)'
  BY DEF SweepInv
<1> DEFINE s == sweep[p]
           r == sweep[p].ref
<1>0. /\ s \in SweepRec /\ s.shown \subseteq Job /\ s.running \subseteq Job
      /\ ShownWasMade(p) /\ ShownStays(p) /\ RunningWasRunning(p) /\ ClearedIsNotOwn(p)
      /\ s.at \in Past /\ s.at # "shown" => r \in Job
  BY DEF ContextTyped, SweepRec, SweepInv, ShownWasMade
<1>1. \A j \in Job : Moves(j) /\ job[j].tries \in Nat /\ job'[j].tries \in Nat
  BY HowJobsMove, ContextStaysTyped, TargetsAssumption DEF ContextTyped, JobRec
<1>2. \A j \in Job : job[j].at # "idle" /\ j \in Context!Running(p)' => j \in Context!Running(p)
  BY <1>1 DEF Moves, Context!Running, InFlight
<1>3. CASE sweep'[p] = s /\ ~Context!Remove(p)
  <2>1. ShownWasMade(p)'
    BY <1>0, <1>1, <1>3 DEF ShownWasMade, Moves, Past
  <2>2. ShownStays(p)'
    <3> SUFFICES ASSUME s.at \in Past, Proc = {p}, NEW j \in s.shown, job'[j].at \in InFlight
                 PROVE  thing'[j] # "none"
      BY <1>3 DEF ShownStays
    <3>1. job[j].at \in InFlight /\ thing[j] # "none" /\ Moves(j)
      BY <1>0, <1>1 DEF ShownWasMade, ShownStays, Moves
    <3> QED
      BY <1>3, <3>1 DEF Moves, InFlight
  <2>3. RunningWasRunning(p)'
    BY <1>0, <1>2, <1>3 DEF RunningWasRunning, ShownWasMade, Past
  <2>4. ClearedIsNotOwn(p)'
    <3> SUFFICES ASSUME s.at = "cleared", r \in Context!Running(p)', thing'[r] # "none"
                 PROVE  Context!MadeAnew(p, r)'
      BY <1>3 DEF ClearedIsNotOwn
    <3>1. /\ r \in Job /\ r \in Context!Running(p) /\ Moves(r) /\ r \in s.shown
          /\ ~(job[r].at = "create" /\ job[r].tries = 0)
      BY <1>0, <1>1, <1>2 DEF ShownWasMade, Past
    <3>2. CASE thing[r] # "none"
      <4>1. Context!MadeAnew(p, r)
        BY <1>0, <3>1, <3>2 DEF ClearedIsNotOwn
      <4> QED
        BY <1>1, <1>3, <3>1, <4>1 DEF Context!MadeAnew, Moves
    <3>3. CASE thing[r] = "none"
      <4>1. job[r].at = "create" /\ job[r].tries > 0
        BY <1>1, <3>1, <3>3 DEF Moves
      <4>2. Proc # {p}
        BY <1>0, <3>1, <3>3, <4>1 DEF ShownStays, Past, InFlight
      <4> QED
        BY <1>3, <3>1, <4>1, <4>2 DEF Context!MadeAnew, Moves
    <3> QED
      BY <3>2, <3>3
  <2> QED
    BY <2>1, <2>2, <2>3, <2>4
<1>4. CASE sweep'[p].at \notin Past
  BY <1>4 DEF ShownWasMade, ShownStays, RunningWasRunning, ClearedIsNotOwn, Past
<1>5. CASE Context!Listed(p) /\ sweep'[p].at = "shown"
  <2>1. /\ UNCHANGED <<thing, job>>
        /\ sweep' = [sweep EXCEPT ![p] = [s EXCEPT !.at = "shown",
                                       !.shown = Context!Abandoned(Context!Exists, s.running)]]
    <3>1. sweep' # [sweep EXCEPT ![p] = Context!NoSweep]
      BY <1>5 DEF Context!NoSweep, ContextTyped
    <3> QED
      BY <1>5, <3>1 DEF Context!Listed
  <2>2. sweep'[p].shown \subseteq Context!Exists
    BY <1>0, <2>1 DEF Context!Abandoned, ContextTyped, SweepRec
  <2> QED
    BY <1>5, <2>1, <2>2 DEF ShownWasMade, ShownStays, RunningWasRunning, ClearedIsNotOwn, Past,
       Context!Exists, JobsInOrder
<1>6. CASE Context!Ask(p)
  <2>1. PICK j \in s.shown :
          sweep' = [sweep EXCEPT ![p] = [s EXCEPT !.at = "asked", !.ref = j,
                                                  !.running = Context!Running(p)]]
    BY <1>6 DEF Context!Ask
  <2>2. /\ sweep'[p].at = "asked" /\ sweep'[p].ref = j /\ sweep'[p].running = Context!Running(p)
        /\ sweep'[p].shown = s.shown /\ UNCHANGED <<thing, job>> /\ s.at = "shown"
    BY <1>0, <1>6, <2>1 DEF Context!Ask, ContextTyped, SweepRec
  <2> QED
    BY <1>0, <1>2, <2>2 DEF ShownWasMade, ShownStays, RunningWasRunning, ClearedIsNotOwn, Past
<1>7. CASE Context!RefuseIfRunning(p)
  <2>1. PICK listing \in BOOLEAN :
          sweep' = [sweep EXCEPT ![p] = [s EXCEPT
                      !.at = IF Context!MayRemove(p, listing) THEN "cleared" ELSE "shown"]]
    BY <1>7 DEF Context!RefuseIfRunning
  <2>2. /\ sweep'[p].at = IF Context!MayRemove(p, listing) THEN "cleared" ELSE "shown"
        /\ sweep'[p].ref = r /\ sweep'[p].shown = s.shown
        /\ UNCHANGED <<thing, job>> /\ s.at = "asked"
    BY <1>0, <1>7, <2>1 DEF Context!RefuseIfRunning, ContextTyped, SweepRec
  <2>3. ShownWasMade(p)' /\ ShownStays(p)' /\ RunningWasRunning(p)'
    BY <1>0, <2>2 DEF ShownWasMade, ShownStays, RunningWasRunning, Past
  <2>4. Context!MayRemove(p, listing) /\ r \in Context!Running(p) => thing[r] = "none"
    BY <1>0, <2>2 DEF Context!MayRemove, RunningWasRunning, Context!Exists, Past
  <2>5. Context!Running(p)' = Context!Running(p)
    BY <2>2 DEF Context!Running
  <2>6. ClearedIsNotOwn(p)'
    BY <2>2, <2>4, <2>5 DEF ClearedIsNotOwn
  <2> QED
    BY <2>3, <2>6
<1>8. ASSUME NEW q \in Proc, q # p,
             \/ Context!Look(q) \/ Context!Listed(q) \/ Context!Ask(q)
             \/ Context!RefuseIfRunning(q) \/ Context!Remove(q) \/ Context!Crash(q)
      PROVE  sweep'[p] = s
  BY <1>8 DEF Context!Look, Context!Listed, Context!Ask, Context!RefuseIfRunning, Context!Remove,
     Context!Crash, ContextTyped
<1>9. Context!Look(p) \/ Context!Remove(p) \/ Context!Crash(p) => sweep'[p].at \notin Past
  <2>1. Context!Look(p) => sweep'[p].at = "listing"
    BY DEF Context!Look, Context!NoSweep, ContextTyped
  <2>2. Context!Remove(p) => sweep'[p].at = "idle"
    BY DEF Context!Remove, Context!NoSweep, ContextTyped
  <2>3. Context!Crash(p) => sweep'[p].at = "idle"
    BY DEF Context!Crash, Context!NoSweep, ContextTyped
  <2> QED
    BY <2>1, <2>2, <2>3 DEF Past
<1>10. Context!Listed(p) => sweep'[p].at \in {"idle", "shown"}
  BY <1>0 DEF Context!Listed, Context!NoSweep, ContextTyped, SweepRec
<1>11. ASSUME NEW j \in Job, \/ Context!JobSteps(j) \/ Context!Cancel(j) \/ Context!PushFile(j)
                             \/ Context!Drop(j) \/ Context!Deadline(j) \/ Context!Hang(j)
                             \/ \E q \in Proc : Context!Begin(q, j)
       PROVE  UNCHANGED sweep
  BY <1>11 DEF Context!JobSteps, Context!Create, Context!WaitRunning, Context!Finish,
     Context!Teardown, Context!Cancel, Context!PushFile, Context!Drop, Context!Deadline,
     Context!Hang, Context!Begin
<1>12. Context!Remove(p) => sweep'[p].at \notin Past
  BY <1>9
<1>13. CASE sweep'[p] = s
  BY <1>3, <1>4, <1>12, <1>13
<1> QED
  BY <1>4, <1>5, <1>6, <1>7, <1>8, <1>9, <1>10, <1>11, <1>13
     DEF Context!Next, Context!vars, Past
-----------------------------------------------------------------------------
ContextInv ==
  ContextTyped /\ JobsInOrder /\ GivenUpOnce /\ Context!CleanMeansGone /\ SweepInv

\* Nothing has begun.
LEMMA ContextStarts == ASSUME NEW k \in AllKinds, Context!Starts(k) PROVE ContextInv
<1> USE DEF Context!Starts, Context!NoJob, Context!NewExecutor, Context!NoSweep
<1>1. ContextTyped
  BY TargetsAssumption DEF ContextTyped, JobRec, JobAt, ExRec, SweepRec
<1>2. JobsInOrder /\ GivenUpOnce /\ Context!CleanMeansGone
  BY DEF JobsInOrder, GivenUpOnce, Context!CleanMeansGone
<1>3. SweepInv
  BY DEF SweepInv, ShownWasMade, ShownStays, RunningWasRunning, ClearedIsNotOwn, Past
<1> QED
  BY <1>1, <1>2, <1>3 DEF ContextInv

\* Every step keeps the invariant.
LEMMA ContextStep == ContextInv /\ [Context!Next]_(Context!vars) => ContextInv'
BY ContextStaysTyped, JobsStayInOrder, GivenUpStaysOnce, SweepStays DEF ContextInv

\* The environment goes by its steps, whatever else the run is about.
LEMMA ContextSafe == Spec => [][Context!Next]_(Context!vars) /\ []ContextInv
<1>1. Init => ContextInv
  BY ContextStarts DEF Init, Context!Init, AllKinds
<1>2. [Next]_vars => [Context!Next]_(Context!vars)
  BY DEF Next, vars, contextVars, Context!vars
<1> QED
  BY <1>1, <1>2, ContextStep, PTL DEF Spec

(***************************************************************************)
(* A teardown that reported nothing left behind left nothing of what the   *)
(* executor had recorded: a failed one is remembered, and is not followed  *)
(* by a second that finds nothing to do and says so.                       *)
(***************************************************************************)
THEOREM CleanIsGone == Spec => []CleanMeansGone
<1>1. ContextInv => CleanMeansGone
  BY DEF ContextInv, CleanMeansGone
<1> QED
  BY <1>1, ContextSafe, PTL

(***************************************************************************)
(* A clone is never removed under a job of the PortCloak that removes it,  *)
(* for any number of PortCloaks, jobs, failures and removals: unless       *)
(* another PortCloak had removed it and the job has made it anew.          *)
(***************************************************************************)
THEOREM OwnJobsAreSpared == Spec => SparesOwnJobs
<1>1. ContextInv => Context!SparesOwn
  BY DEF ContextInv, SweepInv, ClearedIsNotOwn, Context!SparesOwn, Context!Removes
<1>2. ContextInv /\ [Next]_vars => [Context!SparesOwn]_vars
  BY <1>1
<1> QED
  BY <1>2, ContextSafe, PTL DEF Spec, SparesOwnJobs

-----------------------------------------------------------------------------
(***************************************************************************)
(* The export.                                                             *)
(***************************************************************************)

\* A set of numbers that is not empty has a least.
LEMMA LeastNatural ==
  ASSUME NEW S \in SUBSET Nat, S # {}
  PROVE  \E x \in S : \A y \in S : x <= y
<1>1. \E x \in S : \A y \in S : ~(<<y, x>> \in OpToRel(<, Nat))
  BY NatLessThanWellFounded, WFMin
<1>2. ASSUME NEW x \in Nat, NEW y \in Nat, ~(<<y, x>> \in OpToRel(<, Nat))
      PROVE  x <= y
  BY <1>2 DEF OpToRel
<1> QED
  BY <1>1, <1>2

\* A bounded set of numbers has a largest.
LEMMA LargestNatural ==
  ASSUME NEW S \in SUBSET Nat, NEW b \in Nat, \A x \in S : x <= b, S # {}
  PROVE  Exports!Max(S) \in S /\ \A x \in S : Exports!Max(S) >= x
<1> DEFINE T == {b - x : x \in S}
<1>1. T \in SUBSET Nat /\ T # {}
  <2>1. \A x \in S : b - x \in Nat
    OBVIOUS
  <2> QED
    BY <2>1
<1>2. PICK t \in T : \A u \in T : t <= u
  <2> HIDE DEF T
  <2> QED
    BY <1>1, LeastNatural
<1>3. PICK m \in S : t = b - m
  BY <1>2
<1>4. \A x \in S : m >= x
  <2> TAKE x \in S
  <2>1. b - x \in T
    OBVIOUS
  <2>2. t <= b - x
    BY <1>2, <2>1
  <2>3. x \in Nat /\ m \in Nat
    OBVIOUS
  <2> QED
    BY <1>3, <2>2, <2>3
<1> QED
  BY <1>4 DEF Exports!Max

\* A page number is written in at least one digit, and in no more than it has units.
LEMMA DigitsOfAPage ==
  ASSUME NEW n \in Nat
  PROVE  Exports!Digits(n) \in 1..(n + 1)
<1> DEFINE P == {Radix^k : k \in 1..n} \cap (1..n)
<1>1. IsFiniteSet(1..n) /\ Cardinality(1..n) = n
  BY FS_Interval
<1>2. P \in SUBSET (1..n)
  OBVIOUS
<1>3. Cardinality(P) \in Nat /\ Cardinality(P) <= n
  <2> HIDE DEF P
  <2> QED
    BY <1>1, <1>2, FS_Subset, FS_CardinalityType
<1>4. Exports!Digits(n) = 1 + Cardinality(P)
  BY DEF Exports!Digits, Exports!Cardinality, Cardinality
<1> HIDE DEF P
<1> QED
  BY <1>3, <1>4

\* The size of a page that the operator may ask for is never zero.
LEMMA PageSize ==
  ASSUME NEW n \in Nat
  PROVE  Exports!ClampUsersPerFile(n) \in Nat \ {0}
BY TargetsAssumption DEF Exports!ClampUsersPerFile

\* The request stays as it was made, and names pages of some size.
RequestTyped == req.users \in Nat /\ req.size \in Nat \ {0}

\* The number of pages is a number.
LEMMA PagesAreCounted == ASSUME RequestTyped PROVE Exports!PageCount \in Nat
<1>1. req.users + req.size - 1 \in Nat /\ req.size \in Nat \ {0}
  BY DEF RequestTyped
<1> QED
  BY <1>1 DEF Exports!PageCount

\* A file kc.sh wrote is the realm's or a page, whose name has the digits of its number.
LEMMA WrittenIs ==
  ASSUME NEW f \in Exports!Written
  PROVE  \/ f = Exports!RealmFile
         \/ \E x \in {"users", "federated"}, n \in 0..(Exports!PageCount - 1) :
              f = Exports!UserFile(x, n, Exports!Digits(n))
BY DEF Exports!Written, Exports!Pages

\* What kc.sh writes is finite.
LEMMA WrittenIsFinite == ASSUME RequestTyped PROVE IsFiniteSet(Exports!Written)
<1>1. ASSUME NEW x PROVE IsFiniteSet(Exports!Pages(x))
  <2> DEFINE D == 0..(Exports!PageCount - 1)
             f == [n \in D |-> Exports!UserFile(x, n, Exports!Digits(n))]
  <2>1. IsFiniteSet(D)
    BY PagesAreCounted, FS_Interval
  <2>2. f \in Surjection(D, Exports!Pages(x))
    BY Fun_IsSurj DEF Exports!Pages
  <2> QED
    BY <2>1, <2>2, FS_Surjection
<1>2. IsFiniteSet({Exports!RealmFile}) /\ IsFiniteSet({})
  BY FS_Singleton, FS_EmptySet
<1>3. IsFiniteSet(Exports!Pages("users") \cup Exports!Pages("federated"))
  BY <1>1, FS_Union
<1> QED
  BY <1>2, <1>3, FS_Union DEF Exports!Written

-----------------------------------------------------------------------------
(***************************************************************************)
(* Padding, for any set of files that kc.sh wrote.                         *)
(***************************************************************************)

\* The fields of the record of a page.
LEMMA PagesHaveRecords ==
  ASSUME NEW x, NEW n, NEW d
  PROVE  LET u == Exports!UserFile(x, n, d)
         IN  /\ u.kind = "user" /\ u.prefix = x /\ u.n = n /\ u.digits = d
             /\ \A e : [u EXCEPT !.digits = e] = Exports!UserFile(x, n, e)
             /\ u # Exports!RealmFile /\ Exports!RealmFile.kind = "realm"
<1> DEFINE u == Exports!UserFile(x, n, d)
<1>1. /\ u.kind = "user" /\ u.prefix = x /\ u.n = n /\ u.digits = d
      /\ \A e : [u EXCEPT !.digits = e] = Exports!UserFile(x, n, e)
  BY DEF Exports!UserFile
<1>2. Exports!RealmFile.kind = "realm"
  BY DEF Exports!RealmFile
<1> QED
  BY <1>1, <1>2

\* No name is narrower than what the pages of an export are padded to.
LEMMA WidthBounds ==
  ASSUME RequestTyped, NEW files, files \subseteq Exports!Written
  PROVE  /\ Exports!Width(files) \in Nat
         /\ \A f \in Exports!UserFiles(files) : f.digits \in Nat /\ f.digits <= Exports!Width(files)
<1> DEFINE S == {UserFileDigits} \cup {f.digits : f \in Exports!UserFiles(files)}
           b == UserFileDigits + Exports!PageCount
<1>1. ASSUME NEW f \in Exports!UserFiles(files)
      PROVE  f.digits \in Nat /\ f.digits <= Exports!PageCount
  <2>1. PICK x \in {"users", "federated"}, n \in 0..(Exports!PageCount - 1) :
          f = Exports!UserFile(x, n, Exports!Digits(n))
    BY <1>1, WrittenIs, PagesHaveRecords DEF Exports!UserFiles
  <2>2. f.digits = Exports!Digits(n)
    BY <2>1, PagesHaveRecords
  <2> QED
    BY <2>2, DigitsOfAPage, PagesAreCounted
<1>2. UserFileDigits \in Nat /\ Exports!PageCount \in Nat
  BY PagesAreCounted, TargetsAssumption
<1>3. S \in SUBSET Nat /\ b \in Nat /\ S # {} /\ \A x \in S : x <= b
  BY <1>1, <1>2
<1>4. Exports!Max(S) \in S /\ \A x \in S : Exports!Max(S) >= x
  <2> HIDE DEF S, b
  <2> QED
    BY <1>3, LargestNatural
<1> QED
  BY <1>1, <1>3, <1>4 DEF Exports!Width

\* Two files that carry one padded name, or one another's, are one file.
LEMMA NothingCollides ==
  ASSUME RequestTyped, NEW files, files \subseteq Exports!Written
  PROVE  ~Exports!Collides(files)
<1> SUFFICES ASSUME NEW f \in files, NEW g \in files,
                    Exports!Padded(f, files) \in {g, Exports!Padded(g, files)}
             PROVE  f = g
  BY DEF Exports!Collides
<1>1. \A h \in files :
        \/ h = Exports!RealmFile /\ Exports!Padded(h, files) = h
        \/ \E x, n, d : h = Exports!UserFile(x, n, Exports!Digits(n))
                       /\ Exports!Padded(h, files) = Exports!UserFile(x, n, d)
  <2> TAKE h \in files
  <2>1. CASE h = Exports!RealmFile
    BY <2>1, PagesHaveRecords DEF Exports!Padded
  <2>2. ASSUME NEW x, NEW n, h = Exports!UserFile(x, n, Exports!Digits(n))
        PROVE  \E d : Exports!Padded(h, files) = Exports!UserFile(x, n, d)
    <3>1. h.kind = "user"
      BY <2>2, PagesHaveRecords
    <3>2. PICK e : Exports!Padded(h, files) = [h EXCEPT !.digits = e]
      BY <3>1 DEF Exports!Padded
    <3> QED
      BY <2>2, <3>2 DEF Exports!UserFile
  <2> QED
    BY <2>1, <2>2, WrittenIs
<1>2. CASE f = Exports!RealmFile
  BY <1>1, <1>2, PagesHaveRecords
<1>3. CASE f # Exports!RealmFile
  <2>1. PICK x, n, d : f = Exports!UserFile(x, n, Exports!Digits(n))
                       /\ Exports!Padded(f, files) = Exports!UserFile(x, n, d)
    BY <1>1, <1>3
  <2>2. g # Exports!RealmFile
    BY <1>1, <2>1, PagesHaveRecords
  <2>3. PICK y, m, e : g = Exports!UserFile(y, m, Exports!Digits(m))
                       /\ Exports!Padded(g, files) = Exports!UserFile(y, m, e)
    BY <1>1, <2>2
  <2>4. x = y /\ n = m
    BY <2>1, <2>3, PagesHaveRecords
  <2> QED
    BY <2>1, <2>3, <2>4
<1> QED
  BY <1>2, <1>3

-----------------------------------------------------------------------------
\* The attempts are counted.
Endings == {"no", "ok", "rejected", "conflict", "timeout", "refused", "other", "lost", "no ports",
            "cancelled"}
AttemptsAreCounted ==
  try \in [attempt : 1..maxExportAttempts, ports : 0..maxExportAttempts, ended : Endings]

\* On this machine, when all the ports can be moved, every attempt but the first was
\* paid for with a port that somebody took from the one before it.
PortsHeld(k) == \E o \in Options : Exports!Allocated(k, o) \in taken
GrabsPayForAttempts ==
  /\ grabs \in Nat /\ host.binds \subseteq Options
  /\ phase \in {"discover", "run"} /\ ~host.remote /\ (phase = "run" => host.binds \subseteq known)
       => /\ grabs >= try.attempt - 1
          /\ PortsHeld(try.ports) => grabs >= try.attempt

\* Reading begins when a run went well, and the job ends on what the last one said.
EndsOnTheLast ==
  /\ phase \in {"discover", "run", "read", "fetch", "staged", "failed"}
  /\ phase \in {"read", "fetch", "staged"} => try.ended = "ok"
  /\ Exports!GivesUpOnlyWhenItMust

\* What is there was written by kc.sh, and is read as it is.
DirIsWritten ==
  /\ dir \subseteq Exports!Written
  /\ phase \in {"fetch", "staged"} => listed = dir

ExportInv ==
  /\ RequestTyped /\ AttemptsAreCounted /\ GrabsPayForAttempts
  /\ EndsOnTheLast /\ DirIsWritten /\ Exports!StagedIsExported

\* Nothing is exported at first.
LEMMA ExportStarts ==
  ASSUME NEW h \in Exports!Hosts, NEW r \in Exports!Requests, Exports!Starts(h, r)
  PROVE  ExportInv
<1>1. RequestTyped
  BY PageSize, TargetsAssumption DEF Exports!Starts, Exports!Requests, RequestTyped
<1>2. AttemptsAreCounted
  BY TargetsAssumption DEF Exports!Starts, Exports!Hosts, AttemptsAreCounted, Endings
<1>3. GrabsPayForAttempts
  <2>1. try.attempt = 1 /\ grabs = 0 /\ host.binds \subseteq Options
    BY DEF Exports!Starts, Exports!Hosts
  <2>2. ~PortsHeld(try.ports)
    <3>1. CASE host.own
      BY <3>1 DEF Exports!Starts, PortsHeld
    <3>2. CASE ~host.own
      <4>1. try.ports = 1 /\ taken = {Exports!Default(o) : o \in Options}
        BY <3>2 DEF Exports!Starts
      <4>2. \A o, q : Exports!Allocated(1, o) # Exports!Default(q)
        <5>1. \A o, q : Exports!Allocated(1, o)[1] = 1 /\ Exports!Default(q)[1] = 0
          BY DEF Exports!Allocated, Exports!Default
        <5>2. 1 # 0
          OBVIOUS
        <5> QED
          BY <5>1, <5>2
      <4> QED
        BY <4>1, <4>2 DEF PortsHeld
    <3> QED
      BY <3>1, <3>2
  <2> QED
    BY <2>1, <2>2 DEF GrabsPayForAttempts
<1> QED
  BY <1>1, <1>2, <1>3 DEF Exports!Starts, ExportInv, EndsOnTheLast, DirIsWritten,
     Exports!GivesUpOnlyWhenItMust, Exports!StagedIsExported

\* What the builder holds is the directory, file by file.
LEMMA CarriedIsTheDirectory ==
  ASSUME RequestTyped, dir \subseteq Exports!Written, listed = dir
  PROVE  LET c == Exports!Carried
         IN  /\ {c[name] : name \in DOMAIN c} = dir
             /\ Exports!Cardinality(DOMAIN c) = Exports!Cardinality(dir)
             /\ \A a, b \in Exports!UserFiles(DOMAIN c) : a.prefix = b.prefix => a.digits = b.digits
<1> DEFINE Name(f) == Exports!CarriedName(f, listed)
           c == Exports!Carried
<1>1. \A f \in dir : Name(f) = Exports!Padded(f, listed)
  BY NothingCollides DEF Exports!CarriedName
<1>2. \A f, g \in dir : Name(f) = Name(g) => f = g
  BY <1>1, NothingCollides DEF Exports!Collides
<1>3. DOMAIN c = {Name(f) : f \in dir} /\ \A f \in dir : c[Name(f)] = f
  <2> DEFINE named == {<<Name(g), g>> : g \in dir}
             Names == {p[1] : p \in named}
             Held(n) == CHOOSE p \in named : p[1] = n
  <2>1. c = [name \in Names |-> Held(name)[2]]
    BY DEF Exports!Carried
  <2>2. ASSUME NEW f \in dir PROVE <<Name(f), f>> \in named /\ Name(f) \in Names
    <3> HIDE DEF Name
    <3>1. <<Name(f), f>> \in named
      OBVIOUS
    <3>2. <<Name(f), f>>[1] = Name(f)
      OBVIOUS
    <3> HIDE DEF named
    <3> QED
      BY <3>1, <3>2
  <2>3. ASSUME NEW n \in Names PROVE n \in {Name(f) : f \in dir}
    <3> HIDE DEF Name
    <3>1. PICK p \in named : n = p[1]
      <4> HIDE DEF named
      <4> QED
        OBVIOUS
    <3>2. PICK g \in dir : p = <<Name(g), g>>
      OBVIOUS
    <3> QED
      BY <3>1, <3>2
  <2>4. Names = {Name(f) : f \in dir}
    <3> HIDE DEF Name, Names
    <3> QED
      BY <2>2, <2>3
  <2>5. ASSUME NEW f \in dir PROVE Held(Name(f)) = <<Name(f), f>>
    <3>1. \A p \in named : p[1] = Name(f) => p = <<Name(f), f>>
      <4> HIDE DEF Name
      <4> QED
        BY <1>2
    <3>2. <<Name(f), f>> \in named /\ <<Name(f), f>>[1] = Name(f)
      BY <2>2
    <3> HIDE DEF Name, named
    <3> QED
      BY <3>1, <3>2
  <2>6. ASSUME NEW f \in dir PROVE c[Name(f)] = f
    <3>1. c[Name(f)] = Held(Name(f))[2]
      <4> HIDE DEF Name, Names, Held, c
      <4> QED
        BY <2>1, <2>2
    <3> HIDE DEF Name, Held, c
    <3> QED
      BY <3>1, <2>5
  <2>7. DOMAIN c = Names
    <3> HIDE DEF Names, Held, c
    <3> QED
      BY <2>1
  <2> HIDE DEF Name, Names, c
  <2> QED
    BY <2>4, <2>6, <2>7
<1>4. {c[name] : name \in DOMAIN c} = dir
  <2> HIDE DEF Name, c
  <2> QED
    BY <1>3
<1>5. Cardinality(DOMAIN c) = Cardinality(dir)
  <2> DEFINE b == [f \in dir |-> Name(f)]
  <2>1. b \in Bijection(dir, DOMAIN c)
    <3> HIDE DEF Name, c
    <3> QED
      BY <1>2, <1>3, Fun_IsBij
  <2>2. IsFiniteSet(dir)
    BY WrittenIsFinite, FS_Subset
  <2> HIDE DEF c
  <2> QED
    BY <2>1, <2>2, FS_Bijection DEF ExistsBijection
<1>6. \A S : Exports!Cardinality(S) = Cardinality(S)
  BY DEF Exports!Cardinality, Cardinality
<1>7. ASSUME NEW a \in Exports!UserFiles(DOMAIN c) PROVE a.digits = Exports!Width(listed)
  <2>1. PICK f \in dir : a = Exports!Padded(f, listed)
    BY <1>1, <1>3 DEF Exports!UserFiles
  <2>2. a.kind = "user"
    BY DEF Exports!UserFiles
  <2>3. f \in Exports!UserFiles(listed)
    BY <2>1, <2>2 DEF Exports!Padded, Exports!UserFiles
  <2>4. PICK x, n, d : f = Exports!UserFile(x, n, d)
    BY <2>3, WrittenIs, PagesHaveRecords DEF Exports!UserFiles
  <2>5. a.digits = Exports!Max({f.digits, Exports!Width(listed)})
    BY <2>1, <2>3, <2>4, PagesHaveRecords DEF Exports!Padded, Exports!UserFiles
  <2>6. f.digits \in Nat /\ Exports!Width(listed) \in Nat /\ f.digits <= Exports!Width(listed)
    BY <2>3, WidthBounds
  <2> DEFINE M == {f.digits, Exports!Width(listed)}
  <2>7. Exports!Max(M) \in M /\ \A y \in M : Exports!Max(M) >= y
    BY <2>6, LargestNatural
  <2> QED
    BY <2>5, <2>6, <2>7
<1> QED
  BY <1>4, <1>5, <1>6, <1>7

\* Every step keeps the invariant.
LEMMA ExportStep == ExportInv /\ [Exports!Next]_(Exports!vars) => ExportInv'
<1> SUFFICES ASSUME ExportInv, [Exports!Next]_(Exports!vars) PROVE ExportInv'
  OBVIOUS
<1> USE DEF ExportInv
<1>1. CASE Exports!DiscoverOptions
  <2>1. GrabsPayForAttempts'
    BY <1>1 DEF Exports!DiscoverOptions, GrabsPayForAttempts, PortsHeld, Exports!Allocated
  <2> QED
    BY <1>1, <2>1 DEF Exports!DiscoverOptions, RequestTyped, AttemptsAreCounted, EndsOnTheLast,
       DirIsWritten, Exports!GivesUpOnlyWhenItMust, Exports!StagedIsExported, Exports!Written,
       Exports!Pages, Exports!PageCount
<1>2. CASE Exports!Run
  <2>0. PICK said \in Exports!Endings : \E some \in Exports!LeftBy(said) :
          /\ dir' = dir \cup some
          /\ IF Exports!MayTryAgain(said) THEN Exports!Reallocate(said)
             ELSE /\ try' = [try EXCEPT !.ended = said]
                  /\ phase' = IF said = "ok" THEN "read" ELSE "failed"
    BY <1>2 DEF Exports!Run
  <2>1. PICK some \in Exports!LeftBy(said) :
          /\ dir' = dir \cup some
          /\ IF Exports!MayTryAgain(said) THEN Exports!Reallocate(said)
             ELSE /\ try' = [try EXCEPT !.ended = said]
                  /\ phase' = IF said = "ok" THEN "read" ELSE "failed"
    BY <2>0
  <2>2. phase = "run" /\ UNCHANGED <<host, taken, req, known, listed, grabs>>
    BY <1>2 DEF Exports!Run
  <2>3. said \in Endings /\ some \subseteq Exports!Written
    BY DEF Exports!Endings, Exports!LeftBy, Endings
  <2>4. /\ try.attempt \in 1..maxExportAttempts /\ try.ports \in 0..maxExportAttempts
        /\ maxExportAttempts \in Nat /\ grabs \in Nat
    BY TargetsAssumption DEF AttemptsAreCounted, GrabsPayForAttempts
  <2>5. said = "conflict" /\ Exports!MovesThemAll => grabs >= try.attempt
    <3> SUFFICES ASSUME said = "conflict", Exports!MovesThemAll PROVE PortsHeld(try.ports)
      BY <2>2 DEF GrabsPayForAttempts, Exports!MovesThemAll
    <3>1. PICK o \in host.binds : Exports!PortOf(o) \in taken
      BY DEF Exports!Endings, Exports!Conflicts
    <3>2. o \in known /\ o \in Options
      BY DEF Exports!MovesThemAll, GrabsPayForAttempts
    <3> QED
      BY <3>1, <3>2 DEF Exports!PortOf, Exports!PortArgs, PortsHeld
  <2>6. CASE Exports!MayTryAgain(said)
    <3>1. said = "conflict" /\ try.attempt + 1 \in 1..maxExportAttempts
      BY <2>4, <2>6 DEF Exports!MayTryAgain
    <3>2. ASSUME try' = [try EXCEPT !.ended = "no ports"], phase' = "failed"
          PROVE  AttemptsAreCounted' /\ GrabsPayForAttempts' /\ EndsOnTheLast'
      <4>1. AttemptsAreCounted' /\ try'.ended = "no ports"
        BY <3>2 DEF AttemptsAreCounted, Endings
      <4>2. GrabsPayForAttempts'
        BY <2>2, <3>2 DEF GrabsPayForAttempts
      <4>3. "no ports" # "conflict" /\ phase' = "failed"
        BY <3>2
      <4>4. EndsOnTheLast'
        BY <4>1, <4>3 DEF EndsOnTheLast, Exports!GivesUpOnlyWhenItMust
      <4> QED
        BY <4>1, <4>2, <4>4
    <3>3. ASSUME NEW k \in Exports!NextPorts, phase' = "run",
                 try' = [attempt |-> try.attempt + 1, ports |-> k, ended |-> said]
          PROVE  AttemptsAreCounted' /\ GrabsPayForAttempts' /\ EndsOnTheLast'
      <4>1. AttemptsAreCounted' /\ EndsOnTheLast'
        BY <2>3, <3>1, <3>3 DEF AttemptsAreCounted, EndsOnTheLast, Exports!NextPorts,
           Exports!GivesUpOnlyWhenItMust
      <4>2. ~host.remote => ~PortsHeld(k)
        BY DEF Exports!NextPorts, PortsHeld
      <4>3. Exports!MovesThemAll => grabs >= try'.attempt - 1
        BY <2>4, <2>5, <3>1, <3>3
      <4>4. PortsHeld(try.ports)' = PortsHeld(k)
        BY <2>2, <3>3 DEF PortsHeld, Exports!Allocated
      <4>5. GrabsPayForAttempts'
        <5> SUFFICES ASSUME phase' \in {"discover", "run"}, ~host.remote,
                            phase' = "run" => host.binds \subseteq known
                     PROVE  grabs >= try'.attempt - 1 /\ ~PortsHeld(try.ports)'
          BY <2>2, <2>4 DEF GrabsPayForAttempts
        <5> QED
          BY <3>3, <4>2, <4>3, <4>4 DEF Exports!MovesThemAll
      <4> QED
        BY <4>1, <4>5
    <3>4. AttemptsAreCounted' /\ GrabsPayForAttempts' /\ EndsOnTheLast'
      <4>1. Exports!Reallocate(said)
        BY <2>1, <2>6
      <4> QED
        BY <3>2, <3>3, <4>1 DEF Exports!Reallocate
    <3>5. phase' \in {"run", "failed"}
      BY <2>1, <2>6 DEF Exports!Reallocate
    <3> QED
      BY <2>1, <2>2, <2>3, <3>4, <3>5 DEF RequestTyped, DirIsWritten, Exports!StagedIsExported,
         Exports!Written, Exports!Pages, Exports!PageCount
  <2>7. CASE ~Exports!MayTryAgain(said)
    <3>1. /\ try' = [try EXCEPT !.ended = said]
          /\ phase' = IF said = "ok" THEN "read" ELSE "failed"
      BY <2>1, <2>7
    <3>2. AttemptsAreCounted' /\ GrabsPayForAttempts'
      BY <2>2, <2>3, <3>1 DEF AttemptsAreCounted, GrabsPayForAttempts
    <3>3. try'.attempt = try.attempt /\ try'.ended = said
      BY <3>1 DEF AttemptsAreCounted
    <3>4. said = "conflict" => known = {} \/ try.attempt = maxExportAttempts
      BY <2>4, <2>7 DEF Exports!MayTryAgain, Exports!PortArgs
    <3>5. EndsOnTheLast'
      <4>1. Exports!GivesUpOnlyWhenItMust'
        BY <2>2, <2>5, <3>3, <3>4 DEF Exports!GivesUpOnlyWhenItMust, Exports!MovesThemAll
      <4> QED
        BY <3>1, <3>3, <4>1 DEF EndsOnTheLast
    <3> QED
      BY <2>1, <2>2, <2>3, <3>1, <3>2, <3>5 DEF RequestTyped, DirIsWritten,
         Exports!StagedIsExported, Exports!Written, Exports!Pages, Exports!PageCount
  <2> QED
    BY <2>6, <2>7
<1>3. CASE Exports!ReadLayout
  <2>1. /\ phase = "read" /\ phase' \in {"fetch", "failed"}
        /\ UNCHANGED <<host, taken, req, known, try, dir, staged, grabs>>
    BY <1>3 DEF Exports!ReadLayout
  <2>2. GrabsPayForAttempts'
    BY <2>1 DEF GrabsPayForAttempts
  <2> QED
    BY <1>3, <2>1, <2>2 DEF Exports!ReadLayout, RequestTyped, AttemptsAreCounted, EndsOnTheLast,
       DirIsWritten, Exports!GivesUpOnlyWhenItMust, Exports!StagedIsExported, Exports!Written,
       Exports!Pages, Exports!PageCount
<1>4. CASE Exports!Fetch
  <2>1. phase = "fetch" /\ UNCHANGED <<host, taken, req, known, try, dir, listed, grabs>>
    BY <1>4 DEF Exports!Fetch
  <2>2. (staged' = Exports!Carried /\ phase' = "staged") \/ phase' = "failed"
    BY <1>4 DEF Exports!Fetch
  <2>3. Exports!StagedIsExported'
    <3>1. CASE phase' = "failed"
      BY <3>1 DEF Exports!StagedIsExported
    <3>2. CASE staged' = Exports!Carried /\ phase' = "staged"
      BY <2>1, <3>2, CarriedIsTheDirectory DEF Exports!StagedIsExported, DirIsWritten,
         Exports!UserFiles
    <3> QED
      BY <2>2, <3>1, <3>2
  <2>4. RequestTyped' /\ AttemptsAreCounted' /\ DirIsWritten' /\ GrabsPayForAttempts'
    BY <2>1, <2>2 DEF RequestTyped, AttemptsAreCounted, DirIsWritten, GrabsPayForAttempts,
       Exports!Written, Exports!Pages, Exports!PageCount
  <2>5. EndsOnTheLast'
    BY <2>1, <2>2 DEF EndsOnTheLast, Exports!GivesUpOnlyWhenItMust
  <2> QED
    BY <2>3, <2>4, <2>5
<1>5. ASSUME NEW port \in Exports!Ports, Exports!Grab(port) PROVE ExportInv'
  <2>1. /\ phase \in {"discover", "run"} /\ grabs' = grabs + 1
        /\ UNCHANGED <<host, req, known, try, dir, listed, staged, phase>>
    BY <1>5 DEF Exports!Grab
  <2>2. GrabsPayForAttempts'
    <3>1. grabs \in Nat /\ try.attempt \in Nat
      BY TargetsAssumption DEF AttemptsAreCounted, GrabsPayForAttempts
    <3> QED
      BY <2>1, <3>1 DEF GrabsPayForAttempts
  <2> QED
    BY <2>1, <2>2 DEF RequestTyped, AttemptsAreCounted, EndsOnTheLast,
       DirIsWritten, Exports!GivesUpOnlyWhenItMust, Exports!StagedIsExported, Exports!Written,
       Exports!Pages, Exports!PageCount
<1>6. CASE Exports!SeesCancel
  <2>1. /\ phase' = "failed" /\ try' = [try EXCEPT !.ended = "cancelled"]
        /\ UNCHANGED <<host, taken, req, known, dir, listed, staged, grabs>>
    BY <1>6 DEF Exports!SeesCancel
  <2> QED
    BY <2>1 DEF RequestTyped, AttemptsAreCounted, GrabsPayForAttempts, EndsOnTheLast, Endings,
       DirIsWritten, Exports!GivesUpOnlyWhenItMust, Exports!StagedIsExported, Exports!Written,
       Exports!Pages, Exports!PageCount
<1>7. CASE UNCHANGED Exports!vars
  BY <1>7 DEF Exports!vars, RequestTyped, AttemptsAreCounted, GrabsPayForAttempts, PortsHeld,
     EndsOnTheLast, DirIsWritten, Exports!GivesUpOnlyWhenItMust, Exports!MovesThemAll,
     Exports!StagedIsExported, Exports!Written, Exports!Pages, Exports!PageCount
<1> QED
  BY <1>1, <1>2, <1>3, <1>4, <1>5, <1>6, <1>7 DEF Exports!Next

\* The invariant holds always.
LEMMA ExportSafe == Spec => []ExportInv
<1>1. Init => ExportInv
  BY ExportStarts DEF Init, Exports!Init
<1>2. [Next]_vars => [Exports!Next]_(Exports!vars)
  BY DEF Next, vars, exportVars, Exports!vars
<1> QED
  BY <1>1, <1>2, ExportStep, PTL DEF Spec

(***************************************************************************)
(* An export that gives up over a taken port had no port to move, or was at*)
(* its last attempt: and when it can move, on this machine, every port that*)
(* kc.sh binds, somebody took one from it as often as it tried.            *)
(***************************************************************************)
THEOREM GivesUpLast == Spec => []GivesUpOnlyWhenItMust
<1>1. ExportInv => GivesUpOnlyWhenItMust
  BY DEF ExportInv, EndsOnTheLast, GivesUpOnlyWhenItMust
<1> QED
  BY <1>1, ExportSafe, PTL

(***************************************************************************)
(* Every file kc.sh wrote is staged, none under another's name, and the    *)
(* page numbers of a prefix are equally wide: for any number of users, any *)
(* page size, any base and any digits to pad to.                           *)
(***************************************************************************)
THEOREM ExportIsStaged == Spec => []StagedIsExported
<1>1. ExportInv => StagedIsExported
  BY DEF ExportInv, StagedIsExported
<1> QED
  BY <1>1, ExportSafe, PTL

-----------------------------------------------------------------------------
(***************************************************************************)
(* The probe.                                                              *)
(***************************************************************************)

\* The verbs, and the questions put to a cluster, one by one.
LEMMA RequiredVerbs ==
  Probing!Verbs = {"get pods", "list pods", "create pods", "delete pods", "create pods/exec"}
<1> DEFINE v == <<"get pods", "list pods", "create pods", "delete pods", "create pods/exec">>
<1>1. DOMAIN v = 1..5 /\ v[1] = "get pods" /\ v[2] = "list pods" /\ v[3] = "create pods"
      /\ v[4] = "delete pods" /\ v[5] = "create pods/exec"
  OBVIOUS
<1>2. Probing!Verbs = {v[i] : i \in 1..5}
  BY <1>1 DEF Probing!Verbs, Probing!requiredVerbs, Probing!Range
<1>3. 1..5 = {1, 2, 3, 4, 5}
  OBVIOUS
<1> HIDE DEF v
<1> QED
  BY <1>1, <1>2, <1>3, Zenon

\* Tuples of members of a set are sequences of them.
LEMMA Tuples ==
  ASSUME NEW S
  PROVE  /\ \A a, b, c \in S : <<a, b, c>> \in Seq(S)
         /\ \A a, b, c, d \in S : <<a, b, c, d>> \in Seq(S)
         /\ \A a, b, c, d, e \in S : <<a, b, c, d, e>> \in Seq(S)
OBVIOUS

\* The positions of a tuple.
LEMMA TupleDomains ==
  /\ \A a, b, c, d : DOMAIN <<a, b, c, d>> = 1..4
  /\ \A a, b, c, d, e : DOMAIN <<a, b, c, d, e>> = 1..5
  /\ \A a, b, c, d, e, f : DOMAIN <<a, b, c, d, e, f>> = 1..6
OBVIOUS

\* Two sequences, one after the other.
LEMMA Joined ==
  ASSUME NEW S, NEW s \in Seq(S), NEW t \in Seq(S)
  PROVE  /\ s \o t \in Seq(S) /\ Len(s \o t) = Len(s) + Len(t)
         /\ \A i \in 1..(Len(s) + Len(t)) : (s \o t)[i] = IF i <= Len(s) THEN s[i] ELSE t[i - Len(s)]
BY ConcatProperties, Zenon

\* The questions put to a cluster, one by one.
LEMMA ClusterQuestions ==
  LET q == Probing!OfACluster
  IN  /\ Len(q) = 12 /\ DOMAIN q = 1..12
      /\ q[1] = "Cluster" /\ q[2] = "Namespace" /\ q[3] = "Workload" /\ q[4] = "Container"
      /\ q[5] = "get pods" /\ q[6] = "list pods" /\ q[7] = "create pods" /\ q[8] = "delete pods"
      /\ q[9] = "create pods/exec" /\ q[10] = "RBAC" /\ q[11] = "Ephemeral clone"
      /\ q[12] = "Keycloak version"
<1> DEFINE S == {"Cluster", "Namespace", "Workload", "Container", "get pods", "list pods",
                 "create pods", "delete pods", "create pods/exec", "RBAC", "Ephemeral clone",
                 "Keycloak version"}
           a == <<"Cluster", "Namespace", "Workload", "Container">>
           v == <<"get pods", "list pods", "create pods", "delete pods", "create pods/exec">>
           z == <<"RBAC", "Ephemeral clone", "Keycloak version">>
           av == a \o v
           q == av \o z
<1>1. a \in Seq(S) /\ v \in Seq(S) /\ z \in Seq(S)
  <2>1. \A name \in {"Cluster", "Namespace", "Workload", "Container", "get pods", "list pods",
                    "create pods", "delete pods", "create pods/exec", "RBAC", "Ephemeral clone",
                    "Keycloak version"} : name \in S
    OBVIOUS
  <2> HIDE DEF S
  <2> QED
    BY <2>1, Tuples, Zenon
<1>2. a[1] = "Cluster" /\ a[2] = "Namespace" /\ a[3] = "Workload" /\ a[4] = "Container"
  OBVIOUS
<1>3. v[1] = "get pods" /\ v[2] = "list pods" /\ v[3] = "create pods"
      /\ v[4] = "delete pods" /\ v[5] = "create pods/exec"
  OBVIOUS
<1>4. z[1] = "RBAC" /\ z[2] = "Ephemeral clone" /\ z[3] = "Keycloak version"
  OBVIOUS
<1>5. Len(a) = 4 /\ Len(v) = 5 /\ Len(z) = 3
  OBVIOUS
<1>6. Probing!OfACluster = q
  BY DEF Probing!OfACluster, Probing!requiredVerbs
<1> HIDE DEF S, a, v, z
<1>7. /\ av \in Seq(S) /\ Len(av) = Len(a) + Len(v)
      /\ \A i \in 1..(Len(a) + Len(v)) : av[i] = IF i <= Len(a) THEN a[i] ELSE v[i - Len(a)]
  BY <1>1, Joined, Zenon
<1> HIDE DEF av
<1> av \in Seq(S) /\ z \in Seq(S)
  BY <1>1, <1>7
<1>8. /\ q \in Seq(S) /\ Len(q) = Len(av) + Len(z)
      /\ \A i \in 1..(Len(av) + Len(z)) : q[i] = IF i <= Len(av) THEN av[i] ELSE z[i - Len(av)]
  BY Joined, Zenon
<1> HIDE DEF q
<1>9. Len(q) = 12 /\ DOMAIN q = 1..12
  BY <1>5, <1>7, <1>8, LenProperties
<1>10. /\ av[1] = a[1] /\ av[2] = a[2] /\ av[3] = a[3] /\ av[4] = a[4]
       /\ av[5] = v[1] /\ av[6] = v[2] /\ av[7] = v[3] /\ av[8] = v[4] /\ av[9] = v[5]
  BY <1>5, <1>7
<1>11. /\ q[1] = av[1] /\ q[2] = av[2] /\ q[3] = av[3] /\ q[4] = av[4] /\ q[5] = av[5]
       /\ q[6] = av[6] /\ q[7] = av[7] /\ q[8] = av[8] /\ q[9] = av[9]
       /\ q[10] = z[1] /\ q[11] = z[2] /\ q[12] = z[3]
  BY <1>5, <1>7, <1>8
<1> QED
  BY <1>2, <1>3, <1>4, <1>6, <1>9, <1>10, <1>11, Zenon

\* Of the questions of any kind: the first is plain, the verbs come before the verdict
\* on them, and only a cluster is asked for verbs.
AskedInOrder ==
  LET q == Probing!Questions
  IN  /\ Len(q) \in Nat \ {0} /\ DOMAIN q = 1..Len(q)
      /\ q[1] \notin Probing!Verbs \cup Probing!Optional \cup {"RBAC", "Namespace"}
      /\ probed = "k8s" => q[1] # "Ephemeral clone"
      /\ \A i, j \in 1..Len(q) : q[i] \in Probing!Verbs /\ q[j] = "RBAC" => i < j
      /\ (\E i \in 1..Len(q) : q[i] \in Probing!Verbs) => \E j \in 1..Len(q) : q[j] = "RBAC"

\* Every kind of environment is asked in such an order.
LEMMA ProbeAsks == probed \in AllKinds => AskedInOrder
<1> SUFFICES ASSUME probed \in AllKinds PROVE AskedInOrder
  OBVIOUS
<1> DEFINE q == Probing!Questions
<1>1. CASE probed = "k8s"
  <2>1. q = Probing!OfACluster
    BY <1>1 DEF Probing!Questions
  <2>0. Len(q) = 12 /\ DOMAIN q = 1..12
    BY <2>1, ClusterQuestions, Zenon
  <2>2. /\ Len(q) = 12 /\ DOMAIN q = 1..12
        /\ q[1] = "Cluster" /\ q[2] = "Namespace" /\ q[3] = "Workload" /\ q[4] = "Container"
        /\ q[5] = "get pods" /\ q[6] = "list pods" /\ q[7] = "create pods" /\ q[8] = "delete pods"
        /\ q[9] = "create pods/exec" /\ q[10] = "RBAC" /\ q[11] = "Ephemeral clone"
        /\ q[12] = "Keycloak version"
    BY <2>1, ClusterQuestions, Zenon
  <2> HIDE DEF q
  <2>3. \A i \in 1..12 : q[i] \in Probing!Verbs => i \in 5..9
    <3>1. /\ q[1] \notin Probing!Verbs /\ q[2] \notin Probing!Verbs /\ q[3] \notin Probing!Verbs
          /\ q[4] \notin Probing!Verbs /\ q[10] \notin Probing!Verbs
          /\ q[11] \notin Probing!Verbs /\ q[12] \notin Probing!Verbs
      BY <2>2, RequiredVerbs
    <3> HIDE DEF q
    <3> QED
      BY <3>1
  <2>4. \A i \in 1..12 : q[i] = "RBAC" => i = 10
    <3>1. /\ q[1] # "RBAC" /\ q[2] # "RBAC" /\ q[3] # "RBAC" /\ q[4] # "RBAC" /\ q[5] # "RBAC"
          /\ q[6] # "RBAC" /\ q[7] # "RBAC" /\ q[8] # "RBAC" /\ q[9] # "RBAC"
          /\ q[11] # "RBAC" /\ q[12] # "RBAC"
      BY <2>2
    <3> DEFINE v == "RBAC"
    <3> HIDE DEF q, v
    <3>2. \A i \in 1..12 : q[i] = v => i = 10
      BY <3>1 DEF v
    <3> QED
      BY <3>2 DEF v
  <2>5. q[1] \notin Probing!Verbs \cup Probing!Optional \cup {"RBAC", "Namespace"}
    BY <2>2, RequiredVerbs DEF Probing!Optional
  <2>6. \A i, j \in 1..Len(q) : q[i] \in Probing!Verbs /\ q[j] = "RBAC" => i < j
    <3>1. ASSUME NEW i \in 1..Len(q), NEW j \in 1..Len(q), q[i] \in Probing!Verbs, q[j] = "RBAC"
          PROVE  i \in 5..9 /\ j = 10
      BY <3>1, <2>2, <2>3, <2>4
    <3> QED
      BY <3>1
  <2>7. Len(q) \in Nat \ {0} /\ DOMAIN q = 1..Len(q) /\ 10 \in 1..Len(q)
    BY <2>0
  <2> QED
    BY <2>2, <2>5, <2>6, <2>7 DEF AskedInOrder, q
<1>2. CASE probed = "docker"
  <2>1. q = <<"Docker endpoint", "Serving container", "Ephemeral clone", "Keycloak version">>
    BY <1>2 DEF Probing!Questions, Probing!OfDocker
  <2>2. Len(q) = 4 /\ DOMAIN q = 1..4
    <3>1. Len(q) = 4
      BY <2>1
    <3>2. DOMAIN q = 1..4
      BY <2>1, TupleDomains, Zenon
    <3> QED
      BY <3>1, <3>2
  <2>3. /\ q[1] = "Docker endpoint" /\ q[2] = "Serving container" /\ q[3] = "Ephemeral clone"
        /\ q[4] = "Keycloak version"
    BY <2>1
  <2> HIDE DEF q
  <2>4. \A i \in 1..4 : q[i] \notin Probing!Verbs
    <3>1. q[1] \notin Probing!Verbs /\ q[2] \notin Probing!Verbs /\ q[3] \notin Probing!Verbs
          /\ q[4] \notin Probing!Verbs
      BY <2>3, RequiredVerbs
    <3> QED
      BY <3>1
  <2>5. q[1] \notin Probing!Optional \cup {"RBAC", "Namespace"}
    BY <2>3 DEF Probing!Optional
  <2>6. 1 \in 1..Len(q) /\ Len(q) \in Nat \ {0} /\ DOMAIN q = 1..Len(q)
    BY <2>2
  <2> QED
    BY <1>2, <2>2, <2>4, <2>5, <2>6 DEF AskedInOrder, q
<1>3. CASE probed = "ssh"
  <2>1. q = <<"Connection", "kc.sh", "sudo", "Keycloak version", "Free space", "Free ports">>
    BY <1>3 DEF Probing!Questions, Probing!OverSSH
  <2>2. Len(q) = 6 /\ DOMAIN q = 1..6
    <3>1. Len(q) = 6
      BY <2>1
    <3>2. DOMAIN q = 1..6
      BY <2>1, TupleDomains, Zenon
    <3> QED
      BY <3>1, <3>2
  <2>3. /\ q[1] = "Connection" /\ q[2] = "kc.sh" /\ q[3] = "sudo"
        /\ q[4] = "Keycloak version" /\ q[5] = "Free space" /\ q[6] = "Free ports"
    BY <2>1
  <2> HIDE DEF q
  <2>4. \A i \in 1..6 : q[i] \notin Probing!Verbs
    <3>1. q[1] \notin Probing!Verbs /\ q[2] \notin Probing!Verbs /\ q[3] \notin Probing!Verbs
          /\ q[4] \notin Probing!Verbs /\ q[5] \notin Probing!Verbs /\ q[6] \notin Probing!Verbs
      BY <2>3, RequiredVerbs
    <3> QED
      BY <3>1
  <2>5. q[1] \notin Probing!Optional \cup {"RBAC", "Namespace"}
    BY <2>3 DEF Probing!Optional
  <2>6. 1 \in 1..Len(q) /\ Len(q) \in Nat \ {0} /\ DOMAIN q = 1..Len(q)
    BY <2>2
  <2> QED
    BY <1>3, <2>2, <2>4, <2>5, <2>6 DEF AskedInOrder, q
<1>4. CASE probed = "local"
  <2>1. q = <<"Server folder", "kc.sh", "Keycloak version", "Free space", "Free ports">>
    BY <1>4 DEF Probing!Questions, Probing!Here
  <2>2. Len(q) = 5 /\ DOMAIN q = 1..5
    <3>1. Len(q) = 5
      BY <2>1
    <3>2. DOMAIN q = 1..5
      BY <2>1, TupleDomains, Zenon
    <3> QED
      BY <3>1, <3>2
  <2>3. /\ q[1] = "Server folder" /\ q[2] = "kc.sh" /\ q[3] = "Keycloak version"
        /\ q[4] = "Free space" /\ q[5] = "Free ports"
    BY <2>1
  <2> HIDE DEF q
  <2>4. \A i \in 1..5 : q[i] \notin Probing!Verbs
    <3>1. q[1] \notin Probing!Verbs /\ q[2] \notin Probing!Verbs /\ q[3] \notin Probing!Verbs
          /\ q[4] \notin Probing!Verbs /\ q[5] \notin Probing!Verbs
      BY <2>3, RequiredVerbs
    <3> QED
      BY <3>1
  <2>5. q[1] \notin Probing!Optional \cup {"RBAC", "Namespace"}
    BY <2>3 DEF Probing!Optional
  <2>6. 1 \in 1..Len(q) /\ Len(q) \in Nat \ {0} /\ DOMAIN q = 1..Len(q)
    BY <2>2
  <2> QED
    BY <1>4, <2>2, <2>4, <2>5, <2>6 DEF AskedInOrder, q
<1> QED
  BY <1>1, <1>2, <1>3, <1>4 DEF AllKinds

ProbeFailed == \E check \in checks : check[2] = "fail"

\* What the questions before the next one came to, when each got its answer.
SoFar ==
  \A i \in 1..Len(Probing!Questions) : i < at =>
    LET name == Probing!Questions[i]
    IN  /\ name \in Probing!Needed \ Probing!Verbs => name \in world
        /\ name \in Probing!Verbs \ world => name \in missing
        /\ name = "RBAC" => missing = {}

ProbeGoesBy ==
  unanswered = 0 /\ "override" \notin world =>
    /\ ProbeFailed => at = Probing!Over /\ ~(Probing!Needed \subseteq world)
    /\ ~ProbeFailed => SoFar /\ (at > 1 => <<Probing!Questions[1], "pass">> \in checks)
    /\ missing \subseteq Probing!Needed \ world

ProbeInv ==
  /\ probed \in AllKinds /\ at \in 1..Probing!Over /\ missing \subseteq Probing!Verbs
  /\ unanswered \in Nat
  /\ ProbeGoesBy

\* Nothing is asked at first.
LEMMA ProbeStarts ==
  ASSUME NEW k \in AllKinds, Probing!Starts(k)
  PROVE  ProbeInv
<1> USE DEF Probing!Starts
<1>1. probed \in AllKinds /\ AskedInOrder
  BY ProbeAsks
<1>2. at = 1 /\ Len(Probing!Questions) \in Nat \ {0}
  BY <1>1 DEF AskedInOrder
<1>3. SoFar
  BY <1>2 DEF SoFar
<1>4. ~ProbeFailed
  BY DEF ProbeFailed
<1> QED
  BY <1>1, <1>2, <1>3, <1>4 DEF ProbeInv, ProbeGoesBy, Probing!Over

\* Where the verdicts are not overridden, every question but two is needed.
LEMMA NeededAre ==
  ASSUME "override" \notin world
  PROVE  Probing!Needed = Probing!Range(Probing!Questions) \ (Probing!Optional \cup {"RBAC"})
BY DEF Probing!Needed

\* A question that is no verdict and got its answer: it goes on if the thing is so, and
\* otherwise only if it is optional; a verb goes on and is missing.
LEMMA ProbeStep == ProbeInv /\ [Probing!Next]_(Probing!vars) => ProbeInv'
<1> SUFFICES ASSUME ProbeInv, [Probing!Next]_(Probing!vars) PROVE ProbeInv'
  OBVIOUS
<1> DEFINE q == Probing!Questions
           name == Probing!Question
<1>1. CASE UNCHANGED Probing!vars
  BY <1>1 DEF Probing!vars, ProbeInv, ProbeGoesBy, ProbeFailed, SoFar, Probing!Over,
     Probing!Questions, Probing!Needed, Probing!Overrides
<1>2. CASE Probing!Probe
  <2>1. /\ UNCHANGED <<probed, world>> /\ at < Probing!Over
        /\ q' = q /\ Probing!Over' = Probing!Over /\ Probing!Needed' = Probing!Needed
    BY <1>2 DEF Probing!Probe, Probing!Questions, Probing!Over, Probing!Needed
  <2>2. AskedInOrder
    BY ProbeAsks DEF ProbeInv
  <2>3. /\ Len(q) \in Nat \ {0} /\ at \in 1..Len(q) /\ DOMAIN q = 1..Len(q)
        /\ Probing!Over = Len(q) + 1
    <3>1. Len(q) \in Nat \ {0} /\ DOMAIN q = 1..Len(q)
      BY <2>2 DEF AskedInOrder
    <3>2. Probing!Over = Len(q) + 1
      BY DEF Probing!Over
    <3>3. at \in 1..Probing!Over /\ at < Probing!Over
      BY <2>1 DEF ProbeInv
    <3> HIDE DEF q
    <3>4. at \in 1..Len(q)
      BY <3>1, <3>2, <3>3
    <3> QED
      BY <3>1, <3>2, <3>4
  <2>4. name = q[at] /\ name \in Probing!Range(q)
    BY <2>3 DEF Probing!Question, Probing!Range
  <2>5. at' \in 1..Probing!Over' /\ missing' \subseteq Probing!Verbs' /\ unanswered' \in Nat
    <3>1. missing' \subseteq Probing!Verbs'
      BY <1>2 DEF ProbeInv, Probing!Probe, Probing!Passes, Probing!Blocks, Probing!IsOptional,
         Probing!Namespace, Probing!Verb, Probing!RBAC, Probing!Quota, Probing!Verbs
    <3>2. unanswered' \in Nat
      <4>1. unanswered' = unanswered \/ unanswered' = unanswered + 1
        BY <1>2 DEF Probing!Probe, Probing!Passes, Probing!Blocks, Probing!IsOptional,
           Probing!Namespace, Probing!Verb, Probing!RBAC, Probing!Quota, Probing!Answered,
           Probing!NoAnswer
      <4> QED
        BY <4>1 DEF ProbeInv
    <3>3. at' = at + 1 \/ at' = Probing!Over \/ at' = CHOOSE i \in DOMAIN q : q[i] = "RBAC"
      BY <1>2 DEF Probing!Probe, Probing!Passes, Probing!Blocks, Probing!IsOptional,
         Probing!Namespace, Probing!Verb, Probing!RBAC, Probing!Quota, Probing!GoesOn,
         Probing!Ends
    <3>4. name \in Probing!Verbs => (CHOOSE i \in DOMAIN q : q[i] = "RBAC") \in DOMAIN q
      BY <2>2, <2>3, <2>4 DEF AskedInOrder
    <3>5. at' # at + 1 /\ at' # Probing!Over => name \in Probing!Verbs
      BY <1>2, <3>3 DEF Probing!Probe, Probing!Passes, Probing!Blocks, Probing!IsOptional,
         Probing!Namespace, Probing!Verb, Probing!RBAC, Probing!Quota, Probing!GoesOn,
         Probing!Ends
    <3>6. at' \in 1..Probing!Over
      <4> DEFINE verdict == CHOOSE i \in DOMAIN q : q[i] = "RBAC"
      <4>1. name \in Probing!Verbs => verdict \in 1..Len(q)
        BY <2>3, <3>4
      <4>2. at' = at + 1 \/ at' = Probing!Over \/ at' \in 1..Len(q)
        BY <3>3, <3>5, <4>1
      <4> HIDE DEF q
      <4> QED
        BY <2>3, <4>2
    <3> QED
      BY <2>1, <3>1, <3>2, <3>6
  <2>6. ASSUME unanswered' = 0, "override" \notin world PROVE ProbeGoesBy'
    <3> DEFINE Says(status) == checks' = checks \cup {<<name, status>>}
               GoesOn == at' = at + 1
               Ends == at' = Probing!Over
               Same == UNCHANGED missing
    <3>1. \/ name \in world /\ name \notin Probing!Verbs \cup {"RBAC"} /\ Says("pass") /\ GoesOn /\ Same
          \/ name \notin world /\ name \in Probing!Needed /\ Says("fail") /\ Ends /\ Same
          \/ name \in Probing!Optional /\ (Says("warn") \/ Says("skipped")) /\ GoesOn /\ Same
          \/ name \in Probing!Verbs \cap world /\ UNCHANGED <<missing, checks>> /\ GoesOn
          \/ /\ name \in Probing!Verbs \ world /\ missing' = missing \cup {name} /\ GoesOn
             /\ UNCHANGED checks
          \/ name = "RBAC" /\ missing = {} /\ Says("pass") /\ GoesOn /\ Same
          \/ name = "RBAC" /\ missing # {} /\ Says("fail") /\ Ends /\ Same
      <4> USE DEF Probing!Says, Probing!GoesOn, Probing!Ends
      <4>1. ~Probing!NoAnswer
        BY <2>6 DEF Probing!NoAnswer, ProbeInv
      <4>2. CASE Probing!Passes
        BY <4>2 DEF Probing!Passes, Probing!Answered
      <4>3. CASE Probing!Blocks
        BY <2>4, <2>6, <4>1, <4>3, NeededAre DEF Probing!Blocks, Probing!Plain, Probing!Answered
      <4>4. CASE Probing!IsOptional
        BY <4>1, <4>4 DEF Probing!IsOptional
      <4>5. CASE Probing!Namespace
        BY <2>4, <2>6, <4>1, <4>5, NeededAre DEF Probing!Namespace, Probing!Answered, Probing!Optional
      <4>6. CASE Probing!Verb
        BY <4>1, <4>6 DEF Probing!Verb, Probing!Answered
      <4>7. CASE Probing!RBAC
        BY <4>7 DEF Probing!RBAC
      <4>8. CASE Probing!Quota
        BY <2>4, <2>6, <4>1, <4>8, NeededAre DEF Probing!Quota, Probing!Answered, Probing!Optional
      <4> QED
        BY <1>2, <4>2, <4>3, <4>4, <4>5, <4>6, <4>7, <4>8 DEF Probing!Probe
    <3>2. /\ unanswered = 0 /\ ~ProbeFailed /\ SoFar /\ missing \subseteq Probing!Needed \ world
          /\ at > 1 => <<q[1], "pass">> \in checks
      <4>1. unanswered = 0
        <5>1. unanswered' = unanswered \/ unanswered' = unanswered + 1
          BY <1>2 DEF Probing!Probe, Probing!Passes, Probing!Blocks, Probing!IsOptional,
             Probing!Namespace, Probing!Verb, Probing!RBAC, Probing!Quota, Probing!Answered,
             Probing!NoAnswer
        <5> QED
          BY <2>6, <5>1 DEF ProbeInv
      <4>2. at # Probing!Over
        BY <2>3
      <4> QED
        BY <2>6, <4>1, <4>2 DEF ProbeInv, ProbeGoesBy
    <3>3. ASSUME GoesOn, ~ProbeFailed', missing \subseteq missing',
                 missing' \subseteq Probing!Needed \ world, missing' # missing => name \in Probing!Verbs,
                 checks \subseteq checks', at = 1 => <<q[1], "pass">> \in checks',
                 name \in Probing!Needed \ Probing!Verbs => name \in world,
                 name \in Probing!Verbs \ world => name \in missing',
                 name = "RBAC" => missing' = {}
          PROVE  ProbeGoesBy'
      <4>1. ASSUME NEW i \in 1..Len(q), i < at'
            PROVE  /\ q[i] \in Probing!Needed \ Probing!Verbs => q[i] \in world
                   /\ q[i] \in Probing!Verbs \ world => q[i] \in missing'
                   /\ q[i] = "RBAC" => missing' = {}
        <5>1. CASE i = at
          BY <2>4, <3>3, <5>1
        <5>2. CASE i # at
          <6>1. i < at
            BY <2>3, <3>3, <4>1, <5>2
          <6>2. q[i] = "RBAC" => name \notin Probing!Verbs
            <7>1. q[at] \in Probing!Verbs /\ q[i] = "RBAC" => at < i
              BY <2>2, <2>3, <4>1 DEF AskedInOrder
            <7>2. ~(at < i)
              BY <2>3, <6>1
            <7> QED
              BY <2>4, <7>1, <7>2
          <6> QED
            BY <3>2, <3>3, <6>1, <6>2 DEF SoFar
        <5> QED
          BY <5>1, <5>2
      <4>2. SoFar'
        BY <2>1, <4>1 DEF SoFar, Probing!Verbs
      <4>3. <<q[1], "pass">> \in checks'
        BY <2>3, <3>2, <3>3
      <4> QED
        BY <2>1, <3>3, <4>2, <4>3 DEF ProbeGoesBy
    <3>4. ASSUME Ends, ProbeFailed', Same, ~(Probing!Needed \subseteq world)
          PROVE  ProbeGoesBy'
      BY <2>1, <3>2, <3>4 DEF ProbeGoesBy
    <3>5. ASSUME NEW status, Says(status)
          PROVE  /\ checks \subseteq checks' /\ <<name, status>> \in checks'
                 /\ status = "fail" => ProbeFailed'
                 /\ status # "fail" => ~ProbeFailed'
      <4>1. <<name, status>>[2] = status
        OBVIOUS
      <4>2. checks' = checks \cup {<<name, status>>}
        BY <3>5
      <4>3. \A check \in checks : check[2] # "fail"
        BY <3>2 DEF ProbeFailed
      <4> DEFINE said == <<name, status>>
      <4> HIDE DEF said
      <4>4. checks' = checks \cup {said} /\ said[2] = status
        BY <4>1, <4>2 DEF said
      <4>5. ProbeFailed' <=> status = "fail"
        BY <4>3, <4>4 DEF ProbeFailed
      <4> QED
        BY <4>2, <4>5
    <3>6. at = 1 => name \notin Probing!Verbs \cup Probing!Optional \cup {"RBAC"}
      BY <2>2, <2>4 DEF AskedInOrder
    <3>7. Probing!Needed = Probing!Range(q) \ (Probing!Optional \cup {"RBAC"})
      BY <2>6, NeededAre
    <3>8. Probing!Verbs \cap (Probing!Optional \cup {"RBAC"}) = {} /\ "RBAC" \notin Probing!Optional
      BY RequiredVerbs DEF Probing!Optional
    <3>9. CASE name \in world /\ name \notin Probing!Verbs \cup {"RBAC"} /\ Says("pass") /\ GoesOn /\ Same
      BY <2>4, <3>2, <3>3, <3>5, <3>9
    <3>10. CASE name \notin world /\ name \in Probing!Needed /\ Says("fail") /\ Ends /\ Same
      BY <3>4, <3>5, <3>10
    <3>11. CASE name \in Probing!Optional /\ (Says("warn") \/ Says("skipped")) /\ GoesOn /\ Same
      BY <3>2, <3>3, <3>5, <3>6, <3>7, <3>8, <3>11
    <3>12. CASE name \in Probing!Verbs \cap world /\ UNCHANGED <<missing, checks>> /\ GoesOn
      BY <3>2, <3>3, <3>6, <3>8, <3>12 DEF ProbeFailed
    <3>13. CASE /\ name \in Probing!Verbs \ world /\ missing' = missing \cup {name} /\ GoesOn
                /\ UNCHANGED checks
      BY <2>4, <3>2, <3>3, <3>6, <3>7, <3>8, <3>13 DEF ProbeFailed
    <3>14. CASE name = "RBAC" /\ missing = {} /\ Says("pass") /\ GoesOn /\ Same
      BY <3>2, <3>3, <3>5, <3>6, <3>7, <3>8, <3>14
    <3>15. CASE name = "RBAC" /\ missing # {} /\ Says("fail") /\ Ends /\ Same
      BY <3>2, <3>4, <3>5, <3>15
    <3> QED
      BY <3>1, <3>9, <3>10, <3>11, <3>12, <3>13, <3>14, <3>15
  <2> QED
    BY <2>1, <2>5, <2>6 DEF ProbeInv, ProbeGoesBy
<1> QED
  BY <1>1, <1>2 DEF Probing!Next

\* The invariant holds always.
LEMMA ProbeSafe == Spec => []ProbeInv
<1>1. Init => ProbeInv
  BY ProbeStarts DEF Init, Probing!Init, AllKinds
<1>2. [Next]_vars => [Probing!Next]_(Probing!vars)
  BY DEF Next, vars, probeVars, Probing!vars
<1> QED
  BY <1>1, <1>2, ProbeStep, PTL DEF Spec

(***************************************************************************)
(* A probe answered throughout is OK exactly when a capture could start:   *)
(* whatever is asked of an environment of each kind, and in whatever world.*)
(***************************************************************************)
THEOREM OkIsPossible == Spec => []OkMeansPossible
<1>1. ProbeInv => OkMeansPossible
  <2> SUFFICES ASSUME ProbeInv, at = Probing!Over, unanswered = 0, "override" \notin world
               PROVE  Probing!OK <=> Probing!Needed \subseteq world
    BY DEF OkMeansPossible, Probing!OkMeansPossible
  <2> DEFINE q == Probing!Questions
  <2>1. AskedInOrder
    BY ProbeAsks DEF ProbeInv
  <2>2. Len(q) \in Nat \ {0} /\ DOMAIN q = 1..Len(q)
    BY <2>1 DEF AskedInOrder
  <2>3. \A i \in 1..Len(q) : i < at
    BY <2>2 DEF Probing!Over
  <2>4. ASSUME Probing!OK PROVE Probing!Needed \subseteq world
    <3>1. SoFar
      BY <2>4 DEF ProbeInv, ProbeGoesBy, ProbeFailed, Probing!OK
    <3>2. ASSUME NEW name \in Probing!Needed PROVE name \in world
      <4>1. PICK i \in 1..Len(q) : name = q[i]
        BY <2>2, <3>2, NeededAre DEF Probing!Range
      <4>2. CASE name \in Probing!Verbs
        BY <2>1, <2>3, <3>1, <4>1, <4>2 DEF SoFar, AskedInOrder
      <4>3. CASE name \notin Probing!Verbs
        BY <2>3, <3>1, <3>2, <4>1, <4>3 DEF SoFar
      <4> QED
        BY <4>2, <4>3
    <3> QED
      BY <3>2
  <2>5. ASSUME Probing!Needed \subseteq world PROVE Probing!OK
    <3>1. at > 1
      BY <2>2 DEF Probing!Over
    <3> QED
      BY <2>5, <3>1 DEF ProbeInv, ProbeGoesBy, ProbeFailed, Probing!OK
  <2> QED
    BY <2>4, <2>5
<1> QED
  BY <1>1, ProbeSafe, PTL

-----------------------------------------------------------------------------
(***************************************************************************)
(* Collecting the files.                                                   *)
(***************************************************************************)
Piece == [file : File, byte : Nat]

CopyTyped ==
  /\ DOMAIN size \subseteq File /\ \A f \in DOMAIN size : size[f] \in Nat
  /\ left \subseteq DOMAIN size
  /\ stream \in Seq(Piece)
  /\ reading \in [file : File \cup {"none"}, got : Seq(Piece)]
  /\ sunk = [f \in DOMAIN sunk |-> sunk[f]]
  /\ result = "done" => ended = "clean"

\* Nothing went wrong on the far side, and nothing yet on the near one.
Untroubled == ended \in {"open", "clean"} /\ failed = {} /\ result \in {"open", "done"}

\* Every file follows its header in the order of its bytes, to the last of them.
WellSent ==
  /\ \A i \in 1..Len(stream) :
       /\ stream[i].file \in DOMAIN size
       /\ stream[i].byte <= size[stream[i].file]
       /\ stream[i].byte = size[stream[i].file] => i = Len(stream) \/ stream[i + 1].byte = 0
       /\ stream[i].byte < size[stream[i].file] =>
            i < Len(stream) /\ stream[i + 1] = Copy!Byte(stream[i].file, stream[i].byte + 1)

\* The stream goes on where the reading has got to.
ReadSoFar ==
  /\ reading = Copy!NotReading /\ stream # <<>> => stream[1].byte = 0
  /\ reading # Copy!NotReading =>
       /\ reading.file \in DOMAIN size /\ Len(reading.got) <= size[reading.file]
       /\ \A k \in 1..Len(reading.got) : reading.got[k] = Copy!Byte(reading.file, k)
       /\ Len(reading.got) < size[reading.file] =>
            stream # <<>> /\ stream[1] = Copy!Byte(reading.file, Len(reading.got) + 1)
       /\ Len(reading.got) = size[reading.file] /\ stream # <<>> => stream[1].byte = 0

\* Where a file of the directory is.
Sent(f) == \E i \in 1..Len(stream) : stream[i].file = f
Accounted ==
  /\ \A f \in DOMAIN size : f \in left \/ Sent(f) \/ f = reading.file \/ f \in DOMAIN sunk
  /\ DOMAIN sunk \subseteq DOMAIN size
  /\ \A f \in DOMAIN sunk : sunk[f] = Copy!Bytes(f, size[f])
  /\ ended = "clean" => left = {}
  /\ result = "done" => stream = <<>> /\ reading = Copy!NotReading /\ ended = "clean"

CopyInv == CopyTyped /\ (Untroubled => WellSent /\ ReadSoFar /\ Accounted)

\* Nothing is sent at first.
LEMMA CopyStarts ==
  ASSUME NEW how, NEW files, Copy!Starts(how, files), files = DOMAIN size,
         DOMAIN size \subseteq File, \A f \in DOMAIN size : size[f] \in Nat
  PROVE  CopyInv
<1> USE DEF Copy!Starts
<1>1. stream = <<>> /\ Len(stream) = 0 /\ stream \in Seq(Piece)
  OBVIOUS
<1>2. sunk = [f \in {} |-> sunk[f]] /\ DOMAIN sunk = {}
  OBVIOUS
<1>3. reading = Copy!NotReading /\ reading \in [file : File \cup {"none"}, got : Seq(Piece)]
  BY DEF Copy!NotReading
<1>4. CopyTyped
  BY <1>1, <1>2, <1>3 DEF CopyTyped
<1>5. WellSent /\ ReadSoFar
  BY <1>1, <1>3 DEF WellSent, ReadSoFar
<1>6. Accounted
  BY <1>2 DEF Accounted
<1> QED
  BY <1>4, <1>5, <1>6 DEF CopyInv

\* One turn of the loop appends a header and as many bytes.
LEMMA Appended ==
  ASSUME NEW s \in Seq(Piece), NEW f \in File, NEW n \in Nat
  PROVE  LET t == s \o <<Copy!Header(f)>> \o Copy!Bytes(f, n)
         IN  /\ t \in Seq(Piece) /\ Len(t) = Len(s) + 1 + n
             /\ \A i \in 1..Len(s) : t[i] = s[i]
             /\ \A k \in 0..n : t[Len(s) + 1 + k] = Copy!Byte(f, k)
<1> DEFINE h == <<Copy!Header(f)>>
           b == Copy!Bytes(f, n)
           sh == s \o h
           t == sh \o b
<1>1. Copy!Header(f) \in Piece /\ Copy!Header(f) = Copy!Byte(f, 0)
  BY DEF Piece, Copy!Header, Copy!Byte
<1>2. h \in Seq(Piece) /\ Len(h) = 1 /\ h[1] = Copy!Byte(f, 0)
  BY <1>1
<1>3. b \in Seq(Piece) /\ Len(b) = n /\ \A k \in 1..n : b[k] = Copy!Byte(f, k)
  BY DEF Copy!Bytes, Copy!Byte, Piece
<1> HIDE DEF h, b
<1>4. /\ sh \in Seq(Piece) /\ Len(sh) = Len(s) + Len(h)
      /\ \A i \in 1..(Len(s) + Len(h)) : sh[i] = IF i <= Len(s) THEN s[i] ELSE h[i - Len(s)]
  BY <1>2, Joined, Zenon
<1> HIDE DEF sh
<1> sh \in Seq(Piece) /\ b \in Seq(Piece)
  BY <1>3, <1>4
<1>5. t = s \o <<Copy!Header(f)>> \o Copy!Bytes(f, n)
  BY DEF sh, h, b
<1>6. /\ t \in Seq(Piece) /\ Len(t) = Len(sh) + Len(b)
      /\ \A i \in 1..(Len(sh) + Len(b)) : t[i] = IF i <= Len(sh) THEN sh[i] ELSE b[i - Len(sh)]
  BY Joined, Zenon
<1> HIDE DEF t
<1>7. Len(s) \in Nat
  BY LenProperties
<1>8. Len(sh) = Len(s) + 1 /\ Len(t) = Len(s) + 1 + n
  BY <1>2, <1>3, <1>4, <1>6, <1>7
<1>9. ASSUME NEW i \in 1..Len(s) PROVE t[i] = s[i]
  <2>0. i \in 1..(Len(sh) + Len(b)) /\ i <= Len(sh)
    BY <1>3, <1>7, <1>8
  <2>1. t[i] = sh[i]
    BY <1>6, <2>0
  <2>2. sh[i] = s[i]
    BY <1>2, <1>4, <1>7
  <2> QED
    BY <2>1, <2>2
<1>10. ASSUME NEW k \in 0..n PROVE t[Len(s) + 1 + k] = Copy!Byte(f, k)
  <2>1. CASE k = 0
    <3>1. t[Len(s) + 1] = sh[Len(s) + 1]
      BY <1>3, <1>6, <1>7, <1>8
    <3>2. sh[Len(s) + 1] = h[1]
      BY <1>2, <1>4, <1>7
    <3>3. Len(s) + 1 + k = Len(s) + 1
      BY <1>7, <2>1
    <3> QED
      BY <1>2, <2>1, <3>1, <3>2, <3>3
  <2>2. CASE k \in 1..n
    <3>0. /\ Len(s) + 1 + k \in 1..(Len(sh) + Len(b)) /\ ~(Len(s) + 1 + k <= Len(sh))
          /\ Len(s) + 1 + k - Len(sh) = k
      BY <1>3, <1>7, <1>8, <2>2
    <3>1. t[Len(s) + 1 + k] = b[k]
      BY <1>6, <3>0
    <3> QED
      BY <1>3, <2>2, <3>1
  <2>3. k = 0 \/ k \in 1..n
    OBVIOUS
  <2> QED
    BY <2>1, <2>2, <2>3
<1> QED
  BY <1>5, <1>6, <1>8, <1>9, <1>10, Zenon

\* The rest of a sequence.
LEMMA Taken ==
  ASSUME NEW S, NEW s \in Seq(S), s # <<>>, NEW t, t = Tail(s)
  PROVE  /\ Len(s) \in Nat \ {0} /\ Head(s) = s[1] /\ s[1] \in S
         /\ t \in Seq(S) /\ Len(t) = Len(s) - 1
         /\ \A i \in 1..Len(t) : t[i] = s[i + 1]
BY HeadTailProperties

\* What a step that keeps out of trouble found.
LEMMA TroubleStays ==
  ASSUME [Copy!Next]_(Copy!vars), Untroubled'
  PROVE  Untroubled
BY DEF Copy!Next, Copy!vars, Untroubled, Copy!Send, Copy!CatFails, Copy!Finish, Copy!Refuse, Copy!Drop,
   Copy!ReadHeader, Copy!ReadBody, Copy!HandOver, Copy!SinkFails, Copy!Ends

\* Every step keeps the types.
LEMMA CopyTypes == CopyTyped /\ [Copy!Next]_(Copy!vars) => CopyTyped'
<1> SUFFICES ASSUME CopyTyped, [Copy!Next]_(Copy!vars) PROVE CopyTyped'
  OBVIOUS
<1> USE DEF CopyTyped
<1>1. ASSUME NEW f \in File, Copy!Send(f) PROVE CopyTyped'
  <2>1. f \in DOMAIN size /\ size[f] \in Nat /\ stream' = stream \o <<Copy!Header(f)>> \o Copy!Bytes(f, size[f])
    BY <1>1 DEF Copy!Send
  <2>2. stream' \in Seq(Piece)
    BY <2>1, Appended
  <2> QED
    BY <1>1, <2>2 DEF Copy!Send
<1>2. ASSUME NEW f \in File, NEW n \in 0..(MaxSize - 1), Copy!CatFails(f, n) PROVE CopyTyped'
  <2>1. n \in Nat /\ stream' = stream \o <<Copy!Header(f)>> \o Copy!Bytes(f, n)
    BY <1>2 DEF Copy!CatFails
  <2>2. stream' \in Seq(Piece)
    BY <2>1, Appended
  <2> QED
    BY <1>2, <2>2 DEF Copy!CatFails
<1>3. CASE Copy!Finish
  BY <1>3 DEF Copy!Finish
<1>4. CASE Copy!Refuse
  BY <1>4 DEF Copy!Refuse
<1>5. CASE Copy!Drop
  <2>1. PICK n \in 0..Len(stream) : stream' = SubSeq(stream, 1, n)
    BY <1>5 DEF Copy!Drop
  <2>2. stream' \in Seq(Piece)
    <3>1. \A i \in 1..n : stream[i] \in Piece
      BY LenProperties
    <3>2. n \in Int
      BY LenProperties
    <3> QED
      BY <2>1, <3>1, <3>2, SubSeqProperties
  <2> QED
    BY <1>5, <2>2 DEF Copy!Drop
<1>6. CASE Copy!ReadHeader
  <2>1. CASE UNCHANGED <<stream, reading>>
    BY <1>6, <2>1 DEF Copy!ReadHeader, Copy!Ends, Copy!AtEnd, Copy!CollectFailure
  <2>2. CASE stream # <<>> /\ reading' = [file |-> Head(stream).file, got |-> <<>>] /\ stream' = Tail(stream)
    <3>1. Head(stream) \in Piece /\ stream' \in Seq(Piece)
      BY <2>2, HeadTailProperties
    <3>2. reading' \in [file : File \cup {"none"}, got : Seq(Piece)]
      BY <2>2, <3>1 DEF Piece
    <3> QED
      BY <1>6, <2>2, <3>1, <3>2 DEF Copy!ReadHeader, Copy!Ends
  <2> QED
    BY <1>6, <2>1, <2>2 DEF Copy!ReadHeader, Copy!Ends
<1>7. CASE Copy!ReadBody
  <2>1. /\ stream # <<>> /\ stream' = Tail(stream)
        /\ reading' = [reading EXCEPT !.got = Append(reading.got, Head(stream))]
        /\ UNCHANGED <<size, left, sunk, result, ended>>
    BY <1>7 DEF Copy!ReadBody
  <2>2. Head(stream) \in Piece /\ stream' \in Seq(Piece)
    BY <2>1, HeadTailProperties
  <2>3. Append(reading.got, Head(stream)) \in Seq(Piece)
    BY <2>2, AppendProperties
  <2>4. reading' \in [file : File \cup {"none"}, got : Seq(Piece)]
    BY <2>1, <2>3
  <2> QED
    BY <2>1, <2>2, <2>4
<1>8. CASE Copy!HandOver
  <2>1. sunk' = [f \in DOMAIN sunk' |-> sunk'[f]]
    BY <1>8 DEF Copy!HandOver
  <2>2. reading' \in [file : File \cup {"none"}, got : Seq(Piece)]
    BY <1>8 DEF Copy!HandOver, Copy!NotReading
  <2> QED
    BY <1>8, <2>1, <2>2 DEF Copy!HandOver
<1>9. CASE Copy!SinkFails
  BY <1>9 DEF Copy!SinkFails, Copy!Ends
<1>10. CASE UNCHANGED Copy!vars
  BY <1>10 DEF Copy!vars
<1> QED
  BY <1>1, <1>2, <1>3, <1>4, <1>5, <1>6, <1>7, <1>8, <1>9, <1>10 DEF Copy!Next

\* Taking a piece off the stream leaves it well sent.
LEMMA TailIsWellSent ==
  ASSUME CopyTyped, WellSent, stream # <<>>, stream' = Tail(stream), size' = size
  PROVE  /\ WellSent'
         /\ \A f : Sent(f) => Sent(f)' \/ f = stream[1].file
<1>1. /\ Len(stream) \in Nat \ {0} /\ Len(stream') = Len(stream) - 1
      /\ \A i \in 1..Len(stream') : stream'[i] = stream[i + 1]
  BY Taken DEF CopyTyped
<1>0. Len(stream) \in Nat \ {0} /\ Len(stream') = Len(stream) - 1
  BY <1>1
<1>2. ASSUME NEW i \in 1..Len(stream')
      PROVE  /\ stream'[i].file \in DOMAIN size
             /\ stream'[i].byte <= size[stream'[i].file]
             /\ stream'[i].byte = size[stream'[i].file] => i = Len(stream') \/ stream'[i + 1].byte = 0
             /\ stream'[i].byte < size[stream'[i].file] =>
                  i < Len(stream') /\ stream'[i + 1] = Copy!Byte(stream'[i].file, stream'[i].byte + 1)
  <2>1. i + 1 \in 1..Len(stream) /\ stream'[i] = stream[i + 1]
        /\ (i + 1 = Len(stream) <=> i = Len(stream')) /\ (i + 1 < Len(stream) <=> i < Len(stream'))
    BY <1>1
  <2>2. i # Len(stream') => stream'[i + 1] = stream[i + 2]
    <3>1. i # Len(stream') => i + 1 \in 1..Len(stream')
      <4> DEFINE m == Len(stream')
      <4>1. m \in Nat /\ i \in 1..m
        BY <1>0
      <4> HIDE DEF m
      <4>2. i # m => i + 1 \in 1..m
        BY <4>1
      <4> QED
        BY <4>2 DEF m
    <3>2. (i + 1) + 1 = i + 2
      OBVIOUS
    <3> QED
      BY <1>1, <3>1, <3>2
  <2>3. (i + 1) + 1 = i + 2
    OBVIOUS
  <2> QED
    BY <2>1, <2>2, <2>3 DEF WellSent
<1>3. WellSent'
  BY <1>2 DEF WellSent
<1>4. ASSUME NEW f, Sent(f), f # stream[1].file PROVE Sent(f)'
  <2>1. PICK i \in 1..Len(stream) : stream[i].file = f
    BY <1>4 DEF Sent
  <2>2. i - 1 \in 1..Len(stream') /\ (i - 1) + 1 = i
    BY <1>1, <1>4, <2>1
  <2> QED
    BY <1>1, <2>1, <2>2 DEF Sent
<1> QED
  BY <1>3, <1>4

\* So does a whole file put at its end.
LEMMA SendIsWellSent ==
  ASSUME CopyTyped, WellSent, NEW f \in File, Copy!Send(f)
  PROVE  /\ WellSent'
         /\ \A g : Sent(g) \/ g = f => Sent(g)'
         /\ stream' # <<>> /\ (stream # <<>> => stream'[1] = stream[1])
         /\ stream = <<>> => stream'[1].byte = 0
<1> DEFINE n == size[f]
<1>1. /\ stream' = stream \o <<Copy!Header(f)>> \o Copy!Bytes(f, n) /\ n \in Nat
      /\ f \in DOMAIN size /\ size' = size
  BY DEF Copy!Send, CopyTyped
<1>2. stream \in Seq(Piece) /\ Len(stream) \in Nat
  BY LenProperties DEF CopyTyped
<1>2a. size[f] = n
  OBVIOUS
<1>2b. Copy!Byte(f, 0).file = f /\ Copy!Byte(f, 0).byte = 0
  BY DEF Copy!Byte
<1> HIDE DEF n
<1>3. /\ stream' \in Seq(Piece) /\ Len(stream') = Len(stream) + 1 + n
      /\ \A i \in 1..Len(stream) : stream'[i] = stream[i]
      /\ \A k \in 0..n : stream'[Len(stream) + 1 + k] = Copy!Byte(f, k)
  BY <1>1, <1>2, Appended, Zenon
<1>4. ASSUME NEW i \in 1..Len(stream')
      PROVE  /\ stream'[i].file \in DOMAIN size
             /\ stream'[i].byte <= size[stream'[i].file]
             /\ stream'[i].byte = size[stream'[i].file] => i = Len(stream') \/ stream'[i + 1].byte = 0
             /\ stream'[i].byte < size[stream'[i].file] =>
                  i < Len(stream') /\ stream'[i + 1] = Copy!Byte(stream'[i].file, stream'[i].byte + 1)
  <2>1. CASE i < Len(stream)
    <3>1. i \in 1..Len(stream) /\ i + 1 \in 1..Len(stream) /\ i < Len(stream') /\ i # Len(stream)
      BY <1>1, <1>2, <1>3, <2>1
    <3>2. stream'[i] = stream[i] /\ stream'[i + 1] = stream[i + 1]
      BY <1>3, <3>1
    <3> QED
      BY <3>1, <3>2 DEF WellSent
  <2>2. CASE i = Len(stream)
    <3>1. i \in 1..Len(stream) /\ ~(i < Len(stream)) /\ Len(stream) + 1 + 0 = i + 1 /\ 0 \in 0..n
      BY <1>1, <1>2, <1>3, <2>2
    <3>2. stream'[i] = stream[i] /\ stream'[i + 1] = Copy!Byte(f, 0)
      BY <1>3, <3>1
    <3> QED
      BY <3>1, <3>2 DEF WellSent, Copy!Byte
  <2>3. CASE i > Len(stream)
    <3> DEFINE k == i - Len(stream) - 1
    <3>0. Len(stream) \in Nat /\ n \in Nat /\ Len(stream') = Len(stream) + 1 + n
      BY <1>1, <1>2, <1>3
    <3>1. k \in 0..n /\ k <= n /\ (k = n \/ k < n) /\ i = Len(stream) + 1 + k
      BY <2>3, <3>0
    <3>2. stream'[i] = Copy!Byte(f, k)
      BY <1>3, <3>1
    <3>3. stream'[i].file = f /\ stream'[i].byte = k
      BY <3>2 DEF Copy!Byte
    <3>4. k = n => i = Len(stream')
      BY <1>1, <1>2, <1>3, <3>1
    <3>5. ASSUME k < n PROVE i < Len(stream') /\ stream'[i + 1] = Copy!Byte(f, k + 1)
      <4>1. k + 1 \in 0..n /\ Len(stream) + 1 + (k + 1) = i + 1 /\ i < Len(stream')
        BY <1>1, <1>2, <1>3, <3>1, <3>5
      <4> HIDE DEF k
      <4> QED
        BY <1>3, <4>1
    <3> HIDE DEF k
    <3> QED
      BY <1>1, <1>2a, <3>1, <3>3, <3>4, <3>5, Zenon
  <2> QED
    BY <1>2, <2>1, <2>2, <2>3
<1>5. WellSent'
  BY <1>1, <1>4 DEF WellSent
<1>6. ASSUME NEW g, Sent(g) \/ g = f PROVE Sent(g)'
  <2>1. CASE g = f
    <3>1. Len(stream) + 1 + 0 \in 1..Len(stream') /\ 0 \in 0..n
      BY <1>1, <1>2, <1>3
    <3>2. stream'[Len(stream) + 1 + 0].file = f
      BY <1>2b, <1>3, <3>1
    <3> QED
      BY <2>1, <3>1, <3>2 DEF Sent
  <2>2. CASE Sent(g)
    <3>1. PICK i \in 1..Len(stream) : stream[i].file = g
      BY <2>2 DEF Sent
    <3>2. i \in 1..Len(stream')
      BY <1>1, <1>2, <1>3
    <3> QED
      BY <1>3, <3>1, <3>2 DEF Sent
  <2> QED
    BY <1>6, <2>1, <2>2
<1>7. stream' # <<>>
  BY <1>1, <1>2, <1>3
<1>8. stream # <<>> => stream'[1] = stream[1]
  BY <1>2, <1>3
<1>9. stream = <<>> => stream'[1].byte = 0
  <2>1. stream = <<>> => Len(stream) + 1 + 0 = 1 /\ 0 \in 0..n
    BY <1>1, <1>2
  <2> QED
    BY <1>2b, <1>3, <2>1
<1> QED
  BY <1>5, <1>6, <1>7, <1>8, <1>9

\* Every step keeps the invariant.
LEMMA CopyStep == CopyInv /\ [Copy!Next]_(Copy!vars) => CopyInv'
<1> SUFFICES ASSUME CopyInv, [Copy!Next]_(Copy!vars), Untroubled'
             PROVE  WellSent' /\ ReadSoFar' /\ Accounted'
  BY CopyTypes DEF CopyInv
<1>0. CopyTyped /\ Untroubled /\ WellSent /\ ReadSoFar /\ Accounted
  BY TroubleStays DEF CopyInv
<1>1. ASSUME NEW f \in File, Copy!Send(f) PROVE WellSent' /\ ReadSoFar' /\ Accounted'
  <2>1. /\ UNCHANGED <<size, reading, sunk, result>> /\ ended = "open" /\ ended' = "open"
        /\ left' = left \ {f}
    BY <1>1 DEF Copy!Send
  <2>2. /\ WellSent' /\ stream' # <<>> /\ (stream # <<>> => stream'[1] = stream[1])
        /\ stream = <<>> => stream'[1].byte = 0
    BY <1>0, <1>1, SendIsWellSent
  <2>3. \A g : Sent(g) \/ g = f => Sent(g)'
    BY <1>0, <1>1, SendIsWellSent
  <2>4. ReadSoFar'
    BY <1>0, <2>1, <2>2 DEF ReadSoFar
  <2>5. Accounted'
    BY <1>0, <2>1, <2>3 DEF Accounted
  <2> QED
    BY <2>2, <2>4, <2>5
<1>2. ASSUME NEW f \in File, NEW n \in 0..(MaxSize - 1), Copy!CatFails(f, n)
      PROVE  WellSent' /\ ReadSoFar' /\ Accounted'
  BY <1>2 DEF Copy!CatFails, Untroubled
<1>3. CASE Copy!Finish
  BY <1>0, <1>3 DEF Copy!Finish, WellSent, ReadSoFar, Accounted, Sent, Untroubled
<1>4. CASE Copy!Refuse \/ Copy!Drop
  BY <1>4 DEF Copy!Refuse, Copy!Drop, Untroubled
<1>5. CASE Copy!ReadHeader
  <2>1. UNCHANGED <<size, left, ended, sunk>> /\ reading = Copy!NotReading
    BY <1>5 DEF Copy!ReadHeader, Copy!Ends
  <2>2. CASE stream = <<>>
    <3>1. UNCHANGED <<stream, reading>> /\ result' = Copy!AtEnd
      BY <1>5, <2>2 DEF Copy!ReadHeader, Copy!Ends
    <3>2. ended = "clean"
      BY <1>5, <2>1, <2>2, <3>1 DEF Copy!ReadHeader, Copy!AtEnd, Copy!CollectFailure, Untroubled
    <3> QED
      BY <1>0, <2>1, <2>2, <3>1, <3>2 DEF WellSent, ReadSoFar, Accounted, Sent
  <2>3. CASE stream # <<>>
    <3>1. stream[1].byte = 0
      BY <1>0, <2>1, <2>3 DEF ReadSoFar
    <3>2. /\ Len(stream) \in Nat \ {0} /\ Head(stream) = stream[1] /\ stream[1] \in Piece
          /\ stream' = Tail(stream) => /\ Len(stream') = Len(stream) - 1
                                       /\ \A i \in 1..Len(stream') : stream'[i] = stream[i + 1]
      BY <1>0, <2>3, Taken DEF CopyTyped
    <3>3. /\ reading' = [file |-> stream[1].file, got |-> <<>>] /\ stream' = Tail(stream)
          /\ UNCHANGED <<sunk, result>>
      BY <1>5, <2>3, <3>1, <3>2 DEF Copy!ReadHeader, Copy!Ends
    <3>4. WellSent' /\ \A f : Sent(f) => Sent(f)' \/ f = reading'.file
      BY <1>0, <2>1, <2>3, <3>3, TailIsWellSent
    <3>5. /\ reading'.file \in DOMAIN size /\ reading'.got = <<>> /\ Len(reading'.got) = 0
          /\ size[reading'.file] \in Nat /\ reading' # Copy!NotReading
      <4>1. 1 \in 1..Len(stream)
        BY <3>2
      <4> QED
        BY <1>0, <3>3, <4>1, TargetsAssumption DEF WellSent, CopyTyped, Copy!NotReading
    <3>6. /\ 0 < size[reading'.file] => stream' # <<>> /\ stream'[1] = Copy!Byte(reading'.file, 1)
          /\ 0 = size[reading'.file] /\ stream' # <<>> => stream'[1].byte = 0
      <4>1. stream' \in Seq(Piece)
        BY <1>0, CopyTypes DEF CopyTyped
      <4>2. 1 \in 1..Len(stream) /\ 1 + 1 = 2 /\ 0 + 1 = 1 /\ (stream' # <<>> => 1 \in 1..Len(stream'))
        BY <3>2, <3>3, <4>1
      <4>3. stream' # <<>> => stream'[1] = stream[2]
        BY <3>2, <3>3, <4>2
      <4>4. 1 = Len(stream) <=> stream' = <<>>
        BY <3>2, <3>3, <4>1
      <4> QED
        BY <1>0, <3>1, <3>3, <4>2, <4>3, <4>4 DEF WellSent
    <3>7. ReadSoFar'
      BY <2>1, <3>5, <3>6 DEF ReadSoFar
    <3>8. Accounted'
      <4>1. \A f \in DOMAIN size' : f \in left' \/ Sent(f)' \/ f = reading'.file \/ f \in DOMAIN sunk'
        <5>1. reading.file \notin DOMAIN size
          BY <1>0, <2>1, TargetsAssumption DEF CopyTyped, Copy!NotReading
        <5> QED
          BY <1>0, <2>1, <3>3, <3>4, <5>1 DEF Accounted
      <4> QED
        BY <1>0, <2>1, <2>3, <3>3, <4>1 DEF Accounted
    <3> QED
      BY <3>4, <3>7, <3>8
  <2> QED
    BY <2>2, <2>3
<1>6. CASE Copy!ReadBody
  <2>1. /\ UNCHANGED <<size, left, ended, sunk, result>> /\ reading # Copy!NotReading
        /\ stream # <<>> /\ stream' = Tail(stream) /\ Len(reading.got) < size[reading.file]
        /\ reading' = [reading EXCEPT !.got = Append(reading.got, Head(stream))]
    BY <1>6 DEF Copy!ReadBody
  <2> DEFINE n == Len(reading.got)
             f == reading.file
  <2>2. /\ Len(stream) \in Nat \ {0} /\ Head(stream) = stream[1] /\ stream[1] \in Piece
        /\ Len(stream') = Len(stream) - 1 /\ \A i \in 1..Len(stream') : stream'[i] = stream[i + 1]
        /\ stream' \in Seq(Piece)
    BY <1>0, <2>1, Taken DEF CopyTyped
  <2>3. reading.got \in Seq(Piece) /\ n \in Nat /\ f \in DOMAIN size /\ size[f] \in Nat
    BY <1>0, <2>1, LenProperties DEF CopyTyped, ReadSoFar
  <2>4. stream[1] = Copy!Byte(f, n + 1) /\ stream[1].file = f /\ stream[1].byte = n + 1
    BY <1>0, <2>1 DEF ReadSoFar, Copy!Byte
  <2>5. /\ reading'.file = f /\ reading'.got = Append(reading.got, stream[1])
        /\ reading' # Copy!NotReading
    <3>1. reading'.file = f /\ reading'.got = Append(reading.got, stream[1])
      BY <1>0, <2>1, <2>2 DEF CopyTyped
    <3>2. f # "none"
      BY <1>0, <2>3, TargetsAssumption DEF CopyTyped
    <3> QED
      BY <3>1, <3>2 DEF Copy!NotReading
  <2>6. /\ Len(reading'.got) = n + 1
        /\ \A k \in 1..n : reading'.got[k] = reading.got[k]
        /\ reading'.got[n + 1] = stream[1]
    BY <2>2, <2>3, <2>5, AppendProperties
  <2>7. WellSent' /\ \A g : Sent(g) => Sent(g)' \/ g = f
    BY <1>0, <2>1, <2>4, TailIsWellSent
  <2>8. \A k \in 1..(n + 1) : reading'.got[k] = Copy!Byte(f, k)
    <3>1. \A k \in 1..n : reading'.got[k] = Copy!Byte(f, k)
      BY <1>0, <2>1, <2>6 DEF ReadSoFar
    <3>2. \A k \in 1..(n + 1) : k \in 1..n \/ k = n + 1
      BY <2>3
    <3> QED
      BY <2>4, <2>6, <3>1, <3>2
  <2>9. /\ n + 1 <= size[f]
        /\ n + 1 < size[f] => stream' # <<>> /\ stream'[1] = Copy!Byte(f, n + 1 + 1)
        /\ n + 1 = size[f] /\ stream' # <<>> => stream'[1].byte = 0
    <3>1. n + 1 <= size[f]
      BY <2>1, <2>3
    <3>2. 1 \in 1..Len(stream) /\ 1 + 1 = 2 /\ (stream' # <<>> => 1 \in 1..Len(stream'))
      BY <2>2
    <3>3. stream' # <<>> => stream'[1] = stream[2]
      BY <2>2, <3>2
    <3>4. 1 = Len(stream) <=> stream' = <<>>
      BY <2>2
    <3>5. /\ n + 1 = size[f] => 1 = Len(stream) \/ stream[2].byte = 0
          /\ n + 1 < size[f] => 1 < Len(stream) /\ stream[2] = Copy!Byte(f, n + 1 + 1)
      <4> HIDE DEF n, f
      <4> QED
        BY <1>0, <2>4, <3>2 DEF WellSent
    <3> QED
      BY <2>2, <3>1, <3>3, <3>4, <3>5
  <2>10. ReadSoFar'
    <3> HIDE DEF n, f
    <3> QED
      BY <2>1, <2>3, <2>5, <2>6, <2>8, <2>9 DEF ReadSoFar
  <2>11. Accounted'
    BY <1>0, <2>1, <2>5, <2>7 DEF Accounted
  <2> QED
    BY <2>7, <2>10, <2>11
<1>7. CASE Copy!HandOver
  <2>1. /\ UNCHANGED <<size, left, ended, stream, result>> /\ reading # Copy!NotReading
        /\ reading' = Copy!NotReading /\ Copy!BodyIsRead /\ result = "open"
        /\ sunk' = [f \in DOMAIN sunk \cup {reading.file} |->
                      IF f = reading.file THEN reading.got ELSE sunk[f]]
    BY <1>7 DEF Copy!HandOver
  <2>2. /\ reading.file \in DOMAIN size /\ size[reading.file] \in Nat
        /\ reading.got \in Seq(Piece) /\ Len(reading.got) \in Nat
    BY <1>0, <2>1, LenProperties DEF CopyTyped, ReadSoFar
  <2>3. Len(reading.got) = size[reading.file]
    BY <1>0, <2>1, <2>2 DEF ReadSoFar, Copy!BodyIsRead
  <2>4. reading.got = Copy!Bytes(reading.file, size[reading.file])
    <3>1. reading.got = [k \in 1..size[reading.file] |-> reading.got[k]]
      BY <2>2, <2>3, LenProperties
    <3>2. \A k \in 1..size[reading.file] : reading.got[k] = Copy!Byte(reading.file, k)
      BY <1>0, <2>1, <2>3 DEF ReadSoFar
    <3> QED
      BY <3>1, <3>2 DEF Copy!Bytes
  <2>5. WellSent'
    BY <1>0, <2>1 DEF WellSent
  <2>6. ReadSoFar'
    BY <1>0, <2>1, <2>3 DEF ReadSoFar
  <2>7. Accounted'
    BY <1>0, <2>1, <2>2, <2>4 DEF Accounted, Sent
  <2> QED
    BY <2>5, <2>6, <2>7
<1>8. CASE Copy!SinkFails
  BY <1>8 DEF Copy!SinkFails, Copy!Ends, Untroubled
<1>9. CASE UNCHANGED Copy!vars
  BY <1>0, <1>9 DEF Copy!vars, WellSent, ReadSoFar, Accounted, Sent
<1> QED
  BY <1>1, <1>2, <1>3, <1>4, <1>5, <1>6, <1>7, <1>8, <1>9 DEF Copy!Next

\* The invariant holds always.
LEMMA CopySafe == Spec => []CopyInv
<1>1. Init => CopyInv
  <2>1. ASSUME Copy!Init PROVE CopyInv
    <3>1. PICK how \in {"framed", "tar", "files"}, files \in SUBSET File : Copy!Starts(how, files) /\ size \in [files -> 0..MaxSize]
      BY <2>1 DEF Copy!Init
    <3>2. files = DOMAIN size /\ \A f \in DOMAIN size : size[f] \in Nat
      BY <3>1
    <3> QED
      BY <3>1, <3>2, CopyStarts
  <2>2. ASSUME Copy!Starts("tar", {}), size = <<>> PROVE CopyInv
    <3>1. DOMAIN size = {}
      BY <2>2
    <3> QED
      BY <2>2, <3>1, CopyStarts
  <2> QED
    BY <2>1, <2>2 DEF Init
<1>2. [Next]_vars => [Copy!Next]_(Copy!vars)
  BY DEF Next, vars, copyVars, Copy!vars
<1> QED
  BY <1>1, <1>2, CopyStep, PTL DEF Spec

(***************************************************************************)
(* A transfer that reports no error, and in which every cat came to its    *)
(* end, gave the sink every file whole: for any files of any sizes, however*)
(* the reading of the stream and the writing of it take turns.             *)
(***************************************************************************)
THEOREM WholeIsFetched == Spec => []FetchedIsWhole
<1>1. CopyInv => FetchedIsWhole
  <2> SUFFICES ASSUME CopyInv, result = "done", failed = {}
               PROVE  sunk = [f \in DOMAIN size |-> Copy!Bytes(f, size[f])]
    BY DEF FetchedIsWhole, Copy!FetchedIsWhole
  <2>1. Accounted /\ ended = "clean"
    BY DEF CopyInv, CopyTyped, Untroubled
  <2>2. stream = <<>> /\ reading.file = "none" /\ left = {}
    BY <2>1 DEF Accounted, Copy!NotReading
  <2>3. "none" \notin DOMAIN size /\ \A f : ~Sent(f)
    BY <2>2, TargetsAssumption DEF CopyInv, CopyTyped, Sent
  <2>4. DOMAIN sunk = DOMAIN size
    BY <2>1, <2>2, <2>3 DEF Accounted
  <2>5. sunk = [f \in DOMAIN sunk |-> sunk[f]] /\ \A f \in DOMAIN sunk : sunk[f] = Copy!Bytes(f, size[f])
    BY <2>1 DEF Accounted, CopyInv, CopyTyped
  <2> QED
    BY <2>4, <2>5
<1> QED
  BY <1>1, CopySafe, PTL
=============================================================================
