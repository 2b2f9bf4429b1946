------------------------------- MODULE PartPut ------------------------------
(***************************************************************************)
(* The upload of one sealed bundle to a backend that takes it in parts: S3 *)
(* (a multipart upload with an identity of its own) or Azure (blocks       *)
(* staged under the blob's name, then committed).  Responses get lost, the *)
(* process dies, calls are retried and jobs resumed or discarded.          *)
(*                                                                         *)
(* The bundle is its parts 1..N; a digest is the sequence of what was      *)
(* hashed.                                                                 *)
(*                                                                         *)
(* Sources: engine/store/s3store/s3.go, engine/store/azurestore/azure.go,  *)
(* engine/reliable/reliable.go, engine/orchestrator/capture.go,            *)
(* app/jobs_controller.go.                                                 *)
(***************************************************************************)
EXTENDS Sequences, ReliableBounds

VARIABLES
  backend,  \* "s3" or "azure"; it never changes
  small,    \* TRUE when the bundle is no larger than a part; nor does that
  object,   \* the parts of the object under the key, none without one
  open,     \* TRUE while the attempt's upload is open on the server
  held,     \* the uploads nothing refers to any more whose parts it holds;
            \* one without a part costs nothing and is not counted
  pc,       \* where the Put has got to
  read,     \* how far the bundle has been read
  hash,     \* what the hash covers
  parts,    \* the parts the attempt will name to the server
  refused,  \* TRUE when the attempt's digest was wrong
  tries,    \* the attempts of the call so far
  lost,     \* how often a crash, or a lost call, prevented the cleanup
  mishaps

config  == <<backend, small>>
server  == <<object, open, held>>
attempt == <<read, hash, parts, refused>>
vars    == <<config, server, pc, attempt, tries, lost, mishaps>>

Whole == [i \in 1..N |-> i]

TypeOK ==
  /\ backend \in {"s3", "azure"} /\ small \in BOOLEAN /\ open \in BOOLEAN /\ refused \in BOOLEAN
  /\ object \in Seq(1..N) /\ parts \in Seq(1..N) /\ hash \in Seq(1..N)
  /\ Len(hash) <= N /\ Len(parts) <= N
  /\ held \in 0..Mishaps /\ read \in 0..N
  /\ pc \in {"idle", "start", "single", "send", "cleanup", "stored", "rejected", "discarded"}
  /\ tries \in 0..Attempts /\ lost \in 0..Mishaps /\ mishaps \in 0..Mishaps

Init ==
  /\ backend \in {"s3", "azure"} /\ small \in BOOLEAN /\ object = <<>> /\ open = FALSE /\ held = 0
  /\ pc = "idle" /\ read = 0 /\ hash = <<>> /\ parts = <<>> /\ refused = FALSE
  /\ tries = 0 /\ lost = 0 /\ mishaps = 0
-----------------------------------------------------------------------------
Goto(from, to) == pc = from /\ pc' = to
Mishap == mishaps < Mishaps /\ mishaps' = mishaps + 1

\* An upload, or that of a resumed job: the file is opened again, and what the
\* checkpoint says of an offset concerns neither backend.
Begin ==
  /\ Goto("idle", "start") /\ tries' = 1
  /\ UNCHANGED <<server, attempt, lost, mishaps>>

\* Mutant: the parts of the attempt before are named again.
StartOver ==
  /\ pc = "start" /\ read' = 0 /\ hash' = <<>> /\ refused' = FALSE
  /\ IF backend = "s3" /\ small THEN pc' = "single" /\ UNCHANGED open
     ELSE pc' = "send" /\ open' = TRUE
  /\ UNCHANGED <<object, held, parts, tries, lost, mishaps>>

\* An attempt begins with the source rewound and nothing sent.
Start ==
  /\ pc = "start" /\ read' = 0 /\ hash' = <<>> /\ parts' = <<>> /\ refused' = FALSE
  /\ IF backend = "s3" /\ small THEN pc' = "single" /\ UNCHANGED open
     ELSE pc' = "send" /\ open' = TRUE
  /\ UNCHANGED <<object, held, tries, lost, mishaps>>

\* The whole bundle is read, hashed and sent in one request.
Single ==
  /\ Goto("single", "stored") /\ object' = Whole
  /\ UNCHANGED <<open, held, attempt, tries, lost, mishaps>>

ReadPart == read < N /\ read' = read + 1 /\ hash' = Append(hash, read + 1)

Send ==
  /\ pc = "send" /\ ReadPart /\ parts' = Append(parts, read + 1)
  /\ UNCHANGED <<server, pc, refused, tries, lost, mishaps>>

\* Everything is sent: the digest is compared, and the server puts the parts
\* the attempt names together.
Commit == object' = parts /\ open' = FALSE

Complete ==
  /\ pc = "send" /\ read = N
  /\ IF hash = Whole THEN Commit /\ pc' = "stored" /\ UNCHANGED refused
     ELSE pc' = "cleanup" /\ refused' = TRUE /\ UNCHANGED <<object, open>>
  /\ UNCHANGED <<held, read, hash, parts, tries, lost, mishaps>>
-----------------------------------------------------------------------------
\* The process forgets an upload it opened.
Forget == held' = (IF open /\ read > 0 THEN held + 1 ELSE held) /\ open' = FALSE

\* What an attempt that did not commit does about it, deferred: S3 aborts its
\* upload, Azure deletes the blob.
Abandon == open' = FALSE /\ object' = IF backend = "azure" THEN <<>> ELSE object

\* The next attempt, or the return.
Return ==
  /\ pc' = IF refused THEN "rejected" ELSE IF tries < Attempts THEN "start" ELSE "idle"
  /\ tries' = IF pc' = "start" THEN tries + 1 ELSE tries

\* Mutant: the upload is not aborted.
CleanupSkipped ==
  /\ pc = "cleanup" /\ Return /\ Forget
  /\ UNCHANGED <<object, attempt, lost, mishaps>>

Cleanup ==
  /\ pc = "cleanup" /\ Return
  /\ \/ Abandon /\ UNCHANGED <<held, lost, mishaps>>
     \/ /\ Mishap /\ lost' = lost + 1 /\ UNCHANGED object
        /\ IF backend = "s3" THEN Forget ELSE UNCHANGED <<held, open>>
  /\ UNCHANGED <<attempt>>

\* A call is lost: on the way there, or its answer on the way back.  S3 returns
\* from a lost InitMultipart before it has anything to clean up.
DropStart ==
  /\ pc = "start" /\ Mishap /\ backend = "s3" /\ refused' = FALSE /\ Return
  /\ UNCHANGED <<server, read, hash, parts, lost>>

DropSingle ==
  /\ pc = "single" /\ Mishap /\ Return
  /\ object' \in {object, Whole}
  /\ UNCHANGED <<open, held, attempt, lost>>

DropSend ==
  /\ Goto("send", "cleanup") /\ Mishap /\ ReadPart
  /\ UNCHANGED <<server, parts, refused, tries, lost>>

DropComplete ==
  /\ Goto("send", "cleanup") /\ Mishap /\ read = N /\ hash = Whole
  /\ Commit \/ UNCHANGED <<object, open>>
  /\ UNCHANGED <<held, attempt, tries, lost>>

\* The bundle is stored, a sidecar is not: the job is interrupted.
SidecarFails ==
  /\ Goto("stored", "idle") /\ Mishap
  /\ UNCHANGED <<server, attempt, tries, lost>>

\* The process dies.  The identity of a multipart upload dies with it; staged
\* blocks stay where the next attempt stages its own.
Crash ==
  /\ pc \in {"start", "single", "send", "cleanup"} /\ pc' = "idle" /\ Mishap
  /\ lost' = lost + 1
  /\ IF backend = "s3" THEN Forget ELSE UNCHANGED <<held, open>>
  /\ UNCHANGED <<object, attempt, tries>>

\* The operator discards the interrupted job.  Its checkpoint has no upload's
\* identity, nor the wrapped store an abort.
Discard ==
  /\ Goto("idle", "discarded") /\ tries > 0
  /\ UNCHANGED <<server, attempt, tries, lost, mishaps>>

Step ==
  \/ Begin \/ Start \/ Single \/ Send \/ Complete \/ Cleanup \/ DropStart
  \/ DropSingle \/ DropSend \/ DropComplete \/ SidecarFails \/ Crash \/ Discard

Next == Step /\ UNCHANGED config

Spec == Init /\ [][Next]_vars
-----------------------------------------------------------------------------
\* Storing the bundle is atomic: nothing under its key, then all of it, whatever
\* was lost, retried or resumed.  Only an Azure upload that fails takes away what
\* it finds under the key.
stored == IF object = <<>> THEN "none" ELSE IF object = Whole THEN "whole" ELSE "partial"
Atomic == INSTANCE AtomicPut WITH object <- stored, replaces <- (backend = "s3")
ImplementsAtomic == Atomic!Spec

\* An upload that gave up leaves no parts to be paid for, unless a crash or a
\* lost call came before its cleanup (s3.go:458).
AbortedOnGiveUp == held <= lost

\* The bundle is intact, so no attempt finds its digest wrong: a retry reads it
\* from the start (reliable.go:100).
IntactIsAccepted == ~refused
-----------------------------------------------------------------------------
\* What the sources say and the code does not keep: see the README.

\* A bundle that is stored stays stored: what the cleanup removes is the partial
\* object of a failed upload (azure.go:330).
StoredStays == [][object = Whole => object' = Whole]_vars

\* Discarding "aborts any server-side multipart or block state"
\* (jobs_controller.go:258).
DiscardLeavesNothing == pc = "discarded" => ~open /\ held = 0

\* A resumed upload continues the one the server holds parts of, and does not
\* open another (spec/04-storage-backends.md:53).
ResumeContinues == [][~open /\ open' => held = 0]_vars
=============================================================================
