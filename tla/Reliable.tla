------------------------------- MODULE Reliable -------------------------------
(***************************************************************************)
(* The calls that may fail and are tried again: what the circuit breaker   *)
(* of an endpoint lets through, and an upload that is retried, interrupted *)
(* and resumed on a backend that appends to a file or takes parts.         *)
(*                                                                         *)
(* A behaviour is about one of the three.  The breaker decides whether an  *)
(* attempt is made at all, and to an upload a refusal is one more failed   *)
(* attempt.                                                                *)
(***************************************************************************)
EXTENDS ReliableBounds

CONSTANTS
  Caller, Writer,
  Cancels      \* bound: Mishaps of the breaker's part

ASSUME CancelsAssumption == Cancels \in Nat

VARIABLES
  concern,
  breaker, halfOpen, failures, up, op, pc, attempt, cancelled, strays, mishaps,
  backend, part, object, synced, rec, putPc, opts, from, pos, hash, at, tries, putMishaps,
  server, small, blob, open, held, partPc, read, partHash, parts, refused, partTries, lost, partMishaps

Breaking == INSTANCE Breaker WITH Mishaps <- Cancels
Resuming == INSTANCE FilePut WITH pc <- putPc, mishaps <- putMishaps
Parting  == INSTANCE PartPut WITH backend <- server, object <- blob, pc <- partPc, hash <- partHash,
                                  tries <- partTries, mishaps <- partMishaps

breakVars == <<breaker, halfOpen, failures, up, op, pc, attempt, cancelled, strays, mishaps>>
fileVars == <<backend, part, object, synced, rec, putPc, opts, from, pos, hash, at, tries, putMishaps>>
partVars == <<server, small, blob, open, held, partPc, read, partHash, parts, refused, partTries, lost,
              partMishaps>>
vars == <<concern, breakVars, fileVars, partVars>>

\* The parts a behaviour is not about stand still at some start of theirs.
Init ==
  /\ concern \in {"breaker", "file", "parts"}
  /\ Breaking!Init /\ Resuming!Init /\ Parting!Init
  /\ concern # "file" => backend = "disk"
  /\ concern # "parts" => server = "s3" /\ ~small

Next ==
  \/ concern = "breaker" /\ Breaking!Next /\ UNCHANGED <<concern, fileVars, partVars>>
  \/ concern = "file" /\ Resuming!Next /\ UNCHANGED <<concern, breakVars, partVars>>
  \/ concern = "parts" /\ Parting!Next /\ UNCHANGED <<concern, breakVars, fileVars>>

Spec == Init /\ [][Next]_vars

OfTheBreaker(Action) == concern = "breaker" /\ Action /\ UNCHANGED <<concern, fileVars, partVars>>

\* Attempts end, timers fire, and the operator's jobs go on asking.
LiveSpec == /\ Spec /\ WF_vars(OfTheBreaker(Breaking!CoolDown))
            /\ \A c \in Caller : WF_vars(OfTheBreaker(Breaking!Step(c)))
-----------------------------------------------------------------------------
\* After the breaker opened, a caller that was already past its Allow makes
\* one more attempt at most before the cooldown has elapsed (Breaker.Allow).
OneStray == Breaking!OneStray

\* An endpoint that stays reachable is back in service for good, whoever's
\* probe was cancelled or rejected on the way (Breaker.Success, Breaker.Failure).
Recovers == Breaking!Recovers

\* Storing a bundle on a disk or over SFTP is atomic: nothing under its key, then
\* all of it, through drops, crashes and resumes (disk.go:171 to 175).
FileIsAtomic == Resuming!ImplementsAtomic

\* So is storing it in parts, whatever was lost, retried or resumed (s3.go, azure.go).
ImplementsAtomic == Parting!ImplementsAtomic

\* An upload in parts that gave up leaves none to be paid for, unless a crash or a
\* lost call came before its cleanup (s3.go:458).
AbortedOnGiveUp == Parting!AbortedOnGiveUp
=============================================================================
