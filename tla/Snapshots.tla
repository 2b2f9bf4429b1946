------------------------------ MODULE Snapshots ------------------------------
(***************************************************************************)
(* What becomes of a stored snapshot: the sessions that open it on this    *)
(* machine, and a restore of it to a destination.                          *)
(*                                                                         *)
(* A behaviour is about one of the two.  To the sessions a restore is one  *)
(* more that opens, pushes and closes; to the restore the session is the   *)
(* snapshot it opened and verified.                                        *)
(***************************************************************************)
CONSTANTS
  Inspection, Restoration, Nobody,
  Front, Api, Strategy

ASSUME SessionsAreApart == /\ Inspection \cap Restoration = {}
                           /\ Nobody \notin Inspection \cup Restoration
ASSUME Choices == /\ Front \subseteq {"window", "command"}
                  /\ Api \subseteq {"none", "down", "up"}
                  /\ Strategy \subseteq {"overwrite", "skip", "merge"}

VARIABLES
  part,
  stage, bundle, contents, intact, registered, idx, indexFile, pushed, purge,
  front, strategy, sealed, api, exists, pc, typed, confirm, seen, job, cancelled, clone, key, spent,
  started, importing, dest, replaced, result, ledger

Opened   == INSTANCE SnapshotSessions
Restored == INSTANCE Restore

sessionVars == <<stage, bundle, contents, intact, registered, idx, indexFile, pushed, purge>>
restoreVars == <<front, strategy, sealed, api, exists, pc, typed, confirm, seen, job, cancelled, clone,
                 key, spent, started, importing, dest, replaced, result, ledger>>
vars == <<part, sessionVars, restoreVars>>

\* The part a behaviour is not about stands still at some start of its own.
StillRestore ==
  /\ ~spent /\ ~sealed /\ ~exists
  /\ front = CHOOSE f \in Front : TRUE
  /\ strategy = CHOOSE s \in Strategy : TRUE
  /\ api = CHOOSE a \in Api : TRUE

Init ==
  /\ part \in {"sessions", "restore"} /\ Opened!Init /\ Restored!Init
  /\ part # "restore" => StillRestore

OfSessions(Action) == part = "sessions" /\ Action /\ UNCHANGED <<part, restoreVars>>
OfRestore(Action) == part = "restore" /\ Action /\ UNCHANGED <<part, sessionVars>>

Next == OfSessions(Opened!Next) \/ OfRestore(Restored!Next)

Spec == Init /\ [][Next]_vars

\* The fairness of the two modules: calls return, and closes run to their end; the
\* goroutine of a restore goes on, and an import whose context is cancelled ends.
LiveSpec ==
  /\ Spec
  /\ \A s \in Inspection \cup Restoration :
       /\ WF_vars(OfSessions(Opened!Opens(s)))
       /\ WF_vars(OfSessions(Opened!Close(s)))
  /\ WF_vars(OfRestore(Restored!Step))
  /\ WF_vars(OfRestore(cancelled /\ (Restored!ImportEnds \/ Restored!ImportFails)))
-----------------------------------------------------------------------------
\* Once every session on a snapshot is closed or failed to open, none of its
\* decrypted files are left (session.go, Close and the failing Open).
NothingDecryptedLeft == Opened!NothingDecryptedLeft

\* Every session that was opened is in the end the registered one or closed
\* (engine.go, putSession).
NoneIsOrphaned ==
  \A s \in Inspection \cup Restoration : <>[](stage[s] \in {"new", "closed", "failed"} \/ registered = s)

\* Nothing is written from a snapshot that is not as it was sealed (restore.go).
WritesOnlyVerified == Restored!WritesOnlyVerified

\* A restore that says nothing was written has written nothing, and nothing of it
\* is left that still could (restore.go, appliedState).
NothingMeansNothing == Restored!NothingMeansNothing

\* From the window, a realm the guard has found is replaced only if its name was
\* typed (restore.go:302).
SeenIsTyped == Restored!SeenIsTyped

=============================================================================
