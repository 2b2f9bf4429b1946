--------------------------- MODULE SnapshotsProofs ---------------------------
(***************************************************************************)
(* What is proved of a restore and of the sessions on a snapshot, for any  *)
(* front ends, strategies and numbers of sessions.                         *)
(***************************************************************************)
EXTENDS Snapshots, TLAPS

-----------------------------------------------------------------------------
(***************************************************************************)
(* The restore.  The argument: until the import is noted as started there  *)
(* is no import and nothing is written, from the verification on the       *)
(* snapshot stays as it was sealed, and the guard lets an overwrite past a *)
(* realm it has found only if the request confirms it.                     *)
(***************************************************************************)
BeforeImport == {"plan", "ask", "queue", "open", "verify", "guard", "prepare", "push", "import"}
BeforeGuard  == {"plan", "ask", "queue", "open", "verify", "guard"}

\* Nothing is written before the note that the import has started.
NotedFirst ==
  /\ pc \in BeforeImport => ~started
  /\ pc = "await" => started
  /\ ~started => ~importing /\ dest = "nothing"

\* What got past the verification is as it was sealed.
SealedPastVerify == pc \in {"guard"} \cup Restored!Within \/ started => sealed

\* What is said of an import is said once it is over.
SaidAtEnd == "nothing was written" \in ledger => pc = "ended" /\ ~started

\* What the request confirms was typed, or is the command's.
ConfirmedByName ==
  /\ pc \in {"plan", "ask", "queue"} => ~confirm
  /\ confirm => typed \/ front = "command"

\* A realm the guard has found is overwritten only if the request confirms it.
FoundIsConfirmed ==
  /\ pc \in BeforeGuard => seen = "unread"
  /\ strategy = "overwrite" /\ seen = "exists" => confirm

ReplacedByOverwrite == replaced => strategy = "overwrite"

RestoreInv ==
  /\ NotedFirst /\ SealedPastVerify /\ SaidAtEnd
  /\ ConfirmedByName /\ FoundIsConfirmed /\ ReplacedByOverwrite

LEMMA RestoreInit == Restored!Init => RestoreInv
BY DEF Restored!Init, RestoreInv, NotedFirst, SealedPastVerify, SaidAtEnd, ConfirmedByName,
       FoundIsConfirmed, ReplacedByOverwrite, Restored!Within, BeforeImport, BeforeGuard

LEMMA RestoreStep == RestoreInv /\ [Restored!Next]_(Restored!vars) => RestoreInv'
<1> SUFFICES ASSUME RestoreInv, [Restored!Next]_(Restored!vars) PROVE RestoreInv'
  OBVIOUS
<1> USE DEF RestoreInv, NotedFirst, SealedPastVerify, SaidAtEnd, ConfirmedByName,
            FoundIsConfirmed, ReplacedByOverwrite, Restored!Within, BeforeImport, BeforeGuard,
            Restored!Goto, Restored!asked, Restored!outside, Restored!request, Restored!import,
            Restored!context
<1>1. CASE Restored!Plan
  BY <1>1 DEF Restored!Plan
<1>2. CASE Restored!Ask
  BY <1>2 DEF Restored!Ask
<1>3. CASE Restored!Queue
  BY <1>3 DEF Restored!Queue
<1>4. CASE Restored!Damage
  BY <1>4 DEF Restored!Damage
<1>5. CASE Restored!Open
  BY <1>5 DEF Restored!Open
<1>6. CASE Restored!OpenFails
  BY <1>6 DEF Restored!OpenFails, Restored!FailEarly
<1>7. CASE Restored!Verify
  BY <1>7 DEF Restored!Verify
<1>8. CASE Restored!VerifyFails
  BY <1>8 DEF Restored!VerifyFails, Restored!FailEarly
<1>9. CASE Restored!Guard
  BY <1>9 DEF Restored!Guard
<1>10. CASE Restored!GuardFails
  BY <1>10 DEF Restored!GuardFails, Restored!FailEarly
<1>11. CASE Restored!Prepare
  BY <1>11 DEF Restored!Prepare
<1>12. CASE Restored!ProbeFails
  BY <1>12 DEF Restored!ProbeFails
<1>13. CASE Restored!PrepareFails
  BY <1>13 DEF Restored!PrepareFails, Restored!Return
<1>14. CASE Restored!Push
  BY <1>14 DEF Restored!Push
<1>15. CASE Restored!PushFails
  BY <1>15 DEF Restored!PushFails, Restored!Return
<1>16. CASE Restored!Import
  BY <1>16 DEF Restored!Import
<1>17. CASE Restored!TeardownSkipped
  BY <1>17 DEF Restored!TeardownSkipped
<1>18. CASE Restored!Teardown
  BY <1>18 DEF Restored!Teardown
<1>19. CASE Restored!TeardownFails
  BY <1>19 DEF Restored!TeardownFails
<1>20. CASE Restored!Settle
  <2>1. /\ pc = "settle" /\ pc' \in {"validate", "ended"}
        /\ UNCHANGED <<Restored!asked, Restored!request, Restored!import>>
    BY <1>20 DEF Restored!Settle
  <2>2. "nothing was written" \in ledger' => pc' = "ended" /\ ~started
    <3>1. CASE result = "ok"
      BY <1>20, <3>1 DEF Restored!Settle
    <3>2. CASE result # "ok"
      <4>1. started => Restored!Describe # "nothing was written"
        BY <3>2 DEF Restored!Describe
      <4>2. pc' = "ended" /\ ledger' = ledger \cup {Restored!Describe}
        BY <1>20, <3>2 DEF Restored!Settle
      <4> QED
        BY <4>1, <4>2
    <3> QED
      BY <3>1, <3>2
  <2> QED
    BY <2>1, <2>2
<1>21. CASE Restored!Validate
  BY <1>21 DEF Restored!Validate, Restored!Describe
<1>22. CASE Restored!Write
  BY <1>22 DEF Restored!Write
<1>23. CASE Restored!ImportEnds
  BY <1>23 DEF Restored!ImportEnds, Restored!Return
<1>24. CASE Restored!ImportFails
  BY <1>24 DEF Restored!ImportFails, Restored!Return
<1>25. CASE Restored!ImportDies
  BY <1>25 DEF Restored!ImportDies
<1>26. CASE Restored!Cancel
  BY <1>26 DEF Restored!Cancel
<1>27. CASE Restored!Elsewhere
  BY <1>27 DEF Restored!Elsewhere
<1>28. CASE UNCHANGED Restored!vars
  BY <1>28 DEF Restored!vars
<1> QED
  BY <1>1, <1>2, <1>3, <1>4, <1>5, <1>6, <1>7, <1>8, <1>9, <1>10, <1>11, <1>12, <1>13, <1>14,
     <1>15, <1>16, <1>17, <1>18, <1>19, <1>20, <1>21, <1>22, <1>23, <1>24, <1>25, <1>26, <1>27,
     <1>28 DEF Restored!Next, Restored!Step

\* Every step is one of the restore, or leaves it alone.
LEMMA RestoreImplemented == Spec => Restored!Spec
<1>1. Init => Restored!Init
  BY DEF Init
<1>2. [Next]_vars => [Restored!Next]_(Restored!vars)
  BY DEF Next, OfSessions, OfRestore, vars, restoreVars, Restored!vars, Restored!asked,
         Restored!outside, Restored!request, Restored!import, Restored!context
<1> QED
  BY <1>1, <1>2, PTL DEF Spec, Restored!Spec

LEMMA RestoreInvariant == Spec => []RestoreInv
<1> QED
  BY RestoreImplemented, RestoreInit, RestoreStep, PTL DEF Restored!Spec

\* Nothing is written from a snapshot that is not as it was sealed (restore.go,
\* runRestore: a snapshot that does not verify goes no further).
THEOREM RestoresVerified == Spec => []WritesOnlyVerified
<1>1. RestoreInv => WritesOnlyVerified
  BY DEF RestoreInv, NotedFirst, SealedPastVerify, WritesOnlyVerified, Restored!WritesOnlyVerified
<1> QED
  BY <1>1, RestoreInvariant, PTL

\* A restore that says nothing was written has written nothing, and nothing of it
\* is left that still could (restore.go, appliedState).
THEOREM NothingIsNothing == Spec => []NothingMeansNothing
<1>1. RestoreInv => NothingMeansNothing
  BY DEF RestoreInv, NotedFirst, SaidAtEnd, NothingMeansNothing, Restored!NothingMeansNothing
<1> QED
  BY <1>1, RestoreInvariant, PTL

\* From the window, a realm the guard has found is replaced only if its name was
\* typed (restore.go, guard).
THEOREM FoundIsTyped == Spec => []SeenIsTyped
<1>1. RestoreInv => SeenIsTyped
  BY DEF RestoreInv, ConfirmedByName, FoundIsConfirmed, ReplacedByOverwrite, SeenIsTyped,
         Restored!SeenIsTyped, Restored!Confirmed
<1> QED
  BY <1>1, RestoreInvariant, PTL

-----------------------------------------------------------------------------
(***************************************************************************)
(* The sessions.  The argument: a step that takes a session to its end     *)
(* removes the directory, and any other leaves some session short of it.   *)
(***************************************************************************)
Sessions == Opened!Session
Stages == stage \in [Sessions -> Opened!Stage]
SessionInv == Stages /\ Opened!NothingDecryptedLeft

LEMMA SessionInit == Opened!Init => SessionInv
BY DEF Opened!Init, SessionInv, Stages, Sessions, Opened!NothingDecryptedLeft, Opened!Stage,
       Opened!Opening

LEMMA SessionStep == SessionInv /\ [Opened!Next]_(Opened!vars) => SessionInv'
<1> SUFFICES ASSUME SessionInv, [Opened!Next]_(Opened!vars) PROVE SessionInv'
  OBVIOUS
<1> USE DEF SessionInv, Stages, Sessions, Opened!NothingDecryptedLeft, Opened!Stage, Opened!Opening,
            Opened!Ended, Opened!Goto, Opened!RemoveDir
<1>1. ASSUME NEW s \in Sessions, Opened!Fetch(s) PROVE SessionInv'
  BY <1>1 DEF Opened!Fetch
<1>2. ASSUME NEW s \in Sessions, Opened!Fetched(s) PROVE SessionInv'
  BY <1>2 DEF Opened!Fetched
<1>3. ASSUME NEW s \in Sessions, Opened!Unseal(s) PROVE SessionInv'
  BY <1>3 DEF Opened!Unseal
<1>4. ASSUME NEW s \in Sessions, Opened!Opened(s) PROVE SessionInv'
  BY <1>4 DEF Opened!Opened
<1>5. ASSUME NEW s \in Sessions, Opened!OpenFails(s) PROVE SessionInv'
  BY <1>5 DEF Opened!OpenFails
<1>6. ASSUME NEW s \in Sessions, Opened!Register(s) PROVE SessionInv'
  BY <1>6 DEF Opened!Register
<1>7. ASSUME NEW s \in Sessions, Opened!Drop(s) PROVE SessionInv'
  BY <1>7 DEF Opened!Drop
<1>8. ASSUME NEW s \in Sessions, Opened!Shut(s) PROVE SessionInv'
  BY <1>8 DEF Opened!Shut
<1>9. ASSUME NEW s \in Sessions, Opened!Wipe(s) PROVE SessionInv'
  BY <1>9 DEF Opened!Wipe
<1>10. ASSUME NEW s \in Sessions, Opened!Push(s) PROVE SessionInv'
  BY <1>10 DEF Opened!Push
<1>11. ASSUME NEW s \in Sessions, Opened!Index(s) PROVE SessionInv'
  BY <1>11 DEF Opened!Index
<1>12. ASSUME NEW s \in Sessions, Opened!Indexed(s) PROVE SessionInv'
  BY <1>12 DEF Opened!Indexed
<1>13. ASSUME NEW s \in Sessions, Opened!IndexFails(s) PROVE SessionInv'
  BY <1>13 DEF Opened!IndexFails
<1>14. CASE Opened!PurgeBegin \/ Opened!PurgeEnd
  BY <1>14 DEF Opened!PurgeBegin, Opened!PurgeEnd, Opened!dirVars
<1>15. CASE UNCHANGED Opened!vars
  BY <1>15 DEF Opened!vars
<1> QED
  BY <1>1, <1>2, <1>3, <1>4, <1>5, <1>6, <1>7, <1>8, <1>9, <1>10, <1>11, <1>12, <1>13, <1>14,
     <1>15 DEF Opened!Next, Opened!Opens, Opened!Close

\* Every step is one of the sessions, or leaves them alone.
LEMMA SessionsImplemented == Spec => Opened!Spec
<1>1. Init => Opened!Init
  BY DEF Init
<1>2. [Next]_vars => [Opened!Next]_(Opened!vars)
  BY DEF Next, OfSessions, OfRestore, vars, sessionVars, Opened!vars
<1> QED
  BY <1>1, <1>2, PTL DEF Spec, Opened!Spec

\* Once every session on a snapshot is closed or failed to open, none of its
\* decrypted files are left (session.go, Close and the failing Open).
THEOREM NothingIsLeft == Spec => []NothingDecryptedLeft
<1>1. SessionInv => NothingDecryptedLeft
  BY DEF SessionInv, NothingDecryptedLeft
<1> QED
  BY <1>1, SessionsImplemented, SessionInit, SessionStep, PTL DEF Opened!Spec

=============================================================================
