------------------------------- MODULE Bundles -------------------------------
(***************************************************************************)
(* What a snapshot is, from the export to the reader: sealed and opened    *)
(* again, inventoried, its users indexed, and kept on a storage's shelf.   *)
(*                                                                         *)
(* A behaviour is about one of the four.  Each works on what the one       *)
(* before it finished (module CaptureBatch orders the writing, module      *)
(* SnapshotSessions the reading), and they share no state.                 *)
(***************************************************************************)
EXTENDS Naturals, FiniteSets

CONSTANTS
  RealmFiles, Versions, Longer, Identity, Passphrase, HeaderHolds, MaxRecipients, MaxCandidates,
  MaxHarm, MaxOpens,
  Client, Public, Bracketable, MaxOdd, MaxReveals,
  UserId, Role, MaxUsers, MaxDetails,
  Snapshot, Storage, Span, Minute, MaxTime, MaxUpsets, MaxLists

ASSUME BundlesAssumption ==
  /\ {HeaderHolds, MaxRecipients, MaxCandidates, MaxHarm, MaxOpens, MaxOdd, MaxReveals, MaxUsers,
      MaxDetails, MaxTime, MaxUpsets, MaxLists} \subseteq Nat
  /\ {Span, Minute} \subseteq Nat \ {0}
  /\ Identity \cap Passphrase = {} /\ Public \subseteq Client

VARIABLES
  part,
  enc, staging, leaves, stage, archive, readable, header, request, session, unlocked, remembered,
  harm, opens,
  realm, keys, higher, bracket, step, verified, live, flagged, found, scanned, manifest, allowed,
  shown, log,
  realmFile, holds, counted, phase, todo, table, joined, inserted, detail, details,
  clock, taken, upload, stopped, objects, delete, list, upsets, lists

Seals == INSTANCE Sealing
Lists == INSTANCE Inventory
Users == INSTANCE UserIndex
Keeps == INSTANCE Shelf

\* The files of an export, which bear none of PortCloak's own names, and the keys there are.
ASSUME SealingAssumption ==
  /\ IsFiniteSet(RealmFiles \cup Identity \cup Passphrase)
  /\ RealmFiles \cap (Seals!Documents \cup Seals!Uncovered) = {}
  /\ "" \notin Identity \cup Passphrase

sealVars == <<enc, staging, leaves, stage, archive, readable, header, request, session, unlocked,
              remembered, harm, opens>>
listVars == <<realm, keys, higher, bracket, step, verified, live, flagged, found, scanned, manifest,
              allowed, shown, log>>
userVars == <<realmFile, holds, counted, phase, todo, table, joined, inserted, detail, details>>
keepVars == <<clock, taken, upload, stopped, objects, delete, list, upsets, lists>>
vars == <<part, sealVars, listVars, userVars, keepVars>>

TypeOK == Seals!TypeOK /\ Lists!TypeOK /\ Users!TypeOK /\ Keeps!TypeOK

\* The parts a behaviour is not about stand still at some start of theirs.
Init ==
  /\ part \in {"seal", "inventory", "users", "shelf"}
  /\ IF part = "seal" THEN Seals!Init ELSE Seals!Starts([mode |-> "", to |-> <<>>])
  /\ IF part = "inventory" THEN Lists!Init
     ELSE Lists!Starts([s \in Lists!Slot |-> "real"], [k \in Lists!KeyProvider |-> Lists!Standard],
                       [k \in Lists!KeyProvider |-> k], "k1", "")
  /\ IF part = "users" THEN Users!Init ELSE Users!Starts("acme-realm.json", [f \in Users!Names |-> <<>>])
  /\ IF part = "shelf" THEN Keeps!Init ELSE Keeps!Starts({})

Next ==
  \/ /\ part = "seal" /\ Seals!Next
     /\ UNCHANGED <<part, listVars, userVars, keepVars>>
  \/ /\ part = "inventory" /\ Lists!Next
     /\ UNCHANGED <<part, sealVars, userVars, keepVars>>
  \/ /\ part = "users" /\ Users!Next
     /\ UNCHANGED <<part, sealVars, listVars, keepVars>>
  \/ /\ part = "shelf" /\ Keeps!Next
     /\ UNCHANGED <<part, sealVars, listVars, userVars>>

Spec == Init /\ [][Next]_vars
-----------------------------------------------------------------------------
\* A bundle that opens with a verdict of OK holds what was staged for it, all of
\* it and nothing else (Builder.Seal, snapshot.Open, IntegrityTree.Verify).
OkIsWhatWasSealed == [][Seals!OkIsWhatWasSealedStep]_vars

\* A bundle nothing happened to opens, and is OK, with any of its keys, typed or
\* held, and the key that is named is one that fits (unseal).
UndamagedOpens == [][Seals!UndamagedOpensStep]_vars

\* A manifest that says Complete lists no placeholder, has the material of the key
\* tokens are signed with, and, once verified, every client's secret (buildCompleteness).
CompleteIsWhole == Lists!CompleteIsWhole

\* An index that answers has a row of every user the manifest counted, if ids are
\* distinct and the users in one place (Index.Build, countPopulation).
EveryoneIsThere == Users!EveryoneIsThere

\* The row, the roles and the record that are shown together are one user's, and of
\* the one asked for, id or no id, if ids are distinct (Index.Build, Session.User).
DetailIsOfOneUser == Users!DetailIsOfOneUser

\* A library that read a storage has an entry for every bundle that was there
\* throughout, whatever became of its sidecars (BuildLibrary, Group).
NothingIsMissed == Keeps!NothingIsMissed
=============================================================================
