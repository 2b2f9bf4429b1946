------------------------------ MODULE Settings ------------------------------
(***************************************************************************)
(* What the settings screens change on this machine: the configuration and *)
(* its secrets, and the folder everything is kept in.                      *)
(*                                                                         *)
(* A behaviour is about one screen.  The lists of the configuration share  *)
(* the steps of a save and nothing else, and a move of the folder knows of *)
(* the configuration only that it is saved: HomeMove has a save of its own *)
(* for that, and the screens together would only multiply their states.    *)
(***************************************************************************)
EXTENDS Naturals, TLC

CONSTANTS Proc, MaxCalls, MaxKeyCalls, MaxUpsets, Place, Default, Nowhere, MaxMoves, MaxSaves,
          MaxLinks

ASSUME SettingsAssumption == Default \in Place /\ Nowhere \notin Place

VARIABLES
  screen,
  file, keychain, mem, up, call, test, used, calls, upsets,
  tree, links, version, lock, pointer, forced, running, bound, memory, job, step, from, to,
  carried, report, moves, saves

Conf == INSTANCE ConfigStore
Move == INSTANCE HomeMove WITH up <- running

confVars == <<screen, file, keychain, mem, up, call, test, used, calls, upsets>>
folderVars == <<tree, links, version, lock, pointer, forced, running, bound, memory, job, step,
                from, to, carried, report, moves, saves>>
vars == <<confVars, folderVars>>

TypeOK == Conf!TypeOK /\ Move!TypeOK

\* Only the screen that moves the folder has to do with links in it.
Init ==
  /\ screen \in Conf!Class \cup {"folder"} /\ Conf!Clean /\ Move!Init
  /\ screen # "folder" => links[Default] = {}

Next ==
  \/ screen # "folder" /\ Conf!Next /\ UNCHANGED folderVars
  \/ screen = "folder" /\ Move!Next /\ UNCHANGED confVars

Spec == Init /\ [][Next]_vars

\* The two processes are alike, and so are the folders to move to.
Symmetry == Permutations(Proc) \cup Permutations(Place \ {Default})
-----------------------------------------------------------------------------
\* An edit that did not reach the file is not in memory either (Store.Update, cloneConfig).
FailedEditsLeaveNoTrace == [][Conf!LeavesNoTrace]_vars

\* A secret is forgotten only after its entry is gone (DeleteEnvironment, DeleteStorage).
ForgottenWhenGone == [][Conf!ForgetsWhatIsGone]_vars

\* The old folder or the new one holds all that PortCloak wrote, wherever a move stops
\* (MoveTree).
WholeSomewhere == Move!WholeSomewhere

\* A move that was reported done is found by the next start (rebind, LocateWith).
FoundAgain == Move!FoundAgain

\* An identity's public and private half are of one pair (KeysController.store).
PairsMatch == Conf!PairsMatch
=============================================================================
