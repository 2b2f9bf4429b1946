------------------------------ MODULE HomeMove ------------------------------
(***************************************************************************)
(* Where PortCloak keeps its folder, and moving it while the application   *)
(* runs.                                                                   *)
(*                                                                         *)
(* A start looks for the folder: the one it was told of, else the one the  *)
(* pointer file names, else the default.  A move renames the tree or,      *)
(* where that fails, copies it and removes the original; then each part of *)
(* the engine is bound to the new folder and the pointer file is written,  *)
(* last.  Everything may fail at every step, the process may be killed,    *)
(* and what the rest of the window does, such as saving the configuration  *)
(* or starting a capture, is not held back meanwhile.                      *)
(*                                                                         *)
(* An operator may have put a link in the place of a file or of the folder *)
(* itself.  A rename takes it along; a copy passes it over.                *)
(*                                                                         *)
(* Sources: app/relocate.go, engine/config/location.go and paths.go,       *)
(* app/engine.go, app/settings_controller.go, engine/obs/logger.go.        *)
(***************************************************************************)
EXTENDS Naturals, FiniteSets, SequencesExt

CONSTANTS
  Place,       \* folders that could hold the tree, none inside another
  Default,     \* the one of them that is ~/.portcloak
  Nowhere,     \* no folder
  MaxMoves,    \* bound: the moves a behaviour makes
  MaxSaves,    \* bound: its saves of the configuration and its captures
  MaxLinks     \* bound: the links in the folder at the outset

VARIABLES
  tree,     \* tree[x]: what folder x holds; {} where there is no folder
  links,    \* links[x]: what of it is a link, "dir" when the folder itself is one
  version,  \* version[x]: which save of config.yaml it holds, 0 for the template
  lock,     \* the folder whose lock file this process has its claim on
  pointer,  \* the folder the pointer file names
  forced,   \* the folder this process was told to use, by --home or PORTCLOAK_HOME
  up,       \* TRUE while the process runs
  bound,    \* bound[s]: the folder part s of the engine uses
  memory,   \* the save of the configuration the process holds
  job,      \* the folder a running capture keeps its files in
  step,     \* where the move has got to
  from, to, \* the folders of the last move
  carried,  \* what the last move had to bring over: parts, and the save; and the
            \* save that was held, in a linked file or not
  report,   \* what the operator was told of the last move
  moves, saves

treeVars == <<tree, links, version, lock>>
engineVars == <<up, bound, memory, forced>>
moveVars == <<from, to, carried>>
vars == <<treeVars, pointer, engineVars, job, step, moveVars, report, moves, saves>>

\* The files of the folder in the order a walk meets them.  "dir" is the folder itself.
Files == <<"audit.log", "config.yaml", "jobs", "portcloak.lock">>
Whole == {"dir"} \cup ToSet(Files)
Sub   == {"home", "jobs", "orchestrator", "log", "audit", "config"}

TypeOK ==
  /\ tree \in [Place -> SUBSET Whole] /\ links \in [Place -> SUBSET Whole]
  /\ version \in [Place -> 0 .. MaxSaves]
  /\ {lock, pointer, forced, job, from, to} \subseteq Place \cup {Nowhere}
  /\ bound \in [Sub -> Place \cup {Nowhere}]
  /\ step \in {"none", "rename", "copy", "remove", "bootstrap", "bind", "point"}
  /\ report \in {"none", "moved", "failed"}
  /\ memory \in 0 .. MaxSaves

\* LocateWith: the folder a start with this override would use.
Locate(override) ==
  IF override # Nowhere THEN override
  ELSE IF pointer # Nowhere /\ tree[pointer] # {} THEN pointer ELSE Default

\* Bootstrap makes whatever is missing, and an empty configuration where there is none.
Bootstrapped(x) == [tree EXCEPT ![x] = Whole]
Template(x) == IF "config.yaml" \in tree[x] THEN version ELSE [version EXCEPT ![x] = 0]

\* What PortCloak itself wrote: it makes no links.
Own(x) == IF "dir" \in links[x] THEN {} ELSE tree[x] \ links[x]

\* PortCloak has been running in its default folder.
Init ==
  /\ tree = [x \in Place |-> IF x = Default THEN Whole ELSE {}]
  /\ \E l \in SUBSET Whole :
       /\ Cardinality(l) <= MaxLinks
       /\ links = [x \in Place |-> IF x = Default THEN l ELSE {}]
  /\ version = [x \in Place |-> 0] /\ lock = Default
  /\ pointer = Nowhere /\ forced = Nowhere /\ up = TRUE
  /\ bound = [s \in Sub |-> Default] /\ memory = 0
  /\ job = Nowhere /\ step = "none"
  /\ from = Nowhere /\ to = Nowhere /\ carried = [parts |-> {}, save |-> 0, held |-> 0]
  /\ report = "none" /\ moves = 0 /\ saves = 0
-----------------------------------------------------------------------------
(***************************************************************************)
(* Relocate's checks.  A folder named from outside cannot be moved, nor    *)
(* one in which a job runs, nor may it move into a folder with anything in *)
(* it.  The log file is closed.                                            *)
(***************************************************************************)
Pinned == forced # Nowhere
IdleForRelocation == job = Nowhere
CheckDestination(src, dst) == dst # src /\ tree[dst] \subseteq {"dir"}

Relocate(dst) ==
  /\ up /\ step = "none" /\ moves < MaxMoves
  /\ ~Pinned /\ IdleForRelocation /\ CheckDestination(bound["home"], dst)
  /\ step' = "rename" /\ moves' = moves + 1
  /\ from' = bound["home"] /\ to' = dst /\ report' = "none"
  /\ carried' = [parts |-> Own(from'),
                 save |-> IF "config.yaml" \in Own(from') THEN version[from'] ELSE 0,
                 held |-> IF "config.yaml" \in tree[from'] THEN version[from'] ELSE 0]
  /\ bound' = [bound EXCEPT !["log"] = Nowhere]
  /\ UNCHANGED <<treeVars, pointer, up, memory, forced, job, saves>>

Keep == UNCHANGED <<pointer, up, memory, forced, job, moveVars, moves, saves>>

\* MoveTree failed: the log goes back, if it can, to the old folder, which it makes if it must.
GiveUp(t) ==
  /\ step' = "none" /\ report' = "failed"
  /\ \/ tree' = t /\ UNCHANGED bound
     \/ /\ tree' = [t EXCEPT ![from] = @ \cup {"dir"}]
        /\ bound' = [bound EXCEPT !["log"] = from]

\* The tree is renamed, and with it the lock file; its mode may then be refused.
\* Of a folder that is a link, the link is.
Moved == [tree EXCEPT ![to] = tree[from], ![from] = {}]
Rename ==
  /\ step = "rename" /\ tree[from] # {}
  /\ version' = [version EXCEPT ![to] = version[from]]
  /\ links' = [links EXCEPT ![to] = links[from], ![from] = {}]
  /\ lock' = IF lock = from THEN to ELSE lock
  /\ \/ tree' = Moved /\ step' = "bootstrap" /\ UNCHANGED <<bound, report>>
     \/ GiveUp(Moved)
  /\ Keep

\* Across filesystems there is no rename, nor of a tree an earlier failure left elsewhere.
\* The walk of a folder that is a link ends where it begins.
RenameRefused ==
  /\ step = "rename" /\ step' = "copy"
  /\ tree' = [tree EXCEPT ![to] = {"dir"} \ links[from]]
  /\ links' = [links EXCEPT ![to] = {}]
  /\ UNCHANGED <<version, lock, bound, report>> /\ Keep

Uncopied == {i \in DOMAIN Files : Files[i] \in Own(from) \ tree[to]}

\* copyTree, one file at a time; nothing is looked at again once it is copied, and a
\* link is passed over without a word.
CopyFile ==
  /\ step = "copy"
  /\ \E i \in Uncopied :
       /\ \A j \in Uncopied : i <= j
       /\ tree' = [tree EXCEPT ![to] = @ \cup {Files[i]}]
       /\ version' = IF Files[i] = "config.yaml" THEN [version EXCEPT ![to] = version[from]]
                     ELSE version
  /\ UNCHANGED <<links, lock, step, bound, report>> /\ Keep

\* Mutant: what could not be copied is skipped, and the original removed all the same.
CopyFailsQuietly ==
  /\ step = "copy" /\ Uncopied # {} /\ step' = "remove"
  /\ UNCHANGED <<treeVars, bound, report>> /\ Keep

\* A copy that fails is removed, as far as that goes.
CopyFails ==
  /\ step = "copy"
  /\ \E left \in SUBSET tree[to] : GiveUp([tree EXCEPT ![to] = left])
  /\ UNCHANGED <<links, version, lock>> /\ Keep

CopyEnds ==
  /\ step = "copy" /\ tree[from] # {} /\ Uncopied = {} /\ step' = "remove"
  /\ UNCHANGED <<treeVars, bound, report>> /\ Keep

\* RemoveAll of the original, in no order: the claim stays with a file that has no name.
\* Of a folder that is a link it removes the link.
Removed(gone) ==
  /\ tree' = [tree EXCEPT ![from] = @ \ gone] /\ links' = [links EXCEPT ![from] = @ \ gone]
  /\ lock' = IF "portcloak.lock" \in gone /\ lock = from THEN Nowhere ELSE lock
RemoveOne ==
  /\ step = "remove"
  /\ \/ "dir" \in links[from] /\ Removed(Whole)
     \/ \E f \in tree[from] :
          "dir" \notin links[from] /\ (f = "dir" => tree[from] = {"dir"}) /\ Removed({f})
  /\ step' = IF tree'[from] = {} THEN "bootstrap" ELSE "remove"
  /\ UNCHANGED <<version, bound, report>> /\ Keep

RemoveFails ==
  /\ step = "remove" /\ GiveUp(tree)
  /\ UNCHANGED <<links, version, lock>> /\ Keep
-----------------------------------------------------------------------------
\* rebind begins by making sure of the tree; where it cannot, nothing is bound.
Bootstrap ==
  /\ step = "bootstrap" /\ step' = "bind"
  /\ tree' = Bootstrapped(to) /\ version' = Template(to)
  /\ UNCHANGED <<links, lock, bound, report>> /\ Keep
BootstrapFails ==
  /\ step = "bootstrap" /\ step' = "none" /\ report' = "failed"
  /\ UNCHANGED <<treeVars, bound>> /\ Keep

(***************************************************************************)
(* The parts of the engine are bound one after the other.  The log and the *)
(* audit log may refuse, which is remembered and not the end of it.        *)
(***************************************************************************)
Rebind ==
  /\ step = "bind" /\ step' = "point"
  /\ \E refuse \in SUBSET {"log", "audit"} :
       /\ bound' = [s \in Sub |-> IF s \in refuse THEN bound[s] ELSE to]
       /\ report' = IF refuse = {} THEN report ELSE "failed"
  /\ memory' = version[to]
  /\ UNCHANGED <<treeVars, pointer, up, forced, job, moveVars, moves, saves>>

Told(ok) == report' = IF ok /\ report # "failed" THEN "moved" ELSE "failed"

\* Mutant: whether the folder could be recorded is not part of the answer.
PointQuietly ==
  /\ step = "point" /\ step' = "none" /\ Told(TRUE)
  /\ pointer' \in {pointer, IF to = Default THEN Nowhere ELSE to}
  /\ UNCHANGED <<treeVars, engineVars, job, moveVars, moves, saves>>

\* The pointer is written last, or cleared when the folder is the default one again.
Point ==
  /\ step = "point" /\ step' = "none"
  /\ \/ pointer' = (IF to = Default THEN Nowhere ELSE to) /\ Told(TRUE)
     \/ UNCHANGED pointer /\ Told(FALSE)
  /\ UNCHANGED <<treeVars, engineVars, job, moveVars, moves, saves>>
-----------------------------------------------------------------------------
\* newEngineAt: the folder is found, completed and bound.
Start(override) ==
  /\ ~up /\ up' = TRUE /\ forced' = override
  /\ LET x == Locate(override)
     IN  /\ tree' = Bootstrapped(x) /\ version' = Template(x)
         /\ bound' = [s \in Sub |-> x] /\ memory' = version'[x] /\ lock' = x
  /\ UNCHANGED <<links, pointer, job, step, moveVars, report, moves, saves>>

Crash ==
  /\ up /\ up' = FALSE /\ step' = "none" /\ job' = Nowhere /\ lock' = Nowhere
  /\ report' = IF step = "none" THEN report ELSE "failed"
  /\ UNCHANGED <<tree, links, version, pointer, bound, memory, forced, moveVars, moves, saves>>

\* A save goes to the folder the configuration store is bound to, which it makes if it
\* must, and takes the place of a link.
SaveConfig ==
  /\ up /\ saves < MaxSaves /\ saves' = saves + 1
  /\ LET x == bound["config"]
     IN  /\ tree' = [tree EXCEPT ![x] = @ \cup {"dir", "config.yaml"}]
         /\ links' = [links EXCEPT ![x] = @ \ {"config.yaml"}]
         /\ version' = [version EXCEPT ![x] = saves']
  /\ memory' = saves'
  /\ UNCHANGED <<lock, pointer, up, bound, forced, job, step, moveVars, report, moves>>

\* A capture works in the folder the orchestrator was bound to when it began.
StartJob ==
  /\ up /\ job = Nowhere /\ saves < MaxSaves /\ saves' = saves + 1
  /\ job' = bound["orchestrator"]
  /\ tree' = [tree EXCEPT ![job'] = @ \cup {"dir", "jobs"}]
  /\ UNCHANGED <<links, version, lock, pointer, engineVars, step, moveVars, report, moves>>
EndJob ==
  /\ job # Nowhere /\ job' = Nowhere
  /\ UNCHANGED <<treeVars, pointer, engineVars, step, moveVars, report, moves, saves>>

MoveStep ==
  \/ Rename \/ RenameRefused \/ CopyFile \/ CopyFails \/ CopyEnds \/ RemoveOne \/ RemoveFails
  \/ Bootstrap \/ BootstrapFails \/ Rebind \/ Point

Next ==
  \/ \E x \in Place : Relocate(x)
  \/ MoveStep
  \/ \E x \in Place \cup {Nowhere} : Start(x)
  \/ Crash \/ SaveConfig \/ StartJob \/ EndJob

Spec == Init /\ [][Next]_vars
-----------------------------------------------------------------------------
Carries(x) == carried.parts \subseteq tree[x] /\ version[x] >= carried.save

(***************************************************************************)
(* A move loses nothing of PortCloak's own that it set out with: from its  *)
(* first step on, and whatever then fails or is killed, the old folder or  *)
(* the new one holds every file the old one held, with the configuration   *)
(* as it was or later.  What an operator's link stood for is another       *)
(* matter: LinksAreCarried, below.                                         *)
(***************************************************************************)
WholeSomewhere == from # Nowhere => Carries(from) \/ Carries(to)

(***************************************************************************)
(* A folder that was reported moved is found again: the next start, told   *)
(* nothing, would use it, it holds what was moved, and every part of a     *)
(* running engine that was told nothing is bound to it.                    *)
(***************************************************************************)
FoundAgain ==
  report = "moved" =>
    /\ Locate(Nowhere) = to /\ Carries(to)
    /\ up /\ ~Pinned => \A s \in Sub : bound[s] = to
-----------------------------------------------------------------------------
(***************************************************************************)
(* What the sources say and the code does not keep: see the README.        *)
(***************************************************************************)

\* "The tree is still whole at the old location", where MoveTree failed (relocate.go:69).
StillWholeAtTheOld == (report = "failed" /\ up /\ bound["home"] = from) => Carries(from)

\* MoveTree "copies the tree, verifies it arrived, and only then removes the original"
\* (location.go:254), also where config.yaml, or the folder, is a link.
LinksAreCarried == report = "moved" => version[to] >= carried.held

\* A move that fails leaves nothing "split across two folders, with the app
\* pointing at neither" (location.go:187): the next start finds the whole tree.
NextStartFindsIt == from # Nowhere => Carries(Locate(Nowhere))

\* "A job holds paths under the old root for its whole life" (relocate.go:25).
JobKeepsItsFolder == job # Nowhere => "jobs" \in tree[job]

\* "A folder that has been moved takes its lock with it" (paths.go:78).
LockMovesAlong == up /\ step = "none" => lock = bound["home"]

\* "Nothing else is running" while the folder moves (relocate.go:63): no save is lost by it.
SavedStaysSaved == [][up /\ up' => memory' >= memory]_vars
=============================================================================
