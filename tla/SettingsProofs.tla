-------------------------- MODULE SettingsProofs ---------------------------
(***************************************************************************)
(* Proofs about the configuration and the folder it is kept in.            *)
(*                                                                         *)
(* The folder: wherever a move stops, one folder holds everything that     *)
(* PortCloak wrote, and a move that was reported done is found by the next *)
(* start.                                                                  *)
(*                                                                         *)
(* The configuration: an edit that came to nothing leaves no trace in      *)
(* memory, and a secret is forgotten only when its entry is gone.  Both    *)
(* need to know of every list that a process holds, or is about to write,  *)
(* that it has no name twice: a deletion by name then leaves none of it.   *)
(***************************************************************************)
EXTENDS Settings, FiniteSetTheorems, SequenceTheorems, TLAPS

\* What the steps go by: a folder's save is one that was made, everything but the log is
\* bound to a folder, and the move has two of them.
Folders ==
  /\ tree \in [Place -> SUBSET Move!Whole] /\ version \in [Place -> Nat] /\ saves \in Nat
  /\ links \in [Place -> SUBSET Move!Whole]
  /\ \A x \in Place : version[x] <= saves
  /\ bound \in [Move!Sub -> Place \cup {Nowhere}]
  /\ \A s \in Move!Sub \ {"log"} : bound[s] \in Place
  /\ pointer \in Place \cup {Nowhere}
  /\ step \in {"none", "rename", "copy", "remove", "bootstrap", "bind", "point"}
  /\ step # "none" => running /\ from # Nowhere
  /\ from # Nowhere => from \in Place /\ to \in Place /\ from # to
  /\ carried.parts \subseteq Move!Whole /\ carried.save \in Nat
  /\ "config.yaml" \notin carried.parts => carried.save = 0

\* Where the tree is while it moves, and that it is somewhere ever after.
Carried ==
  from # Nowhere =>
    /\ step \in {"rename", "copy"} => Move!Carries(from) /\ carried.parts \subseteq Move!Own(from)
    /\ step = "copy" => /\ "dir" \in carried.parts => "dir" \in tree[to]
                        /\ "config.yaml" \in tree[to] => version[to] >= carried.save
    /\ step \in {"remove", "bootstrap", "bind", "point"} => Move!Carries(to)
    /\ Move!Carries(from) \/ Move!Carries(to)

\* The folder is whole before anything is bound to it, and everything is bound to it
\* before the pointer is written.
Found ==
  /\ step \in {"bind", "point"} => tree[to] = Move!Whole
  /\ step = "point" /\ report # "failed" => \A s \in Move!Sub : bound[s] = to
  /\ report = "moved" =>
       /\ step = "none" /\ from # Nowhere /\ Move!Carries(to) /\ tree[to] # {}
       /\ pointer = IF to = Default THEN Nowhere ELSE to
       /\ running /\ forced = Nowhere => \A s \in Move!Sub : bound[s] = to

MoveInv == Folders /\ Carried /\ Found

\* The files of the tree.
LEMMA FilesOfTheTree ==
  /\ Move!Whole = {"dir"} \cup {Move!Files[i] : i \in DOMAIN Move!Files}
  /\ {"dir", "config.yaml", "jobs"} \subseteq Move!Whole
<1> DEFINE v == <<"audit.log", "config.yaml", "jobs", "portcloak.lock">>
<1>1. DOMAIN v = 1..4 /\ v[2] = "config.yaml" /\ v[3] = "jobs"
  OBVIOUS
<1>2. Move!Whole = {"dir"} \cup {v[i] : i \in DOMAIN v}
  BY DEF Move!Whole, Move!Files, Move!ToSet
<1>3. 2 \in 1..4 /\ 3 \in 1..4
  OBVIOUS
<1>4. v = Move!Files
  BY DEF Move!Files
<1> HIDE DEF v
<1> QED
  BY <1>1, <1>2, <1>3, <1>4, Zenon

\* A folder that only grows goes on carrying what it carried.
LEMMA Grows ==
  ASSUME Folders, NEW x \in Place, Move!Carries(x), UNCHANGED carried,
         tree[x] \subseteq tree'[x], version'[x] \in Nat, version[x] <= version'[x]
  PROVE  Move!Carries(x)'
BY DEF Folders, Move!Carries

\* A folder that is completed as well: an empty configuration takes the place of none.
LEMMA Completed ==
  ASSUME Folders, NEW x \in Place, tree' = Move!Bootstrapped(x), version' = Move!Template(x)
  PROVE  /\ tree' \in [Place -> SUBSET Move!Whole] /\ version' \in [Place -> Nat]
         /\ tree'[x] = Move!Whole
         /\ \A y \in Place : tree[y] \subseteq tree'[y] /\ version'[y] <= saves
         /\ UNCHANGED carried => \A y \in Place : Move!Carries(y) => Move!Carries(y)'
<1> USE DEF Folders, Move!Bootstrapped, Move!Template
<1>1. /\ tree' \in [Place -> SUBSET Move!Whole] /\ tree'[x] = Move!Whole
      /\ \A y \in Place : tree[y] \subseteq tree'[y]
  OBVIOUS
<1>2. \A y \in Place : version'[y] = version[y]
                       \/ (y = x /\ version'[y] = 0 /\ "config.yaml" \notin tree[y])
  OBVIOUS
<1>3. version' \in [Place -> Nat] /\ \A y \in Place : version'[y] <= saves
  OBVIOUS
<1>4. ASSUME UNCHANGED carried, NEW y \in Place, Move!Carries(y) PROVE Move!Carries(y)'
  <2>1. CASE version'[y] = version[y]
    BY <1>1, <1>4, <2>1 DEF Move!Carries
  <2>2. CASE version'[y] = 0 /\ "config.yaml" \notin tree[y]
    <3>1. carried.save = 0
      BY <1>4, <2>2 DEF Move!Carries
    <3> QED
      BY <1>1, <1>4, <2>2, <3>1 DEF Move!Carries
  <2> QED
    BY <1>2, <2>1, <2>2
<1> QED
  BY <1>1, <1>3, <1>4

\* It starts in the default folder.
LEMMA MoveStarts == Move!Init => MoveInv
<1> SUFFICES ASSUME Move!Init PROVE MoveInv
  OBVIOUS
<1> USE SettingsAssumption DEF Move!Init
<1>1. Folders
  BY DEF Folders
<1>2. Carried /\ Found
  BY DEF Carried, Found
<1> QED
  BY <1>1, <1>2 DEF MoveInv

\* A move that begins sets out with what the old folder holds.
LEMMA RelocateKeeps == ASSUME MoveInv, NEW x \in Place, Move!Relocate(x) PROVE MoveInv'
<1> USE SettingsAssumption
        DEF MoveInv, Move!Relocate, Move!CheckDestination, Move!treeVars
<1>1. /\ from' = bound["home"] /\ to' = x /\ bound["home"] \in Place /\ x # bound["home"]
      /\ step' = "rename" /\ report' = "none" /\ running /\ UNCHANGED <<tree, links, version, saves>>
      /\ carried'.parts = Move!Own(from') /\ carried'.parts \subseteq tree[from']
      /\ carried'.save = IF "config.yaml" \in Move!Own(from') THEN version[from'] ELSE 0
  BY DEF Folders, Move!Sub, Move!Own
<1>2. /\ bound' \in [Move!Sub -> Place \cup {Nowhere}]
      /\ \A s \in Move!Sub \ {"log"} : bound'[s] \in Place
  BY DEF Folders, Move!Sub
<1>3. /\ carried'.parts \subseteq Move!Whole /\ carried'.save \in Nat
      /\ "config.yaml" \notin carried'.parts => carried'.save = 0
  BY <1>1 DEF Folders
<1>4. Folders'
  BY <1>1, <1>2, <1>3 DEF Folders
<1>5. Move!Carries(from)'
  BY <1>1 DEF Folders, Move!Carries
<1>6. Carried'
  BY <1>1, <1>5 DEF Carried, Move!Own
<1>7. Found'
  BY <1>1 DEF Found
<1> QED
  BY <1>4, <1>6, <1>7

\* A move that is given up leaves the tree as it is, but for the folder of the log.
LEMMA GivenUpKeeps ==
  ASSUME MoveInv, step # "none", Move!Keep, NEW t \in [Place -> SUBSET Move!Whole],
         Move!GiveUp(t), version' \in [Place -> Nat], \A x \in Place : version'[x] <= saves,
         links' \in [Place -> SUBSET Move!Whole],
         \/ carried.parts \subseteq t[from] /\ version'[from] >= carried.save
         \/ carried.parts \subseteq t[to] /\ version'[to] >= carried.save
  PROVE  MoveInv'
<1> USE DEF MoveInv, Move!Keep, Move!moveVars
<1>1. from \in Place /\ to \in Place /\ from # to /\ UNCHANGED <<from, to, carried>>
  BY DEF Folders
<1>2. /\ tree' \in [Place -> SUBSET Move!Whole] /\ \A x \in Place : t[x] \subseteq tree'[x]
      /\ bound' \in [Move!Sub -> Place \cup {Nowhere}]
      /\ \A s \in Move!Sub \ {"log"} : bound'[s] = bound[s]
  BY <1>1, FilesOfTheTree DEF Move!GiveUp, Folders
<1>3. step' = "none" /\ report' = "failed"
  BY DEF Move!GiveUp
<1>4. Folders'
  BY <1>1, <1>2, <1>3 DEF Folders
<1>5. Move!Carries(from)' \/ Move!Carries(to)'
  BY <1>1, <1>2 DEF Move!Carries
<1>6. Carried' /\ Found'
  BY <1>3, <1>5 DEF Carried, Found
<1> QED
  BY <1>4, <1>6

\* The rename takes everything along, and its save.
LEMMA RenameKeeps == ASSUME MoveInv, Move!Rename PROVE MoveInv'
<1> USE DEF MoveInv, Move!Rename
<1>1. from \in Place /\ to \in Place /\ from # to /\ Move!Carries(from)
  BY DEF Folders, Carried
<1>2. /\ Move!Moved \in [Place -> SUBSET Move!Whole]
      /\ Move!Moved[to] = tree[from]
  BY <1>1 DEF Folders, Move!Moved
<1>3. /\ version' \in [Place -> Nat] /\ version'[to] = version[from]
      /\ \A x \in Place : version'[x] <= saves
      /\ links' \in [Place -> SUBSET Move!Whole]
  BY <1>1 DEF Folders
<1>4. carried.parts \subseteq Move!Moved[to] /\ version'[to] >= carried.save
  BY <1>1, <1>2, <1>3 DEF Move!Carries
<1>5. CASE Move!GiveUp(Move!Moved)
  BY <1>2, <1>3, <1>4, <1>5, GivenUpKeeps
<1>6. CASE tree' = Move!Moved /\ step' = "bootstrap" /\ UNCHANGED <<bound, report>>
  <2> USE <1>6 DEF Move!Keep, Move!moveVars
  <2>1. Folders'
    BY <1>1, <1>2, <1>3 DEF Folders
  <2>2. Move!Carries(to)'
    BY <1>2, <1>4 DEF Move!Carries
  <2>3. Carried' /\ Found'
    BY <2>2 DEF Carried, Found
  <2> QED
    BY <2>1, <2>3
<1> QED
  BY <1>5, <1>6

\* The other ways a move goes on, and how each of them ends.
LEMMA RenameRefusedKeeps == ASSUME MoveInv, Move!RenameRefused PROVE MoveInv'
<1> USE DEF MoveInv, Move!RenameRefused, Move!Keep, Move!moveVars
<1>1. from \in Place /\ to \in Place /\ from # to /\ Move!Carries(from)
  BY DEF Folders, Carried
<1>2. /\ tree' \in [Place -> SUBSET Move!Whole] /\ tree'[to] = {"dir"} \ links[from]
      /\ tree'[from] = tree[from] /\ links' \in [Place -> SUBSET Move!Whole]
      /\ links'[from] = links[from]
  BY <1>1, FilesOfTheTree DEF Folders
<1>3. Folders'
  BY <1>2 DEF Folders
<1>4. Move!Carries(from)'
  BY <1>1, <1>2 DEF Move!Carries
<1>5. carried.parts \subseteq Move!Own(from) /\ carried'.parts \subseteq Move!Own(from)'
  <2>1. carried.parts \subseteq Move!Own(from)
    BY <1>1 DEF Carried, Folders
  <2>2. Move!Own(from)' = Move!Own(from)
    BY <1>1, <1>2 DEF Move!Own
  <2> QED
    BY <2>1, <2>2
<1>6. Carried' /\ Found'
  BY <1>2, <1>4, <1>5 DEF Carried, Found, Move!Own
<1> QED
  BY <1>3, <1>6

\* A file is copied with what it holds, and the configuration with its save.
LEMMA CopyFileKeeps == ASSUME MoveInv, Move!CopyFile PROVE MoveInv'
<1> USE DEF MoveInv, Move!CopyFile, Move!Keep, Move!moveVars
<1>1. from \in Place /\ to \in Place /\ from # to /\ Move!Carries(from) /\ from # Nowhere
  BY DEF Folders, Carried
<1>2. PICK i \in Move!Uncopied :
        /\ tree' = [tree EXCEPT ![to] = @ \cup {Move!Files[i]}]
        /\ version' = IF Move!Files[i] = "config.yaml" THEN [version EXCEPT ![to] = version[from]]
                      ELSE version
  OBVIOUS
<1> DEFINE f == Move!Files[i]
<1>3. f \in tree[from]
  BY DEF Move!Uncopied, Move!Own
<1> HIDE DEF f
<1>4. /\ tree' \in [Place -> SUBSET Move!Whole] /\ tree'[from] = tree[from]
      /\ tree'[to] = tree[to] \cup {f}
  BY <1>1, <1>2, <1>3 DEF Folders, f
<1>5. /\ version' \in [Place -> Nat] /\ version'[from] = version[from]
      /\ version'[to] = IF f = "config.yaml" THEN version[from] ELSE version[to]
      /\ \A x \in Place : version'[x] <= saves
  BY <1>1, <1>2 DEF Folders, f
<1>6. Folders'
  BY <1>4, <1>5 DEF Folders
<1>7. Move!Carries(from)'
  BY <1>1, <1>4, <1>5 DEF Move!Carries
<1>8. /\ "dir" \in carried.parts => "dir" \in tree'[to]
      /\ "config.yaml" \in tree'[to] => version'[to] >= carried.save
      /\ carried'.parts \subseteq Move!Own(from)'
  BY <1>1, <1>4, <1>5 DEF Carried, Move!Carries, Move!Own
<1>9. Carried' /\ Found'
  BY <1>1, <1>7, <1>8 DEF Carried, Found
<1> QED
  BY <1>6, <1>9

\* A copy that fails is taken back, and the old folder is whole.
LEMMA CopyFailsKeeps == ASSUME MoveInv, Move!CopyFails PROVE MoveInv'
<1> USE DEF MoveInv, Move!CopyFails
<1>1. from \in Place /\ to \in Place /\ from # to /\ Move!Carries(from) /\ step # "none"
  BY DEF Folders, Carried
<1>2. PICK left \in SUBSET tree[to] : Move!GiveUp([tree EXCEPT ![to] = left])
  OBVIOUS
<1>3. /\ [tree EXCEPT ![to] = left] \in [Place -> SUBSET Move!Whole]
      /\ [tree EXCEPT ![to] = left][from] = tree[from]
  BY <1>1 DEF Folders
<1>4. /\ version' \in [Place -> Nat] /\ \A x \in Place : version'[x] <= saves
      /\ links' \in [Place -> SUBSET Move!Whole]
  BY DEF Folders
<1>5. carried.parts \subseteq tree[from] /\ version'[from] >= carried.save
  BY <1>1 DEF Move!Carries
<1> QED
  BY <1>1, <1>2, <1>3, <1>4, <1>5, GivenUpKeeps

\* With nothing left to copy the copy holds everything but the links.
LEMMA CopyEndsKeeps == ASSUME MoveInv, Move!CopyEnds PROVE MoveInv'
<1> USE DEF MoveInv, Move!CopyEnds, Move!Keep, Move!moveVars, Move!treeVars
<1>1. from \in Place /\ to \in Place /\ from # to /\ Move!Carries(from) /\ from # Nowhere
  BY DEF Folders, Carried
<1>2. carried.parts \subseteq tree[to]
  <2>1. /\ carried.parts \subseteq Move!Own(from) /\ carried.parts \subseteq Move!Whole
        /\ "dir" \in carried.parts => "dir" \in tree[to]
    BY <1>1 DEF Carried, Folders
  <2>2. \A i \in DOMAIN Move!Files : Move!Files[i] \in Move!Own(from) => Move!Files[i] \in tree[to]
    BY DEF Move!Uncopied
  <2> QED
    BY <2>1, <2>2, FilesOfTheTree
<1>3. version[to] >= carried.save
  <2>1. CASE "config.yaml" \in carried.parts
    BY <1>1, <1>2, <2>1 DEF Carried, Move!Carries
  <2>2. CASE "config.yaml" \notin carried.parts
    BY <1>1, <2>2 DEF Folders
  <2> QED
    BY <2>1, <2>2
<1>4. Folders'
  BY DEF Folders
<1>5. Move!Carries(to)'
  BY <1>1, <1>2, <1>3 DEF Move!Carries
<1>6. Carried' /\ Found'
  BY <1>5 DEF Carried, Found
<1> QED
  BY <1>4, <1>6

\* The old folder is emptied only once the new one holds everything.
LEMMA RemoveOneKeeps == ASSUME MoveInv, Move!RemoveOne PROVE MoveInv'
<1> USE DEF MoveInv, Move!RemoveOne, Move!Keep, Move!moveVars
<1>1. from \in Place /\ to \in Place /\ from # to /\ Move!Carries(to)
  BY DEF Folders, Carried
<1>2. /\ tree' \in [Place -> SUBSET Move!Whole] /\ tree'[to] = tree[to]
      /\ links' \in [Place -> SUBSET Move!Whole]
  <2>1. PICK gone \in SUBSET Move!Whole : Move!Removed(gone)
    BY <1>1 DEF Folders
  <2> QED
    BY <1>1, <2>1 DEF Folders, Move!Removed
<1>3. step' \in {"remove", "bootstrap"} /\ UNCHANGED <<version, bound, report>>
  OBVIOUS
<1>4. Folders'
  BY <1>2, <1>3 DEF Folders
<1>5. Move!Carries(to)'
  BY <1>1, <1>2 DEF Move!Carries
<1>6. Carried' /\ Found'
  BY <1>3, <1>5 DEF Carried, Found
<1> QED
  BY <1>4, <1>6

\* What cannot be removed stays, beside a whole copy.
LEMMA RemoveFailsKeeps == ASSUME MoveInv, Move!RemoveFails PROVE MoveInv'
<1> USE DEF MoveInv, Move!RemoveFails
<1>1. /\ Move!Carries(to) /\ step # "none" /\ tree \in [Place -> SUBSET Move!Whole]
      /\ links' \in [Place -> SUBSET Move!Whole]
      /\ version' \in [Place -> Nat] /\ \A x \in Place : version'[x] <= saves
  BY DEF Folders, Carried
<1>2. carried.parts \subseteq tree[to] /\ version'[to] >= carried.save
  BY <1>1 DEF Move!Carries
<1> QED
  BY <1>1, <1>2, GivenUpKeeps

\* The next start, which follows the pointer or takes the default folder.
LEMMA BootstrapKeeps == ASSUME MoveInv, Move!Bootstrap PROVE MoveInv'
<1> USE DEF MoveInv, Move!Bootstrap, Move!Keep, Move!moveVars
<1>1. from \in Place /\ to \in Place /\ from # to /\ Move!Carries(to) /\ from # Nowhere
  BY DEF Folders, Carried
<1>2. /\ tree' \in [Place -> SUBSET Move!Whole] /\ version' \in [Place -> Nat]
      /\ tree'[to] = Move!Whole /\ \A x \in Place : version'[x] <= saves
      /\ Move!Carries(to)'
  BY <1>1, Completed
<1>3. Folders'
  BY <1>1, <1>2 DEF Folders
<1>4. Carried'
  BY <1>2 DEF Carried
<1>5. Found'
  BY <1>2 DEF Found
<1> QED
  BY <1>3, <1>4, <1>5

\* Everything but what may refuse is bound to the new folder, and a refusal is remembered.
LEMMA RebindKeeps == ASSUME MoveInv, Move!Rebind PROVE MoveInv'
<1> USE DEF MoveInv, Move!Rebind, Move!moveVars, Move!treeVars
<1>1. from \in Place /\ to \in Place /\ from # to /\ Move!Carries(to) /\ from # Nowhere
  BY DEF Folders, Carried
<1>2. PICK refuse \in SUBSET {"log", "audit"} :
        /\ bound' = [s \in Move!Sub |-> IF s \in refuse THEN bound[s] ELSE to]
        /\ report' = IF refuse = {} THEN report ELSE "failed"
  OBVIOUS
<1>3. /\ bound' \in [Move!Sub -> Place \cup {Nowhere}]
      /\ \A s \in Move!Sub \ {"log"} : bound'[s] \in Place
      /\ report' # "failed" => \A s \in Move!Sub : bound'[s] = to
  BY <1>1, <1>2 DEF Folders
<1>4. Folders'
  BY <1>1, <1>3 DEF Folders
<1>5. Move!Carries(to)'
  BY <1>1 DEF Move!Carries
<1>6. Carried'
  BY <1>5 DEF Carried
<1>7. report' # "moved"
  BY <1>2 DEF Found
<1>8. Found'
  BY <1>3, <1>7 DEF Found
<1> QED
  BY <1>4, <1>6, <1>8

\* What was moved is where the pointer says, or the move is not reported.
LEMMA PointKeeps == ASSUME MoveInv, Move!Point PROVE MoveInv'
<1> USE DEF MoveInv, Move!Point, Move!Told, Move!moveVars, Move!treeVars, Move!engineVars
<1>1. from \in Place /\ to \in Place /\ from # to /\ Move!Carries(to) /\ from # Nowhere
  BY DEF Folders, Carried
<1>2. Move!Carries(to)'
  BY <1>1 DEF Move!Carries
<1>3. pointer' \in Place \cup {Nowhere}
  BY <1>1 DEF Folders
<1>4. Folders'
  BY <1>1, <1>3 DEF Folders
<1>5. Carried'
  BY <1>2 DEF Carried
<1>6. report' \in {"moved", "failed"}
      /\ (report' = "moved" =>
            report # "failed" /\ pointer' = IF to = Default THEN Nowhere ELSE to)
  OBVIOUS
<1>7. tree[to] # {}
  BY FilesOfTheTree DEF Found
<1>8. Found'
  BY <1>1, <1>2, <1>6, <1>7 DEF Found
<1> QED
  BY <1>4, <1>5, <1>8

\* A move that was reported is found by the next start.
LEMMA StartKeeps ==
  ASSUME MoveInv, NEW x \in Place \cup {Nowhere}, Move!Start(x)
  PROVE  MoveInv'
<1> USE SettingsAssumption DEF MoveInv, Move!Start, Move!moveVars
<1> DEFINE y == Move!Locate(x)
<1>1. y \in Place
  BY DEF Move!Locate, Folders
<1>2. /\ tree' = Move!Bootstrapped(y) /\ version' = Move!Template(y)
      /\ bound' = [s \in Move!Sub |-> y] /\ forced' = x
  OBVIOUS
<1>3. report = "moved" /\ x = Nowhere => y = to
  BY DEF Move!Locate, Found, Folders
<1> HIDE DEF y
<1>4. /\ tree' \in [Place -> SUBSET Move!Whole] /\ version' \in [Place -> Nat]
      /\ \A z \in Place : tree[z] \subseteq tree'[z] /\ version'[z] <= saves
      /\ \A z \in Place : Move!Carries(z) => Move!Carries(z)'
  BY <1>1, <1>2, Completed
<1>5. step = "none" /\ UNCHANGED <<from, to, carried, step, report, pointer, saves>>
  BY DEF Folders
<1>6. Folders'
  BY <1>1, <1>2, <1>4, <1>5 DEF Folders
<1>7. Carried'
  BY <1>4, <1>5 DEF Carried, Folders
<1>8. Found'
  <2> SUFFICES ASSUME report = "moved"
               PROVE  /\ Move!Carries(to)' /\ tree'[to] # {}
                      /\ forced' = Nowhere => \A s \in Move!Sub : bound'[s] = to
    BY <1>5 DEF Found
  <2>1. from # Nowhere /\ to \in Place /\ Move!Carries(to) /\ tree[to] # {}
    BY DEF Found, Folders
  <2>2. Move!Carries(to)' /\ tree'[to] # {}
    BY <2>1, <1>4
  <2>3. forced' = Nowhere => \A s \in Move!Sub : bound'[s] = to
    BY <1>2, <1>3
  <2> QED
    BY <2>2, <2>3
<1> QED
  BY <1>6, <1>7, <1>8

\* What the rest of the window does adds to a folder and takes nothing from any.
LEMMA AddedKeeps ==
  ASSUME MoveInv, NEW x \in Place, NEW new \in SUBSET Move!Whole,
         tree' = [tree EXCEPT ![x] = @ \cup new], saves' = saves + 1,
         \/ version' = [version EXCEPT ![x] = saves']
         \/ version' = version /\ "config.yaml" \notin new,
         links' \in [Place -> SUBSET Move!Whole], \A z \in Place : links'[z] \subseteq links[z],
         UNCHANGED <<pointer, running, bound, forced, step, from, to, carried, report>>
  PROVE  MoveInv'
<1> USE DEF MoveInv
<1>1. /\ tree' \in [Place -> SUBSET Move!Whole] /\ version' \in [Place -> Nat]
      /\ \A z \in Place : tree[z] \subseteq tree'[z]
      /\ \A z \in Place : version[z] <= version'[z] /\ version'[z] <= saves'
      /\ saves' \in Nat
  BY DEF Folders
<1>2. Folders'
  BY <1>1 DEF Folders
<1>3. \A z \in Place : Move!Carries(z) => Move!Carries(z)'
  BY <1>1, Grows
<1>4. step = "copy" /\ from # Nowhere =>
        ("dir" \in carried.parts => "dir" \in tree'[to]) /\ ("config.yaml" \in tree'[to] => version'[to] >= carried.save)
  <2> SUFFICES ASSUME step = "copy", from # Nowhere
               PROVE  ("dir" \in carried.parts => "dir" \in tree'[to])
                      /\ ("config.yaml" \in tree'[to] => version'[to] >= carried.save)
    OBVIOUS
  <2>1. /\ to \in Place /\ from \in Place /\ Move!Carries(from)
        /\ "dir" \in carried.parts => "dir" \in tree[to]
        /\ "config.yaml" \in tree[to] => version[to] >= carried.save
    BY DEF Carried, Folders
  <2>2. CASE "config.yaml" \in tree[to]
    BY <2>1, <2>2, <1>1 DEF Folders
  <2>3. CASE "config.yaml" \notin tree[to] /\ "config.yaml" \notin tree'[to]
    BY <2>1, <2>3, <1>1
  <2>4. CASE "config.yaml" \notin tree[to] /\ "config.yaml" \in tree'[to]
    <3>1. to = x
      BY <2>1, <2>4 DEF Folders
    <3>2. version'[to] = saves + 1
      BY <2>1, <2>4, <3>1 DEF Folders
    <3>3. version[from] >= carried.save /\ version[from] <= saves
          /\ version[from] \in Nat /\ saves \in Nat /\ carried.save \in Nat
      BY <2>1 DEF Move!Carries, Folders
    <3> QED
      BY <2>1, <1>1, <3>2, <3>3
  <2> QED
    BY <2>1, <2>2, <2>3, <2>4
<1>5. Carried'
  <2> SUFFICES ASSUME from # Nowhere PROVE Carried'
    BY DEF Carried
  <2>1. from \in Place /\ to \in Place
    BY DEF Folders
  <2>2. Move!Own(from) \subseteq Move!Own(from)'
    BY <2>1, <1>1 DEF Move!Own
  <2> QED
    BY <2>1, <2>2, <1>3, <1>4 DEF Carried
<1>6. Found'
  <2>1. step \in {"bind", "point"} => tree'[to] = Move!Whole
    BY <1>1 DEF Found, Folders
  <2>2. report = "moved" => Move!Carries(to)' /\ tree'[to] # {}
    BY <1>1, <1>3 DEF Found, Folders
  <2> QED
    BY <2>1, <2>2 DEF Found
<1> QED
  BY <1>2, <1>5, <1>6

\* Every step of the folder keeps the invariant.
LEMMA MoveKeeps == MoveInv /\ [Move!Next]_(Move!vars) => MoveInv'
<1> SUFFICES ASSUME MoveInv, [Move!Next]_(Move!vars) PROVE MoveInv'
  OBVIOUS
<1>1. CASE Move!BootstrapFails
  <2>1. /\ UNCHANGED <<tree, links, version, saves, bound, pointer, from, to, carried>>
        /\ step' = "none" /\ report' = "failed"
    BY <1>1 DEF Move!BootstrapFails, Move!Keep, Move!treeVars, Move!moveVars
  <2>2. Folders'
    BY <2>1 DEF MoveInv, Folders
  <2>3. Carried' /\ Found'
    BY <2>1 DEF MoveInv, Carried, Found, Move!Carries
  <2> QED
    BY <2>2, <2>3 DEF MoveInv
<1>2. CASE Move!Crash
  <2>1. /\ UNCHANGED <<tree, links, version, saves, bound, pointer, from, to, carried, forced>>
        /\ step' = "none" /\ running' = FALSE
        /\ report' = IF step = "none" THEN report ELSE "failed"
    BY <1>2 DEF Move!Crash, Move!moveVars
  <2>2. Folders'
    BY <2>1 DEF MoveInv, Folders
  <2>3. Carried' /\ Found'
    BY <2>1 DEF MoveInv, Carried, Found, Move!Carries
  <2> QED
    BY <2>2, <2>3 DEF MoveInv
<1>3. CASE Move!SaveConfig
  <2>1. bound["config"] \in Place
    BY DEF MoveInv, Folders, Move!Sub
  <2>2. /\ tree' = [tree EXCEPT ![bound["config"]] = @ \cup {"dir", "config.yaml"}]
        /\ version' = [version EXCEPT ![bound["config"]] = saves'] /\ saves' = saves + 1
        /\ UNCHANGED <<pointer, running, bound, forced, step, from, to, carried, report>>
    BY <1>3 DEF Move!SaveConfig, Move!moveVars
  <2>3. /\ {"dir", "config.yaml"} \in SUBSET Move!Whole
        /\ links' \in [Place -> SUBSET Move!Whole] /\ \A z \in Place : links'[z] \subseteq links[z]
    BY <1>3, FilesOfTheTree DEF Move!SaveConfig, MoveInv, Folders
  <2> QED
    BY <2>1, <2>2, <2>3, AddedKeeps, Zenon
<1>4. CASE Move!StartJob
  <2>1. bound["orchestrator"] \in Place
    BY DEF MoveInv, Folders, Move!Sub
  <2>2. /\ tree' = [tree EXCEPT ![bound["orchestrator"]] = @ \cup {"dir", "jobs"}]
        /\ version' = version /\ saves' = saves + 1
        /\ UNCHANGED <<pointer, running, bound, forced, step, from, to, carried, report>>
    BY <1>4 DEF Move!StartJob, Move!moveVars, Move!engineVars
  <2>3. /\ {"dir", "jobs"} \in SUBSET Move!Whole /\ "config.yaml" \notin {"dir", "jobs"}
        /\ links' \in [Place -> SUBSET Move!Whole] /\ \A z \in Place : links'[z] \subseteq links[z]
    BY <1>4, FilesOfTheTree DEF Move!StartJob, MoveInv, Folders
  <2> QED
    BY <2>1, <2>2, <2>3, AddedKeeps, Zenon
<1>5. CASE Move!EndJob \/ UNCHANGED Move!vars
  <2>1. UNCHANGED <<tree, links, version, saves, bound, pointer, from, to, carried, forced, step,
                    running, report>>
    BY <1>5 DEF Move!EndJob, Move!vars, Move!treeVars, Move!moveVars, Move!engineVars
  <2> QED
    BY <2>1 DEF MoveInv, Folders, Carried, Found, Move!Carries, Move!Own
<1>6. CASE Move!MoveStep
  BY <1>1, <1>6, RenameKeeps, RenameRefusedKeeps, CopyFileKeeps, CopyFailsKeeps, CopyEndsKeeps,
     RemoveOneKeeps, RemoveFailsKeeps, BootstrapKeeps, RebindKeeps, PointKeeps DEF Move!MoveStep
<1> QED
  BY <1>2, <1>3, <1>4, <1>5, <1>6, RelocateKeeps, StartKeeps DEF Move!Next

\* The folder goes by its steps, whatever the screen is about.
LEMMA MoveSafe == Spec => []MoveInv
<1>1. Init => MoveInv
  BY MoveStarts DEF Init
<1>2. [Next]_vars => [Move!Next]_(Move!vars)
  BY DEF Next, vars, folderVars, Move!vars, Move!treeVars, Move!moveVars, Move!engineVars
<1> QED
  BY <1>1, <1>2, MoveKeeps, PTL DEF Spec

\* MoveTree: a move loses nothing of PortCloak's own that it set out with, for any folders,
\* whatever in them is a link, whatever fails, and however often the configuration is
\* saved meanwhile.
THEOREM NothingIsLost == Spec => []WholeSomewhere
<1>1. MoveInv => WholeSomewhere
  BY DEF MoveInv, Carried, WholeSomewhere, Move!WholeSomewhere
<1> QED
  BY <1>1, MoveSafe, PTL

\* rebind, LocateWith: a folder that was reported moved is the one the next start uses,
\* with everything of PortCloak's own that was moved.
THEOREM MovedIsFound == Spec => []FoundAgain
<1>1. MoveInv => FoundAgain
  <2> SUFFICES ASSUME MoveInv, report = "moved"
               PROVE  /\ Move!Locate(Nowhere) = to /\ Move!Carries(to)
                      /\ running /\ ~Move!Pinned => \A s \in Move!Sub : bound[s] = to
    BY DEF FoundAgain, Move!FoundAgain
  <2>1. /\ to \in Place /\ Move!Carries(to) /\ tree[to] # {}
        /\ pointer = IF to = Default THEN Nowhere ELSE to
    BY DEF MoveInv, Folders, Found
  <2>2. Move!Locate(Nowhere) = to
    BY <2>1, SettingsAssumption DEF Move!Locate
  <2>3. running /\ ~Move!Pinned => \A s \in Move!Sub : bound[s] = to
    BY DEF MoveInv, Found, Move!Pinned
  <2> QED
    BY <2>1, <2>2, <2>3
<1> QED
  BY <1>1, MoveSafe, PTL
-----------------------------------------------------------------------------
(***************************************************************************)
(* The configuration.  A list of the file is a sequence of entries that    *)
(* have a name, and no two of them the same.                               *)
(***************************************************************************)
Listing(s) ==
  s \in Seq({s[i] : i \in DOMAIN s}) /\ \A i \in DOMAIN s : "name" \in DOMAIN s[i]
WellFormed(doc) ==
  /\ doc = [c \in Conf!Class |-> doc[c]]
  /\ Listing(doc["environments"]) /\ Listing(doc["storage"])
Distinct(s) == \A i, j \in DOMAIN s : s[i].name = s[j].name => i = j

\* A list with as many entries, each with a name.
LEMMA SameLength ==
  ASSUME NEW s, Listing(s), NEW t, t = [i \in DOMAIN s |-> t[i]],
         \A i \in DOMAIN s : "name" \in DOMAIN t[i]
  PROVE  Listing(t)
<1> DEFINE T == {t[i] : i \in DOMAIN t}
<1>1. Len(s) \in Nat /\ DOMAIN s = 1..Len(s)
  BY LenProperties DEF Listing
<1>2. t \in [1..Len(s) -> T]
  BY <1>1
<1>3. t \in Seq(T)
  BY <1>1, <1>2, SeqDef
<1> QED
  BY <1>3 DEF Listing

\* A list with an entry added at its end.
LEMMA OneMore ==
  ASSUME NEW s, Listing(s), NEW e, "name" \in DOMAIN e
  PROVE  Listing(Append(s, e))
<1> DEFINE t == Append(s, e)
           S == {s[i] : i \in DOMAIN s} \cup {e}
           T == {t[i] : i \in DOMAIN t}
<1>1. s \in Seq(S) /\ Len(s) \in Nat /\ DOMAIN s = 1..Len(s) /\ e \in S
  BY LenProperties, SeqMonotonic, Zenon DEF Listing
<1>2. /\ t \in Seq(S) /\ DOMAIN t = 1..(Len(s) + 1)
      /\ \A i \in 1..Len(s) : t[i] = s[i]
      /\ t[Len(s) + 1] = e
  BY <1>1, AppendProperties, LenProperties DEF t
<1> HIDE DEF t
<1>3. t \in [1..(Len(s) + 1) -> T]
  BY <1>2, <1>1
<1>4. t \in Seq(T)
  BY <1>3, <1>1, SeqDef
<1>5. \A i \in DOMAIN t : "name" \in DOMAIN t[i]
  BY <1>1, <1>2 DEF Listing
<1> QED
  BY <1>4, <1>5 DEF Listing, t

\* What is left of a list when the entry at i is removed.
LEMMA OneLess ==
  ASSUME NEW s, Listing(s), NEW i \in DOMAIN s
  PROVE  LET t == Conf!RemoveAt(s, i)
         IN  /\ Listing(t) /\ DOMAIN t = 1..(Len(s) - 1) /\ Len(s) \in Nat /\ DOMAIN s = 1..Len(s)
             /\ \A j \in DOMAIN t : t[j] = IF j < i THEN s[j] ELSE s[j + 1]
<1> DEFINE n == Len(s)
           S == {s[j] : j \in DOMAIN s}
           a == SubSeq(s, 1, i - 1)
           b == SubSeq(s, i + 1, n)
           t == Conf!RemoveAt(s, i)
           T == {t[j] : j \in DOMAIN t}
<1>1. s \in Seq(S) /\ n \in Nat /\ DOMAIN s = 1..n /\ i \in 1..n
  BY LenProperties, Zenon DEF Listing
<1>2. \A j \in 1..n : s[j] \in S
  BY <1>1
<1> HIDE DEF S
<1>3. t = a \o b
  BY DEF Conf!RemoveAt
<1>4. a \in Seq(S) /\ Len(a) = i - 1 /\ \A j \in 1..(i - 1) : a[j] = s[j]
  <2>1. i \in Int /\ i - 1 \in Int /\ 1 \in Int /\ \A j \in 1..(i - 1) : s[j] \in S
    BY <1>1, <1>2
  <2>2. /\ SubSeq(s, 1, i - 1) \in Seq(S)
        /\ Len(SubSeq(s, 1, i - 1)) = IF 1 <= i - 1 THEN i - 1 - 1 + 1 ELSE 0
        /\ \A j \in 1..(i - 1 - 1 + 1) : SubSeq(s, 1, i - 1)[j] = s[1 + j - 1]
    BY <2>1, SubSeqProperties
  <2> HIDE DEF n
  <2>3. Len(a) = i - 1
    BY <2>2, <1>1
  <2>4. \A j \in 1..(i - 1) : 1 + j - 1 = j /\ j \in 1..(i - 1 - 1 + 1)
    BY <1>1
  <2> QED
    BY <2>2, <2>3, <2>4
<1>5. b \in Seq(S) /\ Len(b) = n - i /\ \A j \in 1..(n - i) : b[j] = s[i + j]
  <2>1. i + 1 \in Int /\ n \in Int /\ \A j \in (i + 1)..n : s[j] \in S
    BY <1>1, <1>2
  <2>2. /\ SubSeq(s, i + 1, n) \in Seq(S)
        /\ Len(SubSeq(s, i + 1, n)) = IF i + 1 <= n THEN n - (i + 1) + 1 ELSE 0
        /\ \A j \in 1..(n - (i + 1) + 1) : SubSeq(s, i + 1, n)[j] = s[i + 1 + j - 1]
    BY <2>1, SubSeqProperties
  <2> HIDE DEF n
  <2>3. Len(b) = n - i
    BY <2>2, <1>1
  <2>4. \A j \in 1..(n - i) : i + 1 + j - 1 = i + j /\ j \in 1..(n - (i + 1) + 1)
    BY <1>1
  <2> QED
    BY <2>2, <2>3, <2>4
<1> HIDE DEF a, b, t, n
<1>6. /\ a \o b \in Seq(S) /\ Len(a \o b) = Len(a) + Len(b)
      /\ \A j \in 1..(Len(a) + Len(b)) : (a \o b)[j] = IF j <= Len(a) THEN a[j] ELSE b[j - Len(a)]
  BY <1>4, <1>5, ConcatProperties, Zenon
<1>7. Len(t) = n - 1 /\ n - 1 \in Nat /\ t \in Seq(S)
  BY <1>1, <1>3, <1>4, <1>5, <1>6
<1>8. DOMAIN t = 1..(n - 1)
  BY <1>7, LenProperties
<1>9. \A j \in 1..(n - 1) : t[j] = IF j < i THEN s[j] ELSE s[j + 1]
  <2> SUFFICES ASSUME NEW j \in 1..(n - 1) PROVE t[j] = IF j < i THEN s[j] ELSE s[j + 1]
    OBVIOUS
  <2>1. j \in 1..(Len(a) + Len(b)) /\ Len(a) = i - 1
    BY <1>1, <1>4, <1>5
  <2>2. t[j] = IF j <= i - 1 THEN a[j] ELSE b[j - (i - 1)]
    BY <1>3, <1>6, <2>1
  <2>3. CASE j < i
    <3>1. j <= i - 1 /\ j \in 1..(i - 1)
      BY <1>1, <2>3
    <3> QED
      BY <2>2, <2>3, <3>1, <1>4
  <2>4. CASE ~(j < i)
    <3>1. ~(j <= i - 1) /\ j - (i - 1) \in 1..(n - i) /\ i + (j - (i - 1)) = j + 1
      BY <1>1, <2>4
    <3> QED
      BY <2>2, <2>4, <3>1, <1>5
  <2> QED
    BY <2>3, <2>4
<1>10. \A j \in DOMAIN t : "name" \in DOMAIN t[j]
  <2>1. \A j \in DOMAIN t : t[j] \in S
    BY <1>7, <1>8, ElementOfSeq
  <2>2. \A e \in S : "name" \in DOMAIN e
    BY DEF Listing, S
  <2> QED
    BY <2>1, <2>2
<1>11. t \in Seq(T)
  <2>1. t \in [1..(n - 1) -> S]
    BY <1>7, LenProperties
  <2>2. t \in [1..(n - 1) -> T]
    BY <1>8, <2>1
  <2> HIDE DEF T
  <2> QED
    BY <1>7, <2>2, SeqDef
<1>12. Listing(t)
  BY <1>10, <1>11, Zenon DEF Listing
<1> QED
  BY <1>1, <1>8, <1>9, <1>12, Zenon DEF t, n

\* In a list without two of a name, the entry found by its name is the one that has it.
LEMMA TheOneNamed ==
  ASSUME NEW doc, NEW c, Listing(doc[c]), Distinct(doc[c]), NEW n \in Conf!Names(doc, c)
  PROVE  /\ Conf!IndexOf(doc, c, n) \in DOMAIN doc[c]
         /\ doc[c][Conf!IndexOf(doc, c, n)].name = n
<1>1. PICK k \in DOMAIN doc[c] : doc[c][k].name = n
  BY DEF Conf!Names
<1>2. DOMAIN doc[c] = 1..Len(doc[c]) /\ Len(doc[c]) \in Nat
  BY LenProperties, Zenon DEF Listing
<1>3. \A j \in 1..(k - 1) : j \in DOMAIN doc[c] /\ j # k
  BY <1>1, <1>2
<1>4. \A j \in 1..(k - 1) : doc[c][j].name # n
  BY <1>1, <1>3 DEF Distinct
<1> QED
  BY <1>1, <1>4, Zenon DEF Conf!IndexOf

\* So a deletion by name leaves no entry of the name.
LEMMA DeletedIsGone ==
  ASSUME NEW doc, NEW c, Listing(doc[c]), Distinct(doc[c]), NEW n \in Conf!Names(doc, c),
         NEW t, t = Conf!RemoveAt(doc[c], Conf!IndexOf(doc, c, n))
  PROVE  Listing(t) /\ \A j \in DOMAIN t : t[j].name # n
<1> DEFINE s == doc[c]
           i == Conf!IndexOf(doc, c, n)
<1>1. i \in DOMAIN s /\ s[i].name = n
  BY TheOneNamed, Zenon
<1>2. Listing(s) /\ Distinct(s) /\ t = Conf!RemoveAt(s, i)
  OBVIOUS
<1> HIDE DEF s, i
<1>3. /\ Listing(t) /\ DOMAIN t = 1..(Len(s) - 1) /\ Len(s) \in Nat /\ DOMAIN s = 1..Len(s)
      /\ \A j \in DOMAIN t : t[j] = IF j < i THEN s[j] ELSE s[j + 1]
  BY <1>1, <1>2, OneLess, Zenon
<1>4. ASSUME NEW j \in DOMAIN t PROVE t[j].name # n
  <2>1. j \in DOMAIN s /\ j + 1 \in DOMAIN s /\ (j < i => j # i) /\ (~(j < i) => j + 1 # i)
    BY <1>1, <1>3
  <2> QED
    BY <1>1, <1>2, <1>3, <2>1 DEF Distinct
<1> QED
  BY <1>3, <1>4

\* What a stamp leaves of an entry, and a list of which one entry is the default.
LEMMA EntriesKeepNames ==
  ASSUME NEW e
  PROVE  /\ \A prev : DOMAIN Conf!Stamped(prev, e) = DOMAIN e
         /\ \A list, n : \A i \in DOMAIN list :
              DOMAIN Conf!OnlyDefault(list, n)[i] = DOMAIN list[i]
BY DEF Conf!Stamped, Conf!OnlyDefault

\* A list in which one entry has been made the default.
LEMMA OneDefault == ASSUME NEW s, Listing(s), NEW n PROVE Listing(Conf!OnlyDefault(s, n))
<1> DEFINE t == Conf!OnlyDefault(s, n)
<1>1. t = [i \in DOMAIN s |-> t[i]]
  BY DEF Conf!OnlyDefault
<1>2. \A i \in DOMAIN s : "name" \in DOMAIN t[i]
  BY DEF Conf!OnlyDefault, Listing
<1> QED
  BY <1>1, <1>2, SameLength

\* A list with one entry replaced by what was saved.
LEMMA OneReplaced ==
  ASSUME NEW s, Listing(s), NEW i, NEW e, "name" \in DOMAIN e, NEW prev
  PROVE  Listing([s EXCEPT ![i] = Conf!Stamped(prev, e)])
<1> DEFINE t == [s EXCEPT ![i] = Conf!Stamped(prev, e)]
<1>1. s = [j \in DOMAIN s |-> s[j]]
  BY LenProperties, SeqDef DEF Listing
<1>2. t = [j \in DOMAIN s |-> t[j]]
  BY <1>1
<1>3. \A j \in DOMAIN s : t[j] = IF j = i THEN Conf!Stamped(prev, e) ELSE s[j]
  OBVIOUS
<1>4. \A j \in DOMAIN s : "name" \in DOMAIN t[j]
  BY <1>3, EntriesKeepNames DEF Listing
<1> HIDE DEF t
<1>5. Listing(t)
  BY <1>2, <1>4, SameLength
<1> QED
  BY <1>5 DEF t

\* Every edit of a document leaves a document.
LEMMA EnvironmentsEdited ==
  ASSUME NEW doc, WellFormed(doc), NEW c, Conf!Allowed(doc, c), screen = "environments",
         "name" \in DOMAIN c.entry, Distinct(doc["environments"])
  PROVE  WellFormed(Conf!EditedEnvironments(doc, c))
<1> DEFINE s == doc["environments"]
           i == Conf!IndexOf(doc, "environments", c.orig)
           t == Conf!EditedEnvironments(doc, c)["environments"]
<1>1. Listing(s) /\ Distinct(s) /\ doc = [k \in Conf!Class |-> doc[k]]
      /\ "environments" \in Conf!Class /\ "storage" \in Conf!Class
  BY DEF WellFormed, Conf!Class
<1>2. c.op # "add" => i \in DOMAIN s
  BY <1>1, TheOneNamed DEF Conf!Allowed, Conf!CanSave
<1>3. Conf!EditedEnvironments(doc, c) = [doc EXCEPT !["environments"] = t]
  BY <1>1 DEF Conf!EditedEnvironments, Conf!AddEnvironment, Conf!SaveEnvironment,
              Conf!DuplicateEnvironment, Conf!DeleteEnvironment
<1>4. Listing(t)
  <2>1. CASE c.op = "add"
    <3>1. t = Append(s, c.entry)
      BY <1>1, <2>1 DEF Conf!EditedEnvironments, Conf!AddEnvironment
    <3> QED
      BY <1>1, <3>1, OneMore
  <2>2. CASE c.op = "save"
    <3>1. t = [s EXCEPT ![i] = Conf!Stamped(s[i], c.entry)]
      BY <1>1, <1>2, <2>2 DEF Conf!EditedEnvironments, Conf!SaveEnvironment
    <3> QED
      BY <1>1, <3>1, OneReplaced
  <2>3. CASE c.op = "duplicate"
    <3>1. PICK e : t = Append(s, e) /\ DOMAIN e = DOMAIN s[i]
      BY <1>1, <2>3 DEF Conf!EditedEnvironments, Conf!DuplicateEnvironment, Conf!AddEnvironment,
                        Conf!Uncredentialed, Conf!Named
    <3>2. "name" \in DOMAIN e
      BY <1>1, <1>2, <2>3, <3>1 DEF Listing
    <3> QED
      BY <1>1, <3>1, <3>2, OneMore
  <2>4. CASE c.op \notin {"add", "save", "duplicate"}
    <3>1. t = Conf!RemoveAt(s, i)
      BY <1>1, <2>4 DEF Conf!EditedEnvironments, Conf!DeleteEnvironment
    <3> QED
      BY <1>1, <1>2, <2>4, <3>1, OneLess
  <2> QED
    BY <2>1, <2>2, <2>3, <2>4
<1> HIDE DEF t
<1> QED
  BY <1>1, <1>3, <1>4 DEF WellFormed

\* The same of the storage definitions.
LEMMA StorageEdited ==
  ASSUME NEW doc, WellFormed(doc), NEW c, Conf!Allowed(doc, c), screen = "storage",
         "name" \in DOMAIN c.entry, Distinct(doc["storage"])
  PROVE  WellFormed(Conf!EditedStorage(doc, c))
<1> DEFINE s == doc["storage"]
           i == Conf!IndexOf(doc, "storage", c.orig)
           t == Conf!EditedStorage(doc, c)["storage"]
<1>1. Listing(s) /\ Distinct(s) /\ doc = [k \in Conf!Class |-> doc[k]]
      /\ "environments" \in Conf!Class /\ "storage" \in Conf!Class
  BY DEF WellFormed, Conf!Class
<1>2. c.op # "add" => i \in DOMAIN s
  BY <1>1, TheOneNamed DEF Conf!Allowed, Conf!CanSave
<1>3. Conf!EditedStorage(doc, c) = [doc EXCEPT !["storage"] = t]
  BY <1>1 DEF Conf!EditedStorage, Conf!AddStorage, Conf!SaveStorage, Conf!DuplicateStorage,
              Conf!DeleteStorage, Conf!SetDefaultStorage
<1>4. Listing(t)
  <2>1. CASE c.op = "add"
    <3>1. Listing(Append(s, c.entry))
      BY <1>1, OneMore
    <3>2. t \in {Append(s, c.entry), Conf!OnlyDefault(Append(s, c.entry), c.entry.name)}
      BY <1>1, <2>1 DEF Conf!EditedStorage, Conf!AddStorage
    <3> QED
      BY <3>1, <3>2, OneDefault
  <2>2. CASE c.op = "save"
    <3> DEFINE l == [s EXCEPT ![i] = Conf!Stamped(s[i], c.entry)]
    <3>1. Listing(l)
      BY <1>1, OneReplaced
    <3>2. t \in {l, Conf!OnlyDefault(l, c.entry.name)}
      BY <1>1, <1>2, <2>2 DEF Conf!EditedStorage, Conf!SaveStorage
    <3> QED
      BY <3>1, <3>2, OneDefault
  <2>3. CASE c.op = "duplicate"
    <3>1. PICK e : t = Append(s, e) /\ DOMAIN e = DOMAIN s[i]
      BY <1>1, <2>3 DEF Conf!EditedStorage, Conf!DuplicateStorage, Conf!Uncredentialed, Conf!Named
    <3>2. "name" \in DOMAIN e
      BY <1>1, <1>2, <2>3, <3>1 DEF Listing
    <3> QED
      BY <1>1, <3>1, <3>2, OneMore
  <2>4. CASE c.op = "delete"
    <3>1. t = Conf!RemoveAt(s, i)
      BY <1>1, <2>4 DEF Conf!EditedStorage, Conf!DeleteStorage
    <3> QED
      BY <1>1, <1>2, <2>4, <3>1, OneLess
  <2>5. CASE c.op \notin {"add", "save", "duplicate", "delete"}
    <3>1. t = Conf!OnlyDefault(s, c.orig)
      BY <1>1, <2>5 DEF Conf!EditedStorage, Conf!SetDefaultStorage
    <3> QED
      BY <1>1, <3>1, OneDefault
  <2> QED
    BY <2>1, <2>2, <2>3, <2>4, <2>5
<1> HIDE DEF t
<1> QED
  BY <1>1, <1>3, <1>4 DEF WellFormed

\* The same of the list the screen edits, whichever that is.
LEMMA Edits ==
  ASSUME NEW doc, WellFormed(doc), NEW c, screen \in Conf!Class, Conf!Allowed(doc, c),
         screen # "keys" => "name" \in DOMAIN c.entry /\ Distinct(doc[screen])
  PROVE  WellFormed(Conf!Edited(doc, c))
<1>1. CASE screen = "keys"
  <2>1. PICK v : Conf!EditedKeys(doc, c) = [doc EXCEPT !["keys"] = v]
    BY DEF Conf!EditedKeys, Conf!AddKey, Conf!SaveKey, Conf!DeleteKey
  <2> QED
    BY <1>1, <2>1 DEF Conf!Edited, WellFormed, Conf!Class
<1> QED
  BY <1>1, EnvironmentsEdited, StorageEdited DEF Conf!Edited, Conf!Class

\* What an edit does in place it does to the keys only.
LEMMA Cloned ==
  ASSUME NEW doc, WellFormed(doc), NEW c
  PROVE  /\ WellFormed(Conf!Clone(doc, c))
         /\ \A l \in {"environments", "storage"} : Conf!Clone(doc, c)[l] = doc[l]
         /\ screen # "keys" => Conf!Clone(doc, c) = doc
<1>1. \/ Conf!Clone(doc, c) = doc
      \/ screen = "keys" /\ \E v : Conf!Clone(doc, c) = [doc EXCEPT !["keys"] = v]
  BY DEF Conf!Clone, Conf!SaveKey
<1> QED
  BY <1>1 DEF WellFormed, Conf!Class

\* A recorded test stamps an entry.
WithStamp(doc, l, i, v) == [doc EXCEPT ![l] = [doc[l] EXCEPT ![i].probe = v]]

\* The document has the same names after it, and is still one.
LEMMA Recorded ==
  ASSUME NEW doc, WellFormed(doc), NEW l \in {"environments", "storage"}, NEW d, NEW i, NEW v,
         d = WithStamp(doc, l, i, v)
  PROVE  /\ WellFormed(d) /\ DOMAIN d[l] = DOMAIN doc[l]
         /\ \A j \in DOMAIN doc[l] : d[l][j].name = doc[l][j].name
<1> DEFINE t == [doc[l] EXCEPT ![i].probe = v]
<1>1. d = [doc EXCEPT ![l] = t] /\ l \in Conf!Class /\ Listing(doc[l])
  BY DEF WellFormed, Conf!Class, WithStamp
<1>2. t = [j \in DOMAIN doc[l] |-> t[j]]
      /\ \A j \in DOMAIN doc[l] :
           t[j] = IF j = i THEN [doc[l][j] EXCEPT !.probe = v] ELSE doc[l][j]
  <2>1. doc[l] = [j \in DOMAIN doc[l] |-> doc[l][j]]
    BY <1>1, LenProperties, SeqDef DEF Listing
  <2> QED
    BY <2>1
<1>3. \A j \in DOMAIN doc[l] : "name" \in DOMAIN t[j] /\ t[j].name = doc[l][j].name
  BY <1>1, <1>2 DEF Listing
<1> HIDE DEF t
<1>4. Listing(t)
  BY <1>1, <1>2, <1>3, SameLength
<1>5. d[l] = t /\ DOMAIN t = DOMAIN doc[l]
  BY <1>1, <1>2 DEF WellFormed
<1>6. WellFormed(d)
  BY <1>1, <1>4 DEF WellFormed, Conf!Class
<1> QED
  BY <1>3, <1>5, <1>6
-----------------------------------------------------------------------------
OfEntries == screen \in {"environments", "storage"}

Processes ==
  /\ mem = [p \in Proc |-> mem[p]] /\ call = [p \in Proc |-> call[p]] /\ up \subseteq Proc
  /\ file = [doc |-> file.doc, readable |-> file.readable] /\ WellFormed(file.doc)
  /\ screen \in Conf!Class \cup {"folder"}

\* The document a process holds, and the one its call is about to write, have every name
\* once; what was deleted is in neither.
HoldsADocument(p) == WellFormed(mem[p]) /\ (OfEntries => Distinct(mem[p][screen]))
AboutToWrite(p) ==
  call[p].pc = "write" =>
    /\ WellFormed(call[p].next)
    /\ OfEntries => /\ Distinct(call[p].next[screen])
                    /\ call[p].forget # {} =>
                         call[p].orig \notin Conf!Names(call[p].next, screen)
AboutToForget(p) ==
  call[p].pc = "forget" /\ OfEntries => call[p].orig \notin Conf!Names(mem[p], screen)
CallOf(p) ==
  call[p] # Conf!Idle =>
    /\ p \in up
    /\ DOMAIN call[p] = {"pc", "op", "orig", "entry", "handle", "secret", "next", "forget"}
    /\ OfEntries => "name" \in DOMAIN call[p].entry
    /\ AboutToWrite(p) /\ AboutToForget(p)

ConfInv == Processes /\ \A p \in Proc : HoldsADocument(p) /\ CallOf(p)

\* The document a process starts from.
LEMMA Empty ==
  /\ WellFormed(Conf!EmptyDoc)
  /\ \A c \in Conf!Class : Distinct(Conf!EmptyDoc[c])
<1>1. Listing(<<>>) /\ Distinct(<<>>)
  BY DEF Listing, Distinct
<1> QED
  BY <1>1 DEF WellFormed, Conf!EmptyDoc, Conf!Class

\* Nothing is under way at first.
LEMMA ConfStarts ==
  ASSUME screen \in Conf!Class \cup {"folder"}, Conf!Clean
  PROVE  ConfInv
<1> USE DEF Conf!Clean
<1>1. Processes
  BY Empty DEF Processes
<1>2. ASSUME NEW p \in Proc PROVE HoldsADocument(p) /\ CallOf(p)
  BY Empty DEF HoldsADocument, CallOf, OfEntries, Conf!Class
<1> QED
  BY <1>1, <1>2 DEF ConfInv

\* What a process does concerns no other.
LEMMA OthersKeep ==
  ASSUME NEW q \in Proc, HoldsADocument(q), CallOf(q), mem'[q] = mem[q], call'[q] = call[q],
         q \in up => q \in up', UNCHANGED screen
  PROVE  HoldsADocument(q)' /\ CallOf(q)'
BY DEF HoldsADocument, CallOf, AboutToWrite, AboutToForget, OfEntries

\* It is enough to look at the process that takes the step.
LEMMA OneProcess ==
  ASSUME ConfInv, UNCHANGED screen, NEW p \in Proc, NEW m, NEW k,
         mem' = [mem EXCEPT ![p] = m], call' = [call EXCEPT ![p] = k],
         up' \in {up, up \cup {p}, up \ {p}},
         file' = [doc |-> file'.doc, readable |-> file'.readable], WellFormed(file'.doc),
         HoldsADocument(p)' /\ CallOf(p)'
  PROVE  ConfInv'
<1>1. Processes'
  BY DEF ConfInv, Processes
<1>2. ASSUME NEW q \in Proc, q # p PROVE HoldsADocument(q)' /\ CallOf(q)'
  <2>1. mem'[q] = mem[q] /\ call'[q] = call[q] /\ (q \in up => q \in up')
    BY <1>2 DEF ConfInv, Processes
  <2> QED
    BY <2>1, OthersKeep DEF ConfInv
<1> QED
  BY <1>1, <1>2 DEF ConfInv

\* An entry a call brings has a name.
LEMMA NamedHasAName ==
  ASSUME ConfInv, OfEntries, NEW p \in Proc, NEW n \in Conf!Listed(p)
  PROVE  "name" \in DOMAIN Conf!Named(mem[p], screen, n)
<1>1. Listing(mem[p][screen]) /\ Distinct(mem[p][screen]) /\ n \in Conf!Names(mem[p], screen)
  BY DEF ConfInv, HoldsADocument, OfEntries, WellFormed, Conf!Listed
<1>2. Conf!IndexOf(mem[p], screen, n) \in DOMAIN mem[p][screen]
  BY <1>1, TheOneNamed
<1> QED
  BY <1>1, <1>2 DEF Conf!Named, Listing

\* Every call of a screen is a call of Begin, with an entry that has a name.
LEMMA CallsBegin ==
  ASSUME ConfInv, NEW p \in Proc, Conf!EditEntries(p) \/ Conf!EditKeys(p),
         screen # "folder"
  PROVE  \E op, orig, e, handle : Conf!Begin(p, op, orig, e, handle)
                                  /\ (OfEntries => "name" \in DOMAIN e)
<1>1. \A n, k, f : "name" \in DOMAIN Conf!Entry(n, k, f)
  BY DEF Conf!Entry
<1>2. \A e : DOMAIN Conf!WithRef(e) = DOMAIN e
  BY DEF Conf!WithRef
<1>3. ASSUME NEW n, NEW d, NEW typed \in BOOLEAN, Conf!AddNew(p, n, d, typed)
      PROVE  \E op, orig, e, handle : Conf!Begin(p, op, orig, e, handle)
                                      /\ (OfEntries => "name" \in DOMAIN e)
  <2> DEFINE e0 == Conf!Entry(n, d[1], d[2])
  <2>1. "name" \in DOMAIN e0 /\ "name" \in DOMAIN Conf!WithRef(e0)
    BY <1>1, <1>2
  <2>2. \/ Conf!Begin(p, "add", Conf!NoName, Conf!WithRef(e0), Conf!WithRef(e0).ref)
        \/ Conf!Begin(p, "add", Conf!NoName, e0, Conf!Blank)
    BY <1>3, Zenon DEF Conf!AddNew
  <2> HIDE DEF e0
  <2> QED
    BY <2>1, <2>2, Zenon
<1>4. ASSUME NEW orig, NEW n, NEW d, NEW typed \in BOOLEAN, Conf!SaveOld(p, orig, n, d, typed)
      PROVE  \E op, o, e, handle : Conf!Begin(p, op, o, e, handle)
                                   /\ (OfEntries => "name" \in DOMAIN e)
  <2> DEFINE e == [Conf!Named(mem[p], screen, orig) EXCEPT !.name = n, !.kind = d[1],
                                                           !.fields = d[2]]
  <2>1. DOMAIN e = DOMAIN Conf!Named(mem[p], screen, orig) /\ orig \in Conf!Listed(p)
    BY <1>4 DEF Conf!SaveOld
  <2>2. OfEntries => "name" \in DOMAIN e
    BY <2>1, NamedHasAName
  <2>3. \E handle : Conf!Begin(p, "save", orig, e, handle)
                    \/ Conf!Begin(p, "save", orig, Conf!WithRef(e), handle)
    BY <1>4, Zenon DEF Conf!SaveOld
  <2> HIDE DEF e
  <2> QED
    BY <1>2, <2>2, <2>3, Zenon
<1>5. ASSUME NEW n, Conf!SaveAdminCredential(p, n)
      PROVE  \E op, orig, e, handle : Conf!Begin(p, op, orig, e, handle)
                                      /\ (OfEntries => "name" \in DOMAIN e)
  <2>1. PICK h : Conf!Begin(p, "save", n, [Conf!Named(mem[p], screen, n) EXCEPT !.admin = h], h)
    BY <1>5, Zenon DEF Conf!SaveAdminCredential
  <2>2. OfEntries => "name" \in DOMAIN [Conf!Named(mem[p], screen, n) EXCEPT !.admin = h]
    BY <1>5, NamedHasAName DEF Conf!SaveAdminCredential
  <2> QED
    BY <2>1, <2>2, Zenon
<1>6. ASSUME NEW n, Conf!Duplicate(p, n) \/ Conf!MakeDefault(p, n) \/ Conf!Delete(p, n)
      PROVE  \E op, orig, e, handle : Conf!Begin(p, op, orig, e, handle)
                                      /\ (OfEntries => "name" \in DOMAIN e)
  BY <1>1, <1>6, Zenon DEF Conf!Duplicate, Conf!MakeDefault, Conf!Delete, Conf!Nothing
<1>7. ASSUME NEW n, NEW k, Conf!StoreKey(p, n, k)
      PROVE  \E op, orig, e, handle : Conf!Begin(p, op, orig, e, handle)
                                      /\ (OfEntries => "name" \in DOMAIN e)
  <2>1. ~OfEntries
    BY <1>7 DEF Conf!StoreKey, OfEntries
  <2> QED
    BY <1>7, <2>1, Zenon DEF Conf!StoreKey
<1>8. ASSUME NEW orig, NEW n, Conf!Rename(p, orig, n)
      PROVE  \E op, o, e, handle : Conf!Begin(p, op, o, e, handle)
                                      /\ (OfEntries => "name" \in DOMAIN e)
  <2>1. ~OfEntries
    BY <1>8 DEF Conf!Rename, OfEntries
  <2> QED
    BY <1>8, <2>1, Zenon DEF Conf!Rename
<1> QED
  BY <1>3, <1>4, <1>5, <1>6, <1>7, <1>8, Zenon DEF Conf!EditEntries, Conf!EditKeys

\* A call that is made, and the steps before its edit.
LEMMA BeginKeeps ==
  ASSUME ConfInv, NEW p \in Proc, NEW op, NEW orig, NEW e, NEW handle,
         Conf!Begin(p, op, orig, e, handle), OfEntries => "name" \in DOMAIN e
  PROVE  ConfInv'
<1> USE DEF Conf!Begin
<1> DEFINE k == [pc |-> IF handle = Conf!Blank THEN "update" ELSE "keychain", op |-> op,
                 orig |-> orig, entry |-> e, handle |-> handle, secret |-> calls',
                 next |-> Conf!EmptyDoc, forget |-> {}]
<1>1. call' = [call EXCEPT ![p] = k] /\ mem' = [mem EXCEPT ![p] = mem[p]] /\ call'[p] = k
  BY DEF ConfInv, Processes
<1>2. HoldsADocument(p)'
  BY DEF ConfInv, HoldsADocument, OfEntries
<1>3. CallOf(p)'
  BY <1>1 DEF CallOf, AboutToWrite, AboutToForget, OfEntries
<1> HIDE DEF k
<1>4. WellFormed(file'.doc) /\ file' = [doc |-> file'.doc, readable |-> file'.readable]
  BY DEF ConfInv, Processes
<1>5. UNCHANGED <<screen, up>>
  OBVIOUS
<1> QED
  BY <1>1, <1>2, <1>3, <1>4, <1>5, OneProcess

\* The secret is stored, and the document has still to be edited.
LEMMA SetSecretKeeps ==
  ASSUME ConfInv, NEW p \in Proc, Conf!SetSecret(p)
  PROVE  ConfInv'
<1> USE DEF Conf!SetSecret
<1> DEFINE k == [call[p] EXCEPT !.pc = "update"]
<1>0. call[p] # Conf!Idle /\ CallOf(p) /\ UNCHANGED <<screen, up, file>>
  BY DEF ConfInv, Conf!Idle
<1>1. call' = [call EXCEPT ![p] = k] /\ mem' = [mem EXCEPT ![p] = mem[p]] /\ call'[p] = k
  BY DEF ConfInv, Processes
<1>2. HoldsADocument(p)'
  BY DEF ConfInv, HoldsADocument, OfEntries
<1>3. CallOf(p)'
  BY <1>0, <1>1 DEF CallOf, AboutToWrite, AboutToForget, OfEntries
<1> HIDE DEF k
<1>4. WellFormed(file'.doc) /\ file' = [doc |-> file'.doc, readable |-> file'.readable]
  BY <1>0 DEF ConfInv, Processes
<1> QED
  BY <1>0, <1>1, <1>2, <1>3, <1>4, OneProcess

\* A call that returns leaves the document as it is, or its keys edited in place.
LEMMA ReturnKeeps ==
  ASSUME ConfInv, NEW p \in Proc, Conf!Return(p), UNCHANGED <<screen, file, up>>,
         NEW m, mem' = [mem EXCEPT ![p] = m], WellFormed(m), OfEntries => m = mem[p]
  PROVE  ConfInv'
<1>1. mem'[p] = m /\ call'[p] = Conf!Idle /\ call' = [call EXCEPT ![p] = Conf!Idle]
  BY DEF ConfInv, Processes, Conf!Return
<1>2. HoldsADocument(p)' /\ CallOf(p)'
  BY <1>1 DEF ConfInv, HoldsADocument, CallOf, OfEntries
<1>3. WellFormed(file'.doc) /\ file' = [doc |-> file'.doc, readable |-> file'.readable]
  BY DEF ConfInv, Processes
<1> QED
  BY <1>1, <1>2, <1>3, OneProcess

\* A document that holds up to validation has every name once.
LEMMA ValidIsDistinct ==
  ASSUME NEW doc, Conf!Validate(doc)
  PROVE  \A c \in Conf!Class : Distinct(doc[c])
BY DEF Conf!Validate, Distinct

\* What becomes of a call when its edit is made.
LEMMA WriteFields ==
  ASSUME NEW c,
         DOMAIN c = {"pc", "op", "orig", "entry", "handle", "secret", "next", "forget"},
         NEW d, NEW f, NEW k, k = [c EXCEPT !.pc = "write", !.next = d, !.forget = f]
  PROVE  /\ DOMAIN k = DOMAIN c /\ k.pc = "write" /\ k.next = d /\ k.forget = f
         /\ k.orig = c.orig /\ k.entry = c.entry
OBVIOUS

\* The edit: what is about to be written is valid, and without what is deleted.
LEMMA UpdateKeeps ==
  ASSUME ConfInv, NEW p \in Proc, Conf!Update(p), screen # "folder"
  PROVE  ConfInv'
<1> USE DEF Conf!Update
<1> DEFINE c == call[p]
           m == Conf!Clone(mem[p], c)
           d == Conf!Edited(mem[p], c)
           f == Conf!Dropped(mem[p], c)
           k == [c EXCEPT !.pc = "write", !.next = d, !.forget = f]
<1>0. c # Conf!Idle /\ CallOf(p) /\ UNCHANGED <<screen, up, file>> /\ HoldsADocument(p)
      /\ screen \in Conf!Class
  BY DEF ConfInv, Conf!Idle, Processes
<1>1. call' = [call EXCEPT ![p] = k] /\ mem' = [mem EXCEPT ![p] = m]
      /\ call'[p] = k /\ mem'[p] = m
  BY DEF ConfInv, Processes
<1>2. WellFormed(m) /\ (OfEntries => m = mem[p])
  BY <1>0, Cloned DEF HoldsADocument, OfEntries
<1>3. WellFormed(d)
  <2>1. screen # "keys" => "name" \in DOMAIN c.entry /\ Distinct(mem[p][screen])
    BY <1>0 DEF CallOf, HoldsADocument, OfEntries, Conf!Class
  <2> QED
    BY <1>0, <2>1, Edits DEF HoldsADocument
<1>4. OfEntries => Distinct(d[screen])
  BY <1>0, ValidIsDistinct
<1>5. ASSUME OfEntries, f # {} PROVE c.orig \notin Conf!Names(d, screen)
  <2>1. c.op = "delete" /\ c.orig \in Conf!Names(mem[p], screen)
    BY <1>5 DEF Conf!Dropped, Conf!Allowed
  <2>2. Listing(mem[p][screen]) /\ Distinct(mem[p][screen])
    BY <1>0, <1>5 DEF HoldsADocument, WellFormed, OfEntries
  <2>3. d[screen] = Conf!RemoveAt(mem[p][screen], Conf!IndexOf(mem[p], screen, c.orig))
    <3>1. "environments" \in DOMAIN mem[p] /\ "storage" \in DOMAIN mem[p]
      BY <1>0 DEF HoldsADocument, WellFormed, Conf!Class
    <3>2. CASE screen = "environments"
      BY <2>1, <3>1, <3>2
         DEF Conf!Edited, Conf!EditedEnvironments, Conf!DeleteEnvironment
    <3>3. CASE screen = "storage"
      BY <2>1, <3>1, <3>3 DEF Conf!Edited, Conf!EditedStorage, Conf!DeleteStorage
    <3> QED
      BY <1>5, <3>2, <3>3 DEF OfEntries
  <2>4. \A j \in DOMAIN d[screen] : d[screen][j].name # c.orig
    BY <2>1, <2>2, <2>3, DeletedIsGone
  <2> QED
    BY <2>4 DEF Conf!Names
<1> HIDE DEF d, f, m, k, c
<1>6. CallOf(p)'
  <2>1. DOMAIN c = {"pc", "op", "orig", "entry", "handle", "secret", "next", "forget"}
    BY <1>0 DEF CallOf, c
  <2>2. /\ DOMAIN k = DOMAIN c /\ k.pc = "write" /\ k.next = d /\ k.forget = f
        /\ k.orig = c.orig /\ k.entry = c.entry
    BY <2>1, WriteFields DEF k
  <2>3. p \in up' /\ (OfEntries => "name" \in DOMAIN c.entry)
    BY <1>0 DEF CallOf, c
  <2>4. call'[p].pc = "write" /\ call'[p].next = d /\ call'[p].forget = f
        /\ call'[p].orig = c.orig /\ call'[p].entry = c.entry /\ DOMAIN call'[p] = DOMAIN c
    BY <1>1, <2>2
  <2>5. AboutToWrite(p)'
    BY <1>0, <1>3, <1>4, <1>5, <2>4 DEF AboutToWrite, OfEntries
  <2>6. AboutToForget(p)'
    BY <2>4 DEF AboutToForget
  <2> QED
    BY <1>0, <2>1, <2>3, <2>4, <2>5, <2>6 DEF CallOf, OfEntries
<1>7. HoldsADocument(p)'
  BY <1>0, <1>1, <1>2 DEF HoldsADocument, OfEntries
<1>8. WellFormed(file'.doc) /\ file' = [doc |-> file'.doc, readable |-> file'.readable]
  BY <1>0 DEF ConfInv, Processes
<1> QED
  BY <1>0, <1>1, <1>6, <1>7, <1>8, OneProcess

\* An edit that is refused, or makes an invalid document.
LEMMA UpdateRefusedKeeps ==
  ASSUME ConfInv, NEW p \in Proc, Conf!UpdateRefused(p)
  PROVE  ConfInv'
<1>1. PICK m : m \in {mem[p], Conf!Clone(mem[p], call[p])} /\ mem' = [mem EXCEPT ![p] = m]
  <2>1. mem = [mem EXCEPT ![p] = mem[p]]
    BY DEF ConfInv, Processes
  <2> QED
    BY <2>1 DEF Conf!UpdateRefused
<1>2. WellFormed(m) /\ (OfEntries => m = mem[p])
  BY <1>1, Cloned DEF ConfInv, HoldsADocument, OfEntries
<1>3. Conf!Return(p) /\ UNCHANGED <<screen, file, up>>
  BY DEF Conf!UpdateRefused
<1> QED
  BY <1>1, <1>2, <1>3, ReturnKeeps

\* The other ways a call ends.
LEMMA ReturnsKeep ==
  ASSUME ConfInv, NEW p \in Proc,
         Conf!SetSecretFails(p) \/ Conf!WriteFails(p) \/ Conf!Forget(p)
  PROVE  ConfInv'
<1>1. Conf!Return(p) /\ UNCHANGED <<screen, file, up>> /\ UNCHANGED mem
  BY DEF Conf!SetSecretFails, Conf!WriteFails, Conf!Forget
<1>2. mem' = [mem EXCEPT ![p] = mem[p]] /\ WellFormed(mem[p])
  BY <1>1 DEF ConfInv, Processes, HoldsADocument
<1> QED
  BY <1>1, <1>2, ReturnKeeps

\* The write: the document that was about to be written is the one held.
LEMMA ReplaceKeeps ==
  ASSUME ConfInv, NEW p \in Proc, Conf!Replace(p)
  PROVE  ConfInv'
<1> DEFINE c == call[p]
           k == IF c.forget = {} THEN Conf!Idle ELSE [c EXCEPT !.pc = "forget"]
<1>0. c # Conf!Idle /\ c.pc = "write" /\ CallOf(p) /\ UNCHANGED <<screen, up>>
  BY DEF ConfInv, Conf!Idle, Conf!Replace
<1>1. mem' = [mem EXCEPT ![p] = c.next] /\ mem'[p] = c.next
      /\ file' = [doc |-> c.next, readable |-> TRUE] /\ file'.doc = c.next
      /\ file' = [doc |-> file'.doc, readable |-> file'.readable]
  BY DEF ConfInv, Processes, Conf!Replace
<1>2. call' = [call EXCEPT ![p] = k] /\ call'[p] = k
  BY DEF ConfInv, Processes, Conf!Replace, Conf!Return
<1>3. WellFormed(c.next) /\ (OfEntries => Distinct(c.next[screen]))
      /\ (OfEntries /\ c.forget # {} => c.orig \notin Conf!Names(c.next, screen))
  BY <1>0 DEF CallOf, AboutToWrite
<1>4. HoldsADocument(p)'
  BY <1>0, <1>1, <1>3 DEF HoldsADocument, OfEntries
<1>5. CallOf(p)'
  <2>1. CASE c.forget = {}
    BY <1>2, <2>1 DEF CallOf
  <2>2. CASE c.forget # {}
    <3>1. DOMAIN c = {"pc", "op", "orig", "entry", "handle", "secret", "next", "forget"}
          /\ p \in up' /\ (OfEntries => "name" \in DOMAIN c.entry)
      BY <1>0 DEF CallOf
    <3> HIDE DEF c
    <3>2. DOMAIN k = DOMAIN c /\ k.pc = "forget" /\ k.orig = c.orig /\ k.entry = c.entry
      BY <2>2, <3>1
    <3> HIDE DEF k
    <3>3. call'[p].pc = "forget" /\ call'[p].orig = c.orig /\ call'[p].entry = c.entry
          /\ DOMAIN call'[p] = DOMAIN c
      BY <1>2, <3>2
    <3>4. AboutToWrite(p)' /\ AboutToForget(p)'
      BY <1>0, <1>1, <1>3, <2>2, <3>3 DEF AboutToWrite, AboutToForget, OfEntries
    <3> QED
      BY <1>0, <3>1, <3>3, <3>4 DEF CallOf, OfEntries
  <2> QED
    BY <2>1, <2>2
<1>6. up' \in {up, up \cup {p}, up \ {p}} /\ WellFormed(file'.doc) /\ UNCHANGED screen
  BY <1>0, <1>1, <1>3
<1> HIDE DEF k, c
<1> QED
  BY <1>1, <1>2, <1>4, <1>5, <1>6, OneProcess
-----------------------------------------------------------------------------
(***************************************************************************)
(* The steps that make no call.                                            *)
(***************************************************************************)
\* A test that begins or ends, a job, an edit by hand: neither a document nor a call changes.
LEMMA QuietKeeps ==
  ASSUME ConfInv, UNCHANGED <<screen, mem, call, up>>,
         file' = [doc |-> file.doc, readable |-> file'.readable]
  PROVE  ConfInv'
<1>1. file'.doc = file.doc
  OBVIOUS
<1>2. Processes'
  BY <1>1 DEF ConfInv, Processes
<1>3. ASSUME NEW p \in Proc PROVE HoldsADocument(p)' /\ CallOf(p)'
  BY OthersKeep DEF ConfInv
<1> QED
  BY <1>2, <1>3 DEF ConfInv

\* Distinct names stay distinct when the names stay.
LEMMA SameNames ==
  ASSUME NEW s, NEW t, DOMAIN t = DOMAIN s, \A i \in DOMAIN s : t[i].name = s[i].name, Distinct(s)
  PROVE  Distinct(t)
BY DEF Distinct

\* A test's result is recorded, in memory and in the file.
LEMMA TestRecordedKeeps ==
  ASSUME ConfInv, NEW p \in Proc, Conf!TestRecorded(p), screen # "folder", screen # "keys"
  PROVE  ConfInv'
<1>0. screen \in {"environments", "storage"} /\ call[p].pc # "write"
      /\ UNCHANGED <<screen, call, up>> /\ CallOf(p) /\ HoldsADocument(p) /\ OfEntries
  BY DEF ConfInv, Processes, Conf!Class, Conf!TestRecorded, OfEntries
<1>1. PICK d, i, v : /\ mem' = [mem EXCEPT ![p] = d]
                     /\ d = WithStamp(mem[p], screen, i, v)
                     /\ file' = [doc |-> mem'[p], readable |-> TRUE]
  <2>1. PICK e \in test[p] :
          /\ mem' = [mem EXCEPT ![p] =
                 IF screen = "environments"
                 THEN Conf!RecordEnvironmentProbe(@, e.name, Conf!Definition(e))
                 ELSE Conf!RecordStorageProbe(@, e.name, Conf!Definition(e))]
          /\ file' = [doc |-> mem'[p], readable |-> TRUE]
    BY DEF Conf!TestRecorded
  <2> DEFINE w == {Conf!Definition(e)}
  <2>2. CASE screen = "environments"
    <3> DEFINE j == Conf!IndexOf(mem[p], "environments", e.name)
    <3>1. mem' = [mem EXCEPT ![p] = WithStamp(mem[p], screen, j, w)]
      BY <2>1, <2>2 DEF WithStamp, Conf!RecordEnvironmentProbe
    <3> HIDE DEF j, w
    <3> QED
      BY <2>1, <3>1
  <2>3. CASE screen = "storage"
    <3> DEFINE j == Conf!IndexOf(mem[p], "storage", e.name)
    <3>1. mem' = [mem EXCEPT ![p] = WithStamp(mem[p], screen, j, w)]
      BY <2>1, <2>3 DEF WithStamp, Conf!RecordStorageProbe
    <3> HIDE DEF j, w
    <3> QED
      BY <2>1, <3>1
  <2> QED
    BY <1>0, <2>2, <2>3
<1>2. mem'[p] = d /\ file'.doc = d /\ file' = [doc |-> file'.doc, readable |-> file'.readable]
      /\ call' = [call EXCEPT ![p] = call[p]] /\ call'[p] = call[p]
  BY <1>0, <1>1 DEF ConfInv, Processes
<1>3. /\ WellFormed(d) /\ DOMAIN d[screen] = DOMAIN mem[p][screen]
      /\ \A j \in DOMAIN mem[p][screen] : d[screen][j].name = mem[p][screen][j].name
  <2>1. WellFormed(mem[p]) /\ screen \in {"environments", "storage"}
        /\ d = WithStamp(mem[p], screen, i, v)
    BY <1>0, <1>1 DEF HoldsADocument
  <2> QED
    BY <2>1, Recorded, Zenon
<1>4. Distinct(d[screen])
  BY <1>0, <1>3, SameNames DEF HoldsADocument
<1>5. Conf!Names(d, screen) = Conf!Names(mem[p], screen)
  BY <1>3 DEF Conf!Names
<1>6. HoldsADocument(p)'
  BY <1>0, <1>2, <1>3, <1>4 DEF HoldsADocument
<1>7. AboutToWrite(p)' /\ (call[p] # Conf!Idle => AboutToForget(p)')
  <2>1. Conf!Names(mem', screen') = Conf!Names(mem', screen)
    BY <1>0
  <2>2. Conf!Names(mem[p], screen)' = Conf!Names(d, screen)
    BY <1>0, <1>2 DEF Conf!Names
  <2> QED
    BY <1>0, <1>2, <1>5, <2>2 DEF AboutToWrite, AboutToForget, CallOf, OfEntries
<1>8. CallOf(p)'
  BY <1>0, <1>2, <1>7 DEF CallOf, OfEntries
<1>9. up' \in {up, up \cup {p}, up \ {p}} /\ UNCHANGED screen /\ WellFormed(file'.doc)
  BY <1>0, <1>2, <1>3
<1> QED
  BY <1>1, <1>2, <1>6, <1>8, <1>9, OneProcess

\* A document that is read is valid; one that is not leaves what was there.
LEMMA LoadKeeps ==
  ASSUME ConfInv, NEW p \in Proc, NEW otherwise, Conf!Load(p, otherwise), WellFormed(otherwise),
         OfEntries => Distinct(otherwise[screen]),
         UNCHANGED <<screen, file>>, call'[p] = Conf!Idle, NEW k, call' = [call EXCEPT ![p] = k],
         up' \in {up, up \cup {p}, up \ {p}}
  PROVE  ConfInv'
<1>1. PICK m : mem' = [mem EXCEPT ![p] = m] /\ mem'[p] = m
               /\ (m = otherwise \/ (m = file.doc /\ Conf!Validate(file.doc)))
  BY DEF ConfInv, Processes, Conf!Load
<1>2. WellFormed(file.doc) /\ file' = [doc |-> file'.doc, readable |-> file'.readable]
      /\ WellFormed(file'.doc)
  BY DEF ConfInv, Processes
<1>3. WellFormed(m) /\ (OfEntries => Distinct(m[screen]))
  BY <1>1, <1>2, ValidIsDistinct DEF OfEntries, Conf!Class
<1>4. HoldsADocument(p)' /\ CallOf(p)'
  BY <1>1, <1>3 DEF HoldsADocument, CallOf, OfEntries
<1> QED
  BY <1>1, <1>2, <1>4, OneProcess

\* A process that comes up.
LEMMA OpenKeeps ==
  ASSUME ConfInv, NEW p \in Proc, Conf!Open(p)
  PROVE  ConfInv'
<1>1. call[p] = Conf!Idle
  BY DEF ConfInv, CallOf, Conf!Open
<1>2. call' = [call EXCEPT ![p] = Conf!Idle] /\ call'[p] = Conf!Idle
  BY <1>1 DEF ConfInv, Processes, Conf!Open
<1>3. WellFormed(Conf!EmptyDoc) /\ (OfEntries => Distinct(Conf!EmptyDoc[screen]))
  BY Empty DEF OfEntries, Conf!Class
<1>4. Conf!Load(p, Conf!EmptyDoc) /\ UNCHANGED <<screen, file>> /\ up' = up \cup {p}
  BY DEF Conf!Open
<1> QED
  BY <1>2, <1>3, <1>4, LoadKeeps

\* A process that reads the file again.
LEMMA ReloadKeeps ==
  ASSUME ConfInv, NEW p \in Proc, Conf!Reload(p)
  PROVE  ConfInv'
<1>2. call' = [call EXCEPT ![p] = Conf!Idle] /\ call'[p] = Conf!Idle
  BY DEF ConfInv, Processes, Conf!Reload
<1>3. WellFormed(mem[p]) /\ (OfEntries => Distinct(mem[p][screen]))
  BY DEF ConfInv, HoldsADocument
<1>4. Conf!Load(p, mem[p]) /\ UNCHANGED <<screen, file>> /\ up' = up
  BY DEF Conf!Reload
<1> QED
  BY <1>2, <1>3, <1>4, LoadKeeps

\* A process that ends, with what it was doing.
LEMMA CrashKeeps ==
  ASSUME ConfInv, NEW p \in Proc, Conf!Crash(p)
  PROVE  ConfInv'
<1>1. mem' = [mem EXCEPT ![p] = Conf!EmptyDoc] /\ mem'[p] = Conf!EmptyDoc
      /\ call' = [call EXCEPT ![p] = Conf!Idle] /\ call'[p] = Conf!Idle
      /\ up' = up \ {p} /\ UNCHANGED <<screen, file>>
  BY DEF ConfInv, Processes, Conf!Crash
<1>2. HoldsADocument(p)' /\ CallOf(p)'
  BY <1>1, Empty DEF HoldsADocument, CallOf, OfEntries, Conf!Class
<1>3. WellFormed(file'.doc) /\ file' = [doc |-> file'.doc, readable |-> file'.readable]
  BY <1>1 DEF ConfInv, Processes
<1> QED
  BY <1>1, <1>2, <1>3, OneProcess
-----------------------------------------------------------------------------
\* A key has no definition to test.
KeysAreNotTested ==
  test = [p \in Proc |-> test[p]] /\ (screen = "keys" => \A p \in Proc : test[p] = {})

\* Only a test changes what is tested, and a test is not of a key.
LEMMA TestsKeep ==
  ASSUME KeysAreNotTested, Conf!Next
  PROVE  KeysAreNotTested' /\ UNCHANGED screen
<1>1. ASSUME NEW p \in Proc, Conf!EditEntries(p) \/ Conf!EditKeys(p)
      PROVE UNCHANGED <<test, screen>>
  <2>1. ASSUME NEW op, NEW orig, NEW e, NEW handle, Conf!Begin(p, op, orig, e, handle)
        PROVE  UNCHANGED <<test, screen>>
    BY <2>1 DEF Conf!Begin
  <2>2. ASSUME NEW n, NEW d, NEW typed, Conf!AddNew(p, n, d, typed)
        PROVE  UNCHANGED <<test, screen>>
    BY <2>1, <2>2, Zenon DEF Conf!AddNew
  <2>3. ASSUME NEW orig, NEW n, NEW d, NEW typed, Conf!SaveOld(p, orig, n, d, typed)
        PROVE  UNCHANGED <<test, screen>>
    BY <2>1, <2>3, Zenon DEF Conf!SaveOld
  <2>4. ASSUME NEW n, \/ Conf!SaveAdminCredential(p, n) \/ Conf!Duplicate(p, n)
                      \/ Conf!MakeDefault(p, n) \/ Conf!Delete(p, n)
        PROVE  UNCHANGED <<test, screen>>
    BY <2>1, <2>4, Zenon
       DEF Conf!SaveAdminCredential, Conf!Duplicate, Conf!MakeDefault, Conf!Delete
  <2>5. ASSUME NEW n, NEW k, Conf!StoreKey(p, n, k) \/ Conf!Rename(p, k, n)
        PROVE  UNCHANGED <<test, screen>>
    BY <2>1, <2>5, Zenon DEF Conf!StoreKey, Conf!Rename
  <2> QED
    BY <1>1, <2>2, <2>3, <2>4, <2>5, Zenon DEF Conf!EditEntries, Conf!EditKeys
<1>2. ASSUME NEW p \in Proc, Conf!CallStep(p) PROVE UNCHANGED <<test, screen>>
  BY <1>2 DEF Conf!CallStep, Conf!SetSecret, Conf!SetSecretFails, Conf!Update, Conf!UpdateRefused,
              Conf!Replace, Conf!WriteFails, Conf!Forget
<1>3. ASSUME NEW p \in Proc, Conf!Test(p) PROVE KeysAreNotTested' /\ UNCHANGED screen
  BY <1>3 DEF Conf!Test, Conf!TestBegin, Conf!TestEnd, Conf!TestRecorded, KeysAreNotTested
<1>4. ASSUME NEW p \in Proc, Conf!Open(p) \/ Conf!Reload(p) \/ \E n : Conf!JobBegins(p, n)
      PROVE  UNCHANGED <<test, screen>>
  BY <1>4 DEF Conf!Open, Conf!Reload, Conf!JobBegins
<1>5. ASSUME NEW p \in Proc, Conf!Crash(p) PROVE KeysAreNotTested' /\ UNCHANGED screen
  BY <1>5 DEF Conf!Crash, KeysAreNotTested
<1>6. Conf!JobEnds \/ Conf!HandEdit => UNCHANGED <<test, screen>>
  BY DEF Conf!JobEnds, Conf!HandEdit
<1>7. UNCHANGED <<test, screen>> => KeysAreNotTested' /\ UNCHANGED screen
  BY DEF KeysAreNotTested
<1> QED
  BY <1>1, <1>2, <1>3, <1>4, <1>5, <1>6, <1>7, Zenon DEF Conf!Next

\* No step of the configuration breaks the invariant.
LEMMA ConfNextKeeps ==
  ASSUME ConfInv, KeysAreNotTested, Conf!Next, screen # "folder"
  PROVE  ConfInv'
<1> DEFINE Still == UNCHANGED <<screen, mem, call, up>>
                    /\ file' = [doc |-> file.doc, readable |-> file'.readable]
<1>0. file = [doc |-> file.doc, readable |-> file.readable]
  BY DEF ConfInv, Processes
<1>1. ASSUME NEW p \in Proc, Conf!EditEntries(p) \/ Conf!EditKeys(p) PROVE ConfInv'
  BY <1>1, CallsBegin, BeginKeeps, Zenon
<1>2. ASSUME NEW p \in Proc, Conf!CallStep(p) PROVE ConfInv'
  BY <1>2, SetSecretKeeps, ReturnsKeep, UpdateKeeps, UpdateRefusedKeeps, ReplaceKeeps, Zenon
     DEF Conf!CallStep
<1>3. ASSUME NEW p \in Proc, NEW e, Conf!TestBegin(p, e) PROVE Still
  BY <1>0, <1>3 DEF Conf!TestBegin
<1>4. ASSUME NEW p \in Proc, Conf!TestEnd(p) PROVE Still
  BY <1>0, <1>4 DEF Conf!TestEnd
<1>5. ASSUME NEW p \in Proc, NEW n, Conf!JobBegins(p, n) PROVE Still
  BY <1>0, <1>5 DEF Conf!JobBegins
<1>6. Conf!JobEnds \/ Conf!HandEdit => Still
  BY <1>0 DEF Conf!JobEnds, Conf!HandEdit
<1>7. Still => ConfInv'
  BY QuietKeeps
<1> HIDE DEF Still
<1>8. ASSUME NEW p \in Proc, Conf!Test(p) PROVE ConfInv'
  <2>1. Conf!TestRecorded(p) => screen # "keys"
    BY DEF Conf!TestRecorded, KeysAreNotTested
  <2> QED
    BY <1>3, <1>4, <1>7, <1>8, <2>1, TestRecordedKeeps, Zenon DEF Conf!Test
<1> QED
  BY <1>1, <1>2, <1>5, <1>6, <1>7, <1>8, OpenKeeps, ReloadKeeps, CrashKeeps, Zenon DEF Conf!Next

\* Nor does a step of the folder, which leaves the configuration alone.
LEMMA ConfKeeps ==
  ASSUME ConfInv, KeysAreNotTested, [Next]_vars PROVE ConfInv' /\ KeysAreNotTested'
<1>1. CASE UNCHANGED confVars
  <2>1. UNCHANGED <<screen, mem, call, up, file, test>>
    BY <1>1 DEF confVars
  <2>2. file' = [doc |-> file.doc, readable |-> file'.readable]
    BY <2>1 DEF ConfInv, Processes
  <2> QED
    BY <2>1, <2>2, QuietKeeps DEF KeysAreNotTested
<1>2. CASE screen # "folder" /\ Conf!Next
  BY <1>2, ConfNextKeeps, TestsKeep
<1> QED
  BY <1>1, <1>2 DEF Next, vars

\* So it holds of every state the program reaches.
LEMMA ConfSafe == Spec => [](ConfInv /\ KeysAreNotTested)
<1>1. Init => ConfInv /\ KeysAreNotTested
  <2> SUFFICES ASSUME Init PROVE ConfInv /\ KeysAreNotTested
    OBVIOUS
  <2>1. ConfInv
    BY ConfStarts DEF Init
  <2>2. KeysAreNotTested
    BY DEF Init, Conf!Clean, KeysAreNotTested
  <2> QED
    BY <2>1, <2>2
<1>2. (ConfInv /\ KeysAreNotTested) /\ [Next]_vars => (ConfInv /\ KeysAreNotTested)'
  BY ConfKeeps
<1> QED
  BY <1>1, <1>2, PTL DEF Spec
-----------------------------------------------------------------------------
(***************************************************************************)
(* What no edit may do.                                                    *)
(***************************************************************************)
\* A document changes by being read, by being saved, or in its keys alone.
LEMMA NoTrace ==
  ASSUME ConfInv, KeysAreNotTested, Conf!Next, screen # "folder"
  PROVE  Conf!LeavesNoTrace
<1> SUFFICES ASSUME NEW p \in up, p \in up', NEW c \in {"environments", "storage"},
                    mem'[p][c] # mem[p][c]
             PROVE  mem'[p][c] = file'.doc[c]
  BY DEF Conf!LeavesNoTrace
<1>0. p \in Proc
  BY DEF ConfInv, Processes
<1>1. ASSUME NEW q \in Proc, NEW m, mem' = [mem EXCEPT ![q] = m] PROVE q = p /\ mem'[p] = m
  BY <1>0, <1>1 DEF ConfInv, Processes
<1>2. ~UNCHANGED mem
  OBVIOUS
<1>3. ASSUME NEW q \in Proc, Conf!EditEntries(q) \/ Conf!EditKeys(q) PROVE FALSE
  <2>1. PICK op, orig, e, handle : Conf!Begin(q, op, orig, e, handle)
    BY <1>3, CallsBegin, Zenon
  <2> QED
    BY <1>2, <2>1 DEF Conf!Begin
<1>4. ASSUME NEW q \in Proc, Conf!SetSecret(q) \/ Conf!SetSecretFails(q) \/ Conf!WriteFails(q)
                             \/ Conf!Forget(q)
      PROVE  FALSE
  BY <1>2, <1>4 DEF Conf!SetSecret, Conf!SetSecretFails, Conf!WriteFails, Conf!Forget
<1>5. ASSUME NEW q \in Proc, Conf!Update(q) \/ Conf!UpdateRefused(q) PROVE FALSE
  <2>1. mem' = [mem EXCEPT ![q] = Conf!Clone(mem[q], call[q])]
    BY <1>2, <1>5 DEF Conf!Update, Conf!UpdateRefused
  <2>2. q = p /\ mem'[p] = Conf!Clone(mem[q], call[q])
    BY <1>1, <2>1
  <2>3. WellFormed(mem[q])
    BY DEF ConfInv, HoldsADocument
  <2> QED
    BY <2>2, <2>3, Cloned
<1>6. ASSUME NEW q \in Proc, Conf!Replace(q) PROVE mem'[p] = file'.doc
  BY <1>1, <1>6 DEF Conf!Replace
<1>7. ASSUME NEW q \in Proc, Conf!Test(q) PROVE mem'[p] = file'.doc
  <2>1. Conf!TestRecorded(q)
    BY <1>2, <1>7 DEF Conf!Test, Conf!TestBegin, Conf!TestEnd
  <2>2. PICK m : mem' = [mem EXCEPT ![q] = m] /\ file' = [doc |-> mem'[q], readable |-> TRUE]
    BY <2>1 DEF Conf!TestRecorded
  <2> QED
    BY <1>1, <2>2
<1>8. ASSUME NEW q \in Proc, Conf!Open(q) PROVE FALSE
  BY <1>1, <1>8 DEF Conf!Open, Conf!Load
<1>9. ASSUME NEW q \in Proc, Conf!Reload(q) PROVE mem'[p] = file'.doc
  BY <1>1, <1>9 DEF Conf!Reload, Conf!Load
<1>10. ASSUME NEW q \in Proc, Conf!Crash(q) PROVE FALSE
  BY <1>1, <1>10 DEF Conf!Crash
<1>11. ASSUME NEW q \in Proc, NEW n, Conf!JobBegins(q, n) PROVE FALSE
  BY <1>2, <1>11 DEF Conf!JobBegins
<1>12. ~(Conf!JobEnds \/ Conf!HandEdit)
  BY <1>2 DEF Conf!JobEnds, Conf!HandEdit
<1> QED
  BY <1>3, <1>4, <1>5, <1>6, <1>7, <1>8, <1>9, <1>10, <1>11, <1>12 DEF Conf!Next, Conf!CallStep

(***************************************************************************)
(* An edit that was refused, made an invalid document or could not be      *)
(* written is not in memory either: what a process holds of the            *)
(* environments and the storage definitions is what it last read or saved  *)
(* (Store.Update, cloneConfig).                                            *)
(***************************************************************************)
THEOREM NoTraceIsLeft == Spec => FailedEditsLeaveNoTrace
<1>1. (ConfInv /\ KeysAreNotTested) /\ [Next]_vars => [Conf!LeavesNoTrace]_vars
  <2> SUFFICES ASSUME ConfInv, KeysAreNotTested, Next PROVE Conf!LeavesNoTrace
    BY DEF vars
  <2>1. CASE UNCHANGED confVars
    BY <2>1 DEF confVars, Conf!LeavesNoTrace
  <2> QED
    BY <2>1, NoTrace DEF Next
<1> QED
  BY <1>1, ConfSafe, PTL DEF Spec, FailedEditsLeaveNoTrace

\* Only Forget takes from the keychain, after the write.
LEMMA OnlyWhatIsGone ==
  ASSUME ConfInv, Conf!Next, screen # "folder"
  PROVE  Conf!ForgetsWhatIsGone
<1> SUFFICES ASSUME screen # "keys", NEW h \in DOMAIN keychain, h \notin DOMAIN keychain'
             PROVE  \E p \in up : call[p].pc = "forget" /\ h \in call[p].forget
                                 /\ call[p].orig \notin Conf!Listed(p)
  BY DEF Conf!ForgetsWhatIsGone, Conf!Forgotten
<1>1. OfEntries
  BY DEF OfEntries, ConfInv, Processes, Conf!Class
<1>2. ~UNCHANGED keychain
  OBVIOUS
<1>3. ASSUME NEW q \in Proc, Conf!EditEntries(q) \/ Conf!EditKeys(q) PROVE FALSE
  <2>1. PICK op, orig, e, handle : Conf!Begin(q, op, orig, e, handle)
    BY <1>3, CallsBegin, Zenon
  <2> QED
    BY <1>2, <2>1 DEF Conf!Begin
<1>4. ASSUME NEW q \in Proc, Conf!SetSecret(q) PROVE FALSE
  <2>1. DOMAIN keychain' = {call[q].handle} \cup DOMAIN keychain
    BY <1>4 DEF Conf!SetSecret
  <2> QED
    BY <2>1
<1>5. ASSUME NEW q \in Proc, Conf!Forget(q)
      PROVE  \E p \in up : call[p].pc = "forget" /\ h \in call[p].forget
                          /\ call[p].orig \notin Conf!Listed(p)
  <2>1. call[q].pc = "forget" /\ h \in call[q].forget
    BY <1>2, <1>5 DEF Conf!Forget
  <2>2. call[q] # Conf!Idle
    BY <2>1 DEF Conf!Idle
  <2>3. q \in up /\ call[q].orig \notin Conf!Listed(q)
    BY <1>1, <2>1, <2>2 DEF ConfInv, CallOf, AboutToForget, Conf!Listed
  <2> QED
    BY <2>1, <2>3
<1>6. ASSUME NEW q \in Proc, Conf!SetSecretFails(q) \/ Conf!WriteFails(q) \/ Conf!Update(q)
                             \/ Conf!UpdateRefused(q) \/ Conf!Replace(q)
      PROVE  FALSE
  BY <1>2, <1>6 DEF Conf!SetSecretFails, Conf!WriteFails, Conf!Update, Conf!UpdateRefused,
                    Conf!Replace
<1>7. ASSUME NEW q \in Proc, Conf!Test(q) PROVE FALSE
  BY <1>2, <1>7 DEF Conf!Test, Conf!TestBegin, Conf!TestEnd, Conf!TestRecorded
<1>8. ASSUME NEW q \in Proc, Conf!Open(q) \/ Conf!Reload(q) \/ Conf!Crash(q) PROVE FALSE
  BY <1>2, <1>8 DEF Conf!Open, Conf!Reload, Conf!Crash
<1>9. ASSUME NEW q \in Proc, NEW n, Conf!JobBegins(q, n) PROVE FALSE
  BY <1>2, <1>9 DEF Conf!JobBegins
<1>10. ~(Conf!JobEnds \/ Conf!HandEdit)
  BY <1>2 DEF Conf!JobEnds, Conf!HandEdit
<1> QED
  BY <1>3, <1>4, <1>5, <1>6, <1>7, <1>8, <1>9, <1>10 DEF Conf!Next, Conf!CallStep

(***************************************************************************)
(* On the screens of environments and storage a secret leaves the keychain *)
(* only when a delete has saved a document without the entry it belonged   *)
(* to, and the process holds that document (forgetCredential, Remove).     *)
(***************************************************************************)
THEOREM OnlyWhatIsGoneIsForgotten == Spec => ForgottenWhenGone
<1>1. ConfInv /\ [Next]_vars => [Conf!ForgetsWhatIsGone]_vars
  <2> SUFFICES ASSUME ConfInv, Next PROVE Conf!ForgetsWhatIsGone
    BY DEF vars
  <2>1. CASE UNCHANGED confVars
    BY <2>1 DEF confVars, Conf!ForgetsWhatIsGone, Conf!Forgotten
  <2> QED
    BY <2>1, OnlyWhatIsGone DEF Next
<1> QED
  BY <1>1, ConfSafe, PTL DEF Spec, ForgottenWhenGone
=============================================================================
