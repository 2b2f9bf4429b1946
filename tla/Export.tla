------------------------------- MODULE Export -------------------------------
(***************************************************************************)
(* One realm's export: kc.sh is asked which options it takes, run with the *)
(* ports it can be told, run again with others when it could not bind, and *)
(* what it wrote is listed, renamed and staged.                            *)
(*                                                                         *)
(* kc.sh, the host's ports and the clock of its transactions are the       *)
(* environment.  A page of users is a file; a file's name is its prefix,   *)
(* its number and the digits the number is written with.                   *)
(***************************************************************************)
EXTENDS Naturals, FiniteSets, FiniteSetsExt

CONSTANTS
  Options,            \* the port options of some release of kc.sh
  maxExportAttempts,  \* how often a bind conflict is tried
  UserCounts,         \* the sizes of realm
  Patience,           \* how many users a transaction can last for
  Sizes,              \* the page sizes an operator asks for; 0 is unset
  UsersPerFileMin, UsersPerFileDefault,
  Radix,              \* page numbers are written in this base
  UserFileDigits,     \* the narrowest a page number is written
  MaxGrabs            \* bound: how often somebody else takes a port

VARIABLES
  host,     \* where kc.sh runs and what this kc.sh is
  taken,    \* the ports somebody holds there
  req,      \* what the operator asked for
  known,    \* what discoverOptions learned; empty is "not asked"
  try,      \* the attempt, the ports it was given, and how the last one ended
  dir,      \* the files in the export directory
  listed,   \* the layout read from it
  staged,   \* what the builder holds: carried name -> file
  at, grabs

vars == <<host, taken, req, known, try, dir, listed, staged, at, grabs>>

Prefixes == {"users", "federated"}
RealmFile == [kind |-> "realm"]
OtherFile == [kind |-> "other"]
UserFile(prefix, n, digits) == [kind |-> "user", prefix |-> prefix, n |-> n, digits |-> digits]

\* strconv.Itoa's length: one digit, and one more for every power of the base up to n.
Digits(n) == 1 + Cardinality({Radix^k : k \in 1..n} \cap (1..n))

UserFiles(files) == {f \in files : f.kind = "user"}

\* A port is the default for an option, or the one the k-th allocation gave it.
Default(o) == <<0, o>>
Allocated(k, o) == <<k, o>>
Ports == (0..maxExportAttempts) \X Options

TypeOK ==
  /\ host.takes \subseteq host.binds /\ host.binds \subseteq Options
  /\ taken \subseteq Ports /\ req.size \in Nat \ {0} /\ req.users \in UserCounts
  /\ known \subseteq Options
  /\ try \in [attempt : 1..maxExportAttempts, ports : 0..maxExportAttempts,
              ended : {"no", "ok", "rejected", "conflict", "timeout", "refused", "other", "lost",
                        "no ports", "cancelled"}]
  /\ listed \subseteq dir
  /\ at \in {"discover", "run", "read", "fetch", "staged", "failed"}
  /\ grabs \in 0..MaxGrabs

\* ClampUsersPerFile.
ClampUsersPerFile(n) ==
  IF n = 0 \/ n > UsersPerFileDefault THEN UsersPerFileDefault
  ELSE IF n < UsersPerFileMin THEN UsersPerFileMin ELSE n

\* A clone has ports of its own and is given the fixed ones; a host's are
\* allocated on it, free as of then.  The serving Keycloak holds the defaults.
Starts(h, r) ==
  /\ host = h /\ req = r
  /\ taken = IF host.own THEN {} ELSE {Default(o) : o \in Options}
  /\ known = {} /\ dir = {} /\ listed = {} /\ staged = <<>>
  /\ try = [attempt |-> 1, ports |-> IF host.own THEN 0 ELSE 1, ended |-> "no"]
  /\ at = "discover" /\ grabs = 0

Hosts == {h \in [own : BOOLEAN, remote : BOOLEAN, takes : SUBSET Options, binds : SUBSET Options,
                 patience : Patience] :
            h.takes \subseteq h.binds /\ ~(h.own /\ h.remote)}
Requests == [size : {ClampUsersPerFile(n) : n \in Sizes}, lifted : BOOLEAN, users : UserCounts,
             one : BOOLEAN]
Init == \E h \in Hosts, r \in Requests : Starts(h, r)

\* Somebody takes a port between its release and kc.sh's start.
Grab(port) ==
  /\ ~host.own /\ port \notin taken /\ grabs < MaxGrabs /\ at \in {"discover", "run"}
  /\ taken' = taken \cup {port} /\ grabs' = grabs + 1
  /\ UNCHANGED <<host, req, known, try, dir, listed, staged, at>>

\* kc.sh's help names the options it takes; a help that fails names none.
DiscoverOptions ==
  /\ at = "discover"
  /\ known' \in {host.takes, {}}
  /\ at' = "run"
  /\ UNCHANGED <<host, taken, req, try, dir, listed, staged, grabs>>

\* The port options handed over: those it is known to take, none in doubt.
PortArgs == known

\* Where kc.sh listens.
PortOf(o) == IF o \in PortArgs THEN Allocated(try.ports, o) ELSE Default(o)
Conflicts == {o \in host.binds : PortOf(o) \in taken}

\* The pages kc.sh writes, numbered from 0 and not padded.
PageCount == (req.users + req.size - 1) \div req.size
Pages(prefix) == {UserFile(prefix, n, Digits(n)) : n \in 0..(PageCount - 1)}
Written == {RealmFile} \cup
  IF req.one \/ req.users = 0 THEN {} ELSE Pages("users") \cup Pages("federated")

\* A page is one transaction, and one that outlasts the limit is rolled back.
TooSlow == ~req.lifted /\ ~req.one /\ Min({req.users, req.size}) >= host.patience

\* What this run of kc.sh can end with.  Its answer may be lost, or given up on.
Endings ==
  {"lost"} \cup
  (IF ~(PortArgs \subseteq host.takes) THEN {"rejected"}
   ELSE IF Conflicts # {} THEN {"conflict"}
   ELSE IF TooSlow THEN {"timeout"} ELSE {"ok", "refused", "other"})

\* The conflict can be answered with other ports only when some were passed.
MayTryAgain(ended) ==
  ended = "conflict" /\ PortArgs # {} /\ try.attempt < maxExportAttempts

\* Mutant: the retry is given the ports that were just taken.
SamePorts == {try.ports}

\* What an allocation made now may give: ports nobody holds on this machine, which
\* for a host reached over SSH is another machine's.
NextPorts == {k \in 1..maxExportAttempts :
               host.remote \/ {Allocated(k, o) : o \in Options} \cap taken = {}}

\* What a run leaves in the directory.  One that could not start leaves nothing;
\* any other may have died before its last pages, or written nothing usable.
LeftBy(ended) ==
  IF ended = "rejected" THEN {{}}
  ELSE {{}, Written} \cup
       {{f \in Written : f.kind = "user" => f.n < k} : k \in 0..PageCount}

\* A conflict is answered with an allocation, which may fail.
Reallocate(ended) ==
  \/ /\ try' \in [attempt : {try.attempt + 1}, ports : NextPorts, ended : {ended}]
     /\ at' = "run"
  \/ try' = [try EXCEPT !.ended = "no ports"] /\ at' = "failed"

Run ==
  /\ at = "run"
  /\ \E ended \in Endings : \E left \in LeftBy(ended) :
       /\ dir' = dir \cup left
       /\ IF MayTryAgain(ended) THEN Reallocate(ended)
          ELSE /\ try' = [try EXCEPT !.ended = ended]
               /\ at' = IF ended = "ok" THEN "read" ELSE "failed"
  /\ UNCHANGED <<host, taken, req, known, listed, staged, grabs>>

\* A cancel is seen before an attempt.
SeesCancel ==
  /\ at = "run" /\ at' = "failed"
  /\ try' = [try EXCEPT !.ended = "cancelled"]
  /\ UNCHANGED <<host, taken, req, known, dir, listed, staged, grabs>>

\* ReadLayout sorts the names into a realm file, user files and others.
Complete(files) == RealmFile \in files

ReadLayout ==
  /\ at = "read"
  /\ \/ listed' = dir /\ at' = IF Complete(dir) THEN "fetch" ELSE "failed"
     \/ listed' = {} /\ at' = "failed"
  /\ UNCHANGED <<host, taken, req, known, try, dir, staged, grabs>>

\* PadUserFiles: every number as wide as the widest, or nothing at all when a
\* padded name is somebody's already.
Width(files) == Max({UserFileDigits} \cup {f.digits : f \in UserFiles(files)})
Padded(f, files) ==
  IF f.kind = "user" THEN [f EXCEPT !.digits = Max({f.digits, Width(files)})] ELSE f
Collides(files) ==
  \E f, g \in files : f # g /\ Padded(f, files) \in {g, Padded(g, files)}
CarriedName(f, files) == IF Collides(files) THEN f ELSE Padded(f, files)

\* Each file is staged under the name it is carried by; a transfer that breaks
\* off fails the job, and the builder is emptied.
Carried == LET named == {<<CarriedName(f, listed), f>> : f \in dir}
           IN  [name \in {p[1] : p \in named} |-> (CHOOSE p \in named : p[1] = name)[2]]

\* Mutant: a broken transfer is noted, and what arrived is kept.
FetchKeepsWhatArrived ==
  /\ at = "fetch"
  /\ \E arrived \in SUBSET DOMAIN Carried : staged' = [name \in arrived |-> Carried[name]]
  /\ at' = "staged"
  /\ UNCHANGED <<host, taken, req, known, try, dir, listed, grabs>>

Fetch ==
  /\ at = "fetch"
  /\ \/ staged' = Carried /\ at' = "staged"
     \/ staged' = <<>> /\ at' = "failed"
  /\ UNCHANGED <<host, taken, req, known, try, dir, listed, grabs>>

Next ==
  \/ DiscoverOptions \/ Run \/ SeesCancel \/ ReadLayout \/ Fetch
  \/ \E port \in Ports : Grab(port)

Spec == Init /\ [][Next]_vars
-----------------------------------------------------------------------------
\* A job gives up over a taken port when it had no port to move, or at its last
\* attempt: and when it can move all of them, on this machine, only if somebody took
\* a port from it as often as it tried (export).
MovesThemAll == host.binds \subseteq known /\ ~host.remote
GivesUpOnlyWhenItMust ==
  at = "failed" /\ try.ended = "conflict" =>
    \/ known = {}
    \/ try.attempt = maxExportAttempts /\ (MovesThemAll => grabs >= maxExportAttempts)

\* Every file kc.sh wrote is staged, none under another's name, and the pages of
\* a prefix are in order when their names are (PadUserFiles, fetch).
StagedIsExported ==
  at = "staged" =>
    /\ {staged[name] : name \in DOMAIN staged} = dir
    /\ Cardinality(DOMAIN staged) = Cardinality(dir)
    /\ \A a, b \in UserFiles(DOMAIN staged) : a.prefix = b.prefix => a.digits = b.digits
-----------------------------------------------------------------------------
(* What the sources say and the code does not keep: see the README.        *)

\* "kc.sh can exit zero having written a realm file and then died before the user
\* files, and treating that as success would ship a snapshot missing its users"
\* (kc.go, Complete): that is what Complete looks past.
NoPageIsMissed == at = "staged" => dir = Written

\* "the export retry has to act on it" (kc.go, TransactionTimeout).
TimeoutIsActedOn == at = "failed" => try.ended # "timeout"

\* ClassifyFailure calls a refused database retryable (kc.go).
RetryableIsRetried ==
  at = "failed" /\ try.ended = "refused" => try.attempt = maxExportAttempts

\* "The same release-then-bind race exists here as locally, and is handled the
\* same way: ... the whole allocation is redone" (ssh.go): it is redone here.
FreshPortsAreFree == [][try'.attempt > try.attempt =>
  taken' \cap {Allocated(try'.ports, o) : o \in known} = {}]_vars

\* "Reallocating is the answer only when the ports can be handed to kc.sh"
\* (capture.go): one port handed over is enough for it.
RetryMovesThePort == [][try'.attempt > try.attempt => Conflicts \subseteq known]_vars
=============================================================================
