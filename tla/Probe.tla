-------------------------------- MODULE Probe --------------------------------
(***************************************************************************)
(* The probe of an environment: a sequence of questions, each answered yes *)
(* or no or not at all, and what is reported of each.  The first one that  *)
(* blocks ends it.  A capture probes again before it prepares anything and *)
(* stops when the probe is not OK.                                         *)
(*                                                                         *)
(* The world is which of the things asked about are so; it does not change *)
(* while the probe runs.                                                   *)
(***************************************************************************)
EXTENDS Naturals, Sequences, FiniteSets, SequencesExt

CONSTANTS
  Kinds,         \* the kinds of environment
  MaxUnanswered  \* bound: questions that get no answer

AllKinds == {"k8s", "docker", "ssh", "local"}
VARIABLES
  kind,     \* the kind of environment
  world,    \* the things that are so
  at,       \* the next question; past the last when the probe has ended
  missing,  \* the verbs found missing so far
  checks,   \* facts.Checks: names with pass, warn, fail or skipped
  unanswered

vars == <<kind, world, at, missing, checks, unanswered>>

\* The verbs a clone needs on a cluster, in the order asked.
requiredVerbs ==
  <<"get pods", "list pods", "create pods", "delete pods", "create pods/exec">>

\* The questions each kind's Probe asks, in order.
OfACluster ==
  <<"Cluster", "Namespace", "Workload", "Container">> \o requiredVerbs
  \o <<"RBAC", "Ephemeral clone", "Keycloak version">>
OfDocker == <<"Docker endpoint", "Serving container", "Ephemeral clone", "Keycloak version">>
OverSSH == <<"Connection", "kc.sh", "sudo", "Keycloak version", "Free space", "Free ports">>
Here == <<"Server folder", "kc.sh", "Keycloak version", "Free space", "Free ports">>

Questions == [k8s |-> OfACluster, docker |-> OfDocker, ssh |-> OverSSH, local |-> Here][kind]
Verbs == Range(requiredVerbs)

\* What is good to know and stops nothing.
Optional == {"Keycloak version", "Free space"}

\* What a capture cannot do without.  A clone may be given resources of its own,
\* which then are what the quota has to have room for.
Overrides == IF kind = "k8s" THEN {"override", "override fits"} ELSE {}
Needed ==
  (Range(Questions) \ (Optional \cup {"RBAC"}
     \cup IF "override" \in world THEN {"Ephemeral clone"} ELSE {}))
  \cup IF "override" \in world THEN {"override fits"} ELSE {}

Over == Len(Questions) + 1
Question == Questions[at]

TypeOK ==
  /\ kind \in Kinds /\ world \subseteq Range(Questions) \cup Overrides
  /\ at \in 1..Over /\ missing \subseteq Verbs
  /\ checks \subseteq Range(Questions) \X {"pass", "warn", "fail", "skipped"}
  /\ unanswered \in 0..MaxUnanswered

Starts(k) == kind = k /\ at = 1 /\ missing = {} /\ checks = {} /\ unanswered = 0
Init == \E k \in Kinds : Starts(k) /\ world \in SUBSET ((Range(Questions) \cup Overrides) \ {"RBAC"})

Says(status) == checks' = checks \cup {<<Question, status>>}
GoesOn == at' = at + 1
Ends == at' = Over

Answered(yes) == (Question \in world) = yes /\ UNCHANGED unanswered
NoAnswer == unanswered < MaxUnanswered /\ unanswered' = unanswered + 1

\* A question of its own kind below: a verb, the verdict on the verbs, the quota,
\* the namespace, and what is optional.
Plain == Question \notin Verbs \cup Optional \cup {"RBAC", "Namespace"}
         /\ ~(kind = "k8s" /\ Question = "Ephemeral clone")

\* The version of a cluster's Keycloak is read off its image, and never asked for.
OnlyATag == kind = "k8s" /\ Question = "Keycloak version"

Passes ==
  /\ Question \notin Verbs \cup {"RBAC"} /\ ~OnlyATag /\ Answered(TRUE)
  /\ Says("pass") /\ GoesOn /\ UNCHANGED missing

\* A thing that is not so, or that nobody answers for, blocks.
Blocks ==
  /\ Plain /\ (Answered(FALSE) \/ NoAnswer)
  /\ Says("fail") /\ Ends /\ UNCHANGED missing

\* Neither stops a capture, and neither is left blank.
IsOptional ==
  /\ Question \in Optional /\ (Answered(FALSE) \/ (OnlyATag /\ Answered(TRUE)) \/ NoAnswer)
  /\ Says(IF Question = "Free space" THEN "skipped" ELSE "warn")
  /\ GoesOn /\ UNCHANGED missing

\* A namespace that is not there blocks; one that may not be read is warned of,
\* and one the server would not answer for is passed over.
Namespace ==
  /\ Question = "Namespace"
  /\ \/ Answered(FALSE) /\ Says("fail") /\ Ends
     \/ NoAnswer /\ (Says("warn") \/ UNCHANGED checks) /\ GoesOn
  /\ UNCHANGED missing

\* Which verbs are missing.  One that nobody answers for ends the questions, and
\* what was found missing before it is forgotten.
Verb ==
  /\ Question \in Verbs
  /\ \/ Answered(TRUE) /\ GoesOn /\ UNCHANGED <<missing, checks>>
     \/ Answered(FALSE) /\ missing' = missing \cup {Question} /\ GoesOn /\ UNCHANGED checks
     \/ /\ NoAnswer
        /\ checks' = checks \cup {<<"RBAC", "skipped">>}
        /\ missing' = {}
        /\ at' = CHOOSE i \in DOMAIN Questions : Questions[i] = "RBAC"

\* Mutant: only a pod that cannot be created is worth stopping for.
RBACOfTheLast ==
  /\ Question = "RBAC"
  /\ IF Last(requiredVerbs) \notin missing THEN Says("pass") /\ GoesOn ELSE Says("fail") /\ Ends
  /\ UNCHANGED <<missing, unanswered>>

RBAC ==
  /\ Question = "RBAC"
  /\ IF missing = {} THEN Says("pass") /\ GoesOn ELSE Says("fail") /\ Ends
  /\ UNCHANGED <<missing, unanswered>>

\* A quota with no room for what the serving container asks for blocks; quotas that cannot be listed count as none.
Quota ==
  /\ kind = "k8s" /\ Question = "Ephemeral clone"
  /\ \/ Answered(FALSE) /\ Says("fail") /\ Ends
     \/ NoAnswer /\ Says("pass") /\ GoesOn
  /\ UNCHANGED missing

Probe ==
  /\ at < Over
  /\ Passes \/ Blocks \/ IsOptional \/ Namespace \/ Verb \/ RBAC \/ Quota
  /\ UNCHANGED <<kind, world>>

Next == Probe
Spec == Init /\ [][Next]_vars
-----------------------------------------------------------------------------
\* TargetFacts.OK: the environment was reached, and nothing blocks.
OK ==
  /\ <<Questions[1], "pass">> \in checks
  /\ \A check \in checks : check[2] # "fail"

\* A probe whose every question was answered is OK exactly when everything a
\* capture needs there is so, a clone of the serving size in particular (Probe of
\* the four executors, TargetFacts.OK).
OkMeansPossible ==
  at = Over /\ unanswered = 0 /\ "override" \notin world => (OK <=> Needed \subseteq world)
-----------------------------------------------------------------------------
(* What the sources say and the code does not keep: see the README.        *)

\* "It is reported as skipped rather than as passed, because "not checked" and
\* "fine" are different answers" (target.go, CheckSkipped).
NotCheckedIsNotFine ==
  \A name \in Range(Questions) : ~({<<name, "skipped">>, <<name, "pass">>} \subseteq checks)

\* "Raise the namespace quota, or override the clone's resources on the environment"
\* (k8s.go): the quota is weighed against the serving container all the same.
OverrideIsWeighed == at = Over /\ unanswered = 0 => (OK <=> Needed \subseteq world)

\* "Exactly which verbs are missing, rather than a generic refusal" (k8s.go).
MissingIsRemembered == [][missing \subseteq missing']_vars
=============================================================================
