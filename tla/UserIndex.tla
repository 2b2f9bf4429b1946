------------------------------ MODULE UserIndex ------------------------------
(***************************************************************************)
(* The users of an open snapshot: the table built from the export's files, *)
(* and what it and the files together say of the one a reader asks for.    *)
(*                                                                         *)
(* An export keeps its users in files of their own or inside the realm     *)
(* file.  A user may have no id, and an id may come twice.                 *)
(***************************************************************************)
EXTENDS Naturals, Sequences, FiniteSets, SequencesExt, FiniteSetsExt

CONSTANTS
  UserId,         \* ids a user may have
  Role,
  MaxUsers,       \* bound: users of a realm
  MaxDetails      \* bound: records asked for

VARIABLES
  realmFile,  \* the name of the realm file
  holds,      \* holds[f]: the users of a file, in order
  counted,    \* Manifest.Counts.Users
  phase,      \* of Session.idx: "none", "building", "ready", "failed"
  todo,       \* the inputs the build has not read
  table,      \* table[id]: the row of an id
  joined,     \* the pairs of an id and a role (user_realm_roles)
  inserted,   \* the users the build went through (Index.Counts)
  detail,     \* what the detail pane shows of the one user asked for, or NoDetail
  details

vars == <<realmFile, holds, counted, phase, todo, table, joined, inserted, detail, details>>

UserFile == <<"acme-users-0.json", "acme-users-1.json">>
RealmFileNames == {"acme-realm.json", "acme.json"}
Names == ToSet(UserFile) \cup RealmFileNames
User == [id : UserId \cup {""}, credentials : SUBSET {"otp", "webauthn"}, roles : SUBSET Role]
NoDetail == [asked |-> <<>>, row |-> <<>>, roles |-> {}, shown |-> {}]

\* CredentialSummary.SecondFactor
SecondFactor(u) ==
  IF "webauthn" \in u.credentials THEN IF "otp" \in u.credentials THEN "both" ELSE "passkey"
  ELSE IF "otp" \in u.credentials THEN "otp" ELSE "none"

Everyone == holds[UserFile[1]] \o holds[UserFile[2]] \o holds[realmFile]

TypeOK ==
  /\ phase \in {"none", "building", "ready", "failed"}
  /\ ToSet(todo) \subseteq Names /\ counted \in 0..MaxUsers /\ inserted \in 0..MaxUsers
  /\ \A p \in joined : p[1] \in DOMAIN table /\ p[2] \in Role

\* countPopulation goes through the users of the realm file and of every user file.
Starts(name, users) ==
  /\ realmFile = name /\ holds = users
  /\ counted = Len(Everyone)
  /\ phase = "none" /\ todo = <<>> /\ table = <<>> /\ joined = {} /\ inserted = 0
  /\ detail = NoDetail /\ details = 0

\* The users of an export, in the files they are in: n[i] of them in the i-th.
Init ==
  \E name \in RealmFileNames, n \in {m \in [1..3 -> 0..MaxUsers] : m[1] + m[2] + m[3] <= MaxUsers} :
    \E first \in [1..n[1] -> User], second \in [1..n[2] -> User], inline \in [1..n[3] -> User] :
      Starts(name, [f \in Names |-> IF f = UserFile[1] THEN first ELSE IF f = UserFile[2] THEN second
                                    ELSE IF f = name THEN inline ELSE <<>>])

Bundle == <<realmFile, holds, counted>>
Rows == <<table, joined, inserted>>
-----------------------------------------------------------------------------
(* The build.                                                              *)

EndsInRealm == realmFile = "acme-realm.json"

\* Session.UserFiles: the files of users, or else the realm file, by its ending.
Inputs ==
  LET used(f) == IF holds[f] # <<>> THEN <<f>> ELSE <<>>
      files == used(UserFile[1]) \o used(UserFile[2])
  IN  IF files # <<>> THEN files
      ELSE IF EndsInRealm THEN <<realmFile>> ELSE <<>>

\* Session.Index, the first time.
Begin ==
  /\ phase \in {"none", "failed"} /\ phase' = "building" /\ todo' = Inputs
  /\ table' = <<>> /\ joined' = {} /\ inserted' = 0
  /\ UNCHANGED <<Bundle, detail, details>>

\* Mutant: the file is left out of the id of a user without one.
KeyByPosition(f, i) == IF holds[f][i].id # "" THEN <<holds[f][i].id>> ELSE <<"", i - 1>>

\* A user without an id is known by its place.
Key(f, i) == IF holds[f][i].id # "" THEN <<holds[f][i].id>> ELSE <<f, i - 1>>

\* Mutant: the place is written down once the count has moved on.
RowAfterCount(f, i) == [factor |-> SecondFactor(holds[f][i]), file |-> f, index |-> i]

\* A user of file f at its place: what the row of its id records.
Row(f, i) == [factor |-> SecondFactor(holds[f][i]), file |-> f, index |-> i - 1]

LastOf(f, key) == CHOOSE i \in DOMAIN holds[f] :
  Key(f, i) = key /\ \A j \in DOMAIN holds[f] : Key(f, j) = key => j <= i

\* INSERT OR REPLACE: the last user of an id keeps the row, and the roles of all of
\* them stay.
ReadFile ==
  /\ phase = "building" /\ todo # <<>>
  /\ LET f == Head(todo)
         new == {Key(f, i) : i \in DOMAIN holds[f]}
     IN  /\ table' = [k \in DOMAIN table \cup new |-> IF k \in new THEN Row(f, LastOf(f, k)) ELSE table[k]]
         /\ joined' = joined \cup UNION {{Key(f, i)} \X holds[f][i].roles : i \in DOMAIN holds[f]}
         /\ inserted' = inserted + Len(holds[f])
  /\ todo' = Tail(todo)
  /\ UNCHANGED <<Bundle, phase, detail, details>>

\* Cancelled, or a file that cannot be read: nothing of it is kept.
Discarded == phase' = "failed" /\ todo' = <<>> /\ table' = <<>> /\ joined' = {} /\ inserted' = 0

Fail == phase = "building" /\ Discarded /\ UNCHANGED <<Bundle, detail, details>>

Publish ==
  /\ phase = "building" /\ todo = <<>> /\ phase' = "ready"
  /\ UNCHANGED <<Bundle, todo, Rows, detail, details>>
-----------------------------------------------------------------------------
(* The question.                                                           *)

\* Session.User reads the file of the row again, up to its place or its id, and
\* shows the record it finds there, if any.
Reread(k) ==
  LET row == table[k]
      here == {i \in DOMAIN holds[row.file] : i - 1 = row.index \/ <<holds[row.file][i].id>> = k}
  IN  {holds[row.file][i] : i \in {i \in here : \A j \in here : i <= j}}

\* Index.RolesFor
RolesFor(k) == {r \in Role : <<k, r>> \in joined}

Detail(k) ==
  /\ phase = "ready" /\ k \in DOMAIN table /\ details < MaxDetails
  /\ details' = details + 1
  /\ detail' = [asked |-> k, row |-> table[k], roles |-> RolesFor(k), shown |-> Reread(k)]
  /\ UNCHANGED <<Bundle, phase, todo, Rows>>

Next == Begin \/ ReadFile \/ Fail \/ Publish \/ \E k \in DOMAIN table : Detail(k)

Spec == Init /\ [][Next]_vars
-----------------------------------------------------------------------------
(* What is checked.                                                        *)

Ids == [i \in DOMAIN Everyone |-> Everyone[i].id]
IdsAreDistinct == \A i, j \in DOMAIN Ids : Ids[i] = Ids[j] /\ Ids[i] # "" => i = j
InOnePlace == holds[realmFile] = <<>>
              \/ (EndsInRealm /\ \A f \in ToSet(UserFile) : holds[f] = <<>>)

\* An index that answers has a row of every user the manifest counted, id or no id,
\* if ids are distinct and the users in one place (Index.Build, countPopulation).
EveryoneIsThere ==
  phase = "ready" /\ IdsAreDistinct /\ InOnePlace =>
    Cardinality(DOMAIN table) = counted /\ inserted = counted

\* The row, the roles and the record that are shown together are one user's, and of
\* the one asked for, id or no id, if ids are distinct (Index.Build, Session.User).
DetailIsOfOneUser ==
  detail # NoDetail /\ IdsAreDistinct =>
    \E f \in Names : \E i \in DOMAIN holds[f] :
      detail = [asked |-> Key(f, i), row |-> Row(f, i), roles |-> holds[f][i].roles,
                shown |-> {holds[f][i]}]
-----------------------------------------------------------------------------
(* What the sources say and the code does not keep: see the README.        *)

\* "Both are supported" (build.go:537), users inline and in files: the index reads the
\* realm file only when there are no others, and only under one of its names.
EveryPlaceIsIndexed == phase = "ready" /\ IdsAreDistinct => inserted = counted

\* The count on the page and the count of the build differ when an id comes twice.
CountsAreOfRows == phase = "ready" => inserted = Cardinality(DOMAIN table)

\* A row and the record behind it: of two users of one id, the row is the last one's
\* and the record the first one's.
DetailIsOfTheLast == \A u \in detail.shown : SecondFactor(u) = detail.row.factor
=============================================================================
