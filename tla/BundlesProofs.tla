--------------------------- MODULE BundlesProofs ---------------------------
(***************************************************************************)
(* Proofs about what a snapshot is, part by part.                          *)
(*                                                                         *)
(* The bundle: the integrity record that is read is the one that was       *)
(* sealed, or none, so what passes against it is what was sealed; and what *)
(* nothing happened to is read as it was written.                          *)
(*                                                                         *)
(* The inventory: what is missing is flagged before completeness is said.  *)
(*                                                                         *)
(* The users: the table has the keys of the files the build went through,  *)
(* and distinct users have distinct keys; a key is of one place, whose     *)
(* user the detail shows.                                                  *)
(*                                                                         *)
(* The shelf: a reading has seen what was there when it began and stayed.  *)
(***************************************************************************)
EXTENDS Bundles, FiniteSetTheorems, SequenceTheorems, WellFoundedInduction,
        NaturalsInduction, TLAPS

-----------------------------------------------------------------------------
(***************************************************************************)
(* The bundle.                                                             *)
(***************************************************************************)
\* The names a verdict is about, and the documents of a staging folder with those names.
Covered == RealmFiles \cup Seals!Documents
Leaves(f) == Seals!SealedLeaves(Seals!Artifacts(f))

\* Documents at some of the places of an archive, no two of one name.
Distinct(docs) ==
  /\ IsFiniteSet(DOMAIN docs) /\ DOMAIN docs \subseteq Nat
  /\ \A i, j \in DOMAIN docs : docs[i].name = docs[j].name => i = j

\* The bundle counts as the library does.
LEMMA SealCardinality == \A S : Seals!Cardinality(S) = Cardinality(S)
BY Zenon DEF Seals!Cardinality, Cardinality

\* A finite set in some order has each of its members once.
LEMMA SomeOrder ==
  ASSUME NEW S, IsFiniteSet(S)
  PROVE
  LET r == Seals!SetToSeq(S)
  IN  /\ r \in Seq(S) /\ Len(r) \in Nat /\ DOMAIN r = 1..Len(r)
      /\ \A i, j \in DOMAIN r : r[i] = r[j] => i = j
      /\ {r[i] : i \in DOMAIN r} = S
<1> DEFINE n == Cardinality(S)
           r == Seals!SetToSeq(S)
<1>1. IsFiniteSet(S)
  OBVIOUS
<1>2. n \in Nat /\ ExistsBijection(1..n, S)
  BY <1>1, FS_CardinalityType
<1>3. \E f \in [1..n -> S] : Seals!IsInjective(f)
  BY <1>2 DEF ExistsBijection, Bijection, Injection, IsInjective, Seals!IsInjective
<1>4. r = CHOOSE f \in [1..n -> S] : Seals!IsInjective(f)
  BY SealCardinality, Zenon DEF Seals!SetToSeq
<1>5. r \in [1..n -> S] /\ Seals!IsInjective(r)
  BY <1>3, <1>4, Zenon
<1>6. r \in Injection(1..n, S)
  BY <1>5 DEF Injection, IsInjective, Seals!IsInjective
<1>7. IsFiniteSet(1..n) /\ Cardinality(1..n) = n
  <2> HIDE DEF n, r
  <2>1. 1 \in Int /\ n \in Int
    BY <1>2
  <2> QED
    BY <1>2, <2>1, FS_Interval
<1>8. r \in Surjection(1..n, S)
  BY <1>1, <1>6, <1>7, FS_Injection
<1> HIDE DEF n, r
<1>9. r \in Seq(S) /\ Len(r) = n /\ DOMAIN r = 1..n
  BY <1>2, <1>5, SeqDef
<1>10. {r[i] : i \in DOMAIN r} = S
  BY <1>8, <1>9 DEF Surjection
<1>11. \A i, j \in DOMAIN r : r[i] = r[j] => i = j
  BY <1>5 DEF Seals!IsInjective
<1>12. Len(r) \in Nat /\ DOMAIN r = 1..Len(r)
  BY <1>2, <1>9
<1> QED
  BY <1>9, <1>10, <1>11, <1>12, Zenon DEF r

\* The order of the archive has each name once.
LEMMA OrderOfNames ==
  LET o == Seals!NameOrder
  IN  /\ DOMAIN o = 1..Len(o) /\ Len(o) \in Nat
      /\ \A i, j \in DOMAIN o : o[i] = o[j] => i = j
      /\ {o[i] : i \in DOMAIN o} = Covered \cup Seals!Uncovered
<1> DEFINE h == <<"dependencies.json", "envelope.json", "integrity.json", "manifest.json",
                  "provenance.json">>
           H == Seals!Documents \cup Seals!Uncovered
           r == Seals!SetToSeq(RealmFiles)
           o == h \o r
           S == H \cup RealmFiles
<1>1. /\ h \in Seq(S) /\ Len(h) = 5 /\ DOMAIN h = 1..5 /\ {h[i] : i \in 1..5} = H
      /\ \A i, j \in 1..5 : h[i] = h[j] => i = j
  <2>1. /\ h[1] = "dependencies.json" /\ h[2] = "envelope.json" /\ h[3] = "integrity.json"
        /\ h[4] = "manifest.json" /\ h[5] = "provenance.json" /\ Len(h) = 5 /\ DOMAIN h = 1..5
    OBVIOUS
  <2>2. H = {"dependencies.json", "envelope.json", "integrity.json", "manifest.json",
             "provenance.json"}
    BY DEF Seals!Documents, Seals!Uncovered
  <2> HIDE DEF H
  <2>3. h \in Seq(S)
    BY <2>2
  <2>4. 1..5 = {1, 2, 3, 4, 5}
    OBVIOUS
  <2> HIDE DEF h
  <2>5. {h[i] : i \in 1..5} = H
    BY <2>1, <2>2, <2>4
  <2>6. \A i, j \in 1..5 : h[i] = h[j] => i = j
    BY <2>1, <2>4
  <2> QED
    BY <2>1, <2>3, <2>5, <2>6
<1>2. /\ r \in Seq(RealmFiles) /\ Len(r) \in Nat /\ DOMAIN r = 1..Len(r)
      /\ \A i, j \in DOMAIN r : r[i] = r[j] => i = j
      /\ {r[i] : i \in DOMAIN r} = RealmFiles
  <2>1. RealmFiles \in SUBSET (RealmFiles \cup Identity \cup Passphrase)
    OBVIOUS
  <2>2. IsFiniteSet(RealmFiles)
    BY <2>1, SealingAssumption, FS_Subset DEF SealingAssumption
  <2> QED
    BY <2>2, SomeOrder, Zenon
<1>3. H \cap RealmFiles = {}
  BY SealingAssumption DEF SealingAssumption
<1>4. Seals!NameOrder = o /\ Covered \cup Seals!Uncovered = S
  BY DEF Seals!NameOrder, Covered
<1> HIDE DEF h, r, H
<1>5. r \in Seq(S) /\ h \in Seq(S)
  BY <1>1, <1>2
<1> HIDE DEF S
<1>6. /\ o \in Seq(S) /\ Len(o) = Len(h) + Len(r)
      /\ \A i \in 1..(Len(h) + Len(r)) : o[i] = IF i <= Len(h) THEN h[i] ELSE r[i - Len(h)]
  BY <1>5, ConcatProperties, Zenon
<1> HIDE DEF o
<1>7. DOMAIN o = 1..(5 + Len(r)) /\ Len(o) = 5 + Len(r)
  BY <1>1, <1>2, <1>6, LenProperties
<1>8. \A i \in 1..5 : i \in DOMAIN o /\ o[i] = h[i] /\ o[i] \in H
  <2> TAKE i \in 1..5
  <2>1. i \in 1..(5 + Len(r)) /\ i <= 5
    BY <1>2
  <2> QED
    BY <1>1, <1>6, <1>7, <2>1
<1>9. \A i \in 1..Len(r) : i + 5 \in DOMAIN o /\ o[i + 5] = r[i] /\ r[i] \in RealmFiles
  <2> TAKE i \in 1..Len(r)
  <2> DEFINE k == i + 5
  <2>1. k \in 1..(5 + Len(r)) /\ ~(k <= 5) /\ k - 5 = i
    BY <1>2
  <2>2. r[i] \in RealmFiles
    BY <1>2
  <2> HIDE DEF k
  <2>3. k \in DOMAIN o /\ o[k] = r[i]
    BY <1>1, <1>6, <1>7, <2>1
  <2> QED
    BY <2>2, <2>3 DEF k
<1>10. ASSUME NEW i \in DOMAIN o PROVE i \in 1..5 \/ (\E k \in 1..Len(r) : i = k + 5)
  <2>0. i \in 1..(5 + Len(r))
    BY <1>7
  <2>1. CASE i <= 5
    BY <1>2, <2>0, <2>1
  <2>2. CASE ~(i <= 5)
    <3>1. i - 5 \in 1..Len(r) /\ i = (i - 5) + 5
      BY <1>2, <1>7, <2>2
    <3> QED
      BY <3>1
  <2> QED
    BY <2>1, <2>2
<1>11. ASSUME NEW i \in DOMAIN o, NEW j \in DOMAIN o, o[i] = o[j] PROVE i = j
  <2>1. CASE i \in 1..5 /\ j \in 1..5
    BY <1>1, <1>8, <1>11, <2>1
  <2>2. CASE i \in 1..5 /\ j \notin 1..5
    BY <1>3, <1>8, <1>9, <1>10, <1>11, <2>2
  <2>3. CASE i \notin 1..5 /\ j \in 1..5
    BY <1>3, <1>8, <1>9, <1>10, <1>11, <2>3
  <2>4. CASE i \notin 1..5 /\ j \notin 1..5
    <3>1. PICK k \in 1..Len(r) : i = k + 5
      BY <1>10, <2>4
    <3>2. PICK l \in 1..Len(r) : j = l + 5
      BY <1>10, <2>4
    <3>3. r[k] = r[l]
      BY <1>9, <1>11, <3>1, <3>2
    <3>4. k = l
      BY <1>2, <3>3
    <3> QED
      BY <3>1, <3>2, <3>4
  <2> QED
    BY <2>1, <2>2, <2>3, <2>4
<1>12. {o[i] : i \in DOMAIN o} = S
  <2>1. ASSUME NEW i \in DOMAIN o PROVE o[i] \in S
    BY <1>8, <1>9, <1>10 DEF S
  <2>2. ASSUME NEW x \in S PROVE \E i \in DOMAIN o : o[i] = x
    <3>1. CASE x \in H
      <4>1. PICK i \in 1..5 : h[i] = x
        BY <1>1, <3>1
      <4> QED
        BY <1>8, <4>1
    <3>2. CASE x \in RealmFiles
      <4>1. PICK i \in 1..Len(r) : r[i] = x
        BY <1>2, <3>2
      <4> QED
        BY <1>9, <4>1
    <3> QED
      BY <3>1, <3>2 DEF S
  <2> QED
    BY <2>1, <2>2
<1>13. DOMAIN o = 1..Len(o) /\ Len(o) \in Nat
  BY <1>2, <1>7
<1>14. \A i, j \in DOMAIN o : o[i] = o[j] => i = j
  BY <1>11
<1> QED
  BY <1>4, <1>12, <1>13, <1>14, Zenon

\* The leaves of what is staged: each of them once, and nothing else.
LEMMA LeavesOf ==
  ASSUME NEW f, Covered \subseteq DOMAIN f
  PROVE  /\ Distinct(Leaves(f))
         /\ Seals!Members(Leaves(f)) = {Seals!Doc(n, f[n]) : n \in Covered}
<1> DEFINE o == Seals!NameOrder
           A == Seals!Artifacts(f)
           L == Leaves(f)
<1>1. /\ DOMAIN o = 1..Len(o) /\ Len(o) \in Nat
      /\ \A i, j \in DOMAIN o : o[i] = o[j] => i = j
      /\ {o[i] : i \in DOMAIN o} = Covered \cup Seals!Uncovered
  BY OrderOfNames, Zenon
<1>2. A = [i \in {j \in DOMAIN o : o[j] \in DOMAIN f} |-> Seals!Doc(o[i], f[o[i]])]
  BY DEF Seals!Artifacts
<1>3. Covered \cap Seals!Uncovered = {}
  BY SealingAssumption DEF SealingAssumption, Covered, Seals!Documents, Seals!Uncovered
<1> HIDE DEF o
<1>4. \A i \in DOMAIN A : A[i].name = o[i] /\ A[i].content = f[o[i]]
  BY <1>2 DEF Seals!Doc
<1>5. DOMAIN A = {j \in DOMAIN o : o[j] \in DOMAIN f}
  BY <1>2
<1>6. L = [i \in {j \in DOMAIN A : A[j].name \notin Seals!Uncovered} |-> A[i]]
  BY DEF Leaves, Seals!SealedLeaves
<1>7. DOMAIN L = {j \in DOMAIN o : o[j] \in Covered}
  <2>1. DOMAIN L = {j \in DOMAIN A : A[j].name \notin Seals!Uncovered}
    BY <1>6
  <2>2. \A j \in DOMAIN o : o[j] \in Covered <=> o[j] \notin Seals!Uncovered
    BY <1>1, <1>3
  <2> QED
    BY <1>4, <1>5, <2>1, <2>2
<1>8. \A i \in DOMAIN L : i \in DOMAIN A /\ L[i] = A[i]
  BY <1>5, <1>6, <1>7
<1>9. \A i \in DOMAIN L : L[i] = Seals!Doc(o[i], f[o[i]]) /\ L[i].name = o[i]
  BY <1>2, <1>4, <1>5, <1>8
<1> HIDE DEF L, A
<1>10. IsFiniteSet(DOMAIN L) /\ DOMAIN L \subseteq Nat
  <2>1. IsFiniteSet(1..Len(o))
    <3>1. 1 \in Int /\ Len(o) \in Int
      BY <1>1
    <3> QED
      BY <3>1, FS_Interval
  <2>2. DOMAIN L \in SUBSET (1..Len(o)) /\ 1..Len(o) \subseteq Nat
    BY <1>1, <1>7
  <2> QED
    BY <2>1, <2>2, FS_Subset
<1>11. \A i, j \in DOMAIN L : L[i].name = L[j].name => i = j
  BY <1>1, <1>7, <1>9
<1>12. ASSUME NEW n \in Covered PROVE \E i \in DOMAIN L : L[i] = Seals!Doc(n, f[n])
  <2>1. PICK i \in DOMAIN o : o[i] = n
    BY <1>1
  <2> QED
    BY <1>7, <1>9, <2>1
<1>13. {L[i] : i \in DOMAIN L} = {Seals!Doc(n, f[n]) : n \in Covered}
  <2>1. ASSUME NEW i \in DOMAIN L PROVE \E n \in Covered : L[i] = Seals!Doc(n, f[n])
    BY <1>7, <1>9
  <2> QED
    BY <1>12, <2>1
<1> QED
  BY <1>10, <1>11, <1>13, Zenon DEF L, Distinct, Seals!Members

\* What is not covered does not show in the leaves.
LEMMA SameLeaves ==
  ASSUME NEW f, NEW g, Covered \subseteq DOMAIN f, Covered \subseteq DOMAIN g,
         \A n \in Covered : f[n] = g[n]
  PROVE  Leaves(f) = Leaves(g)
<1> DEFINE o == Seals!NameOrder
           A(h) == [i \in {j \in DOMAIN o : o[j] \in DOMAIN h} |-> Seals!Doc(o[i], h[o[i]])]
<1>1. {o[i] : i \in DOMAIN o} = Covered \cup Seals!Uncovered
  BY OrderOfNames, Zenon
<1>2. Covered \cap Seals!Uncovered = {}
  BY SealingAssumption DEF SealingAssumption, Covered, Seals!Documents, Seals!Uncovered
<1>3. \A h : Seals!Artifacts(h) = A(h)
  BY DEF Seals!Artifacts
<1> HIDE DEF o
<1>4. ASSUME NEW h, Covered \subseteq DOMAIN h
      PROVE  Leaves(h) = [i \in {j \in DOMAIN o : o[j] \in Covered} |-> Seals!Doc(o[i], h[o[i]])]
  <2> DEFINE B == A(h)
  <2>1. Leaves(h) = [i \in {j \in DOMAIN B : B[j].name \notin Seals!Uncovered} |-> B[i]]
    BY <1>3, Zenon DEF Leaves, Seals!SealedLeaves
  <2>2. \A i \in DOMAIN B : B[i].name = o[i] /\ B[i] = Seals!Doc(o[i], h[o[i]])
    BY DEF Seals!Doc
  <2>3. DOMAIN B = {j \in DOMAIN o : o[j] \in DOMAIN h}
    OBVIOUS
  <2> HIDE DEF B
  <2>4. \A j \in DOMAIN o : o[j] \in Covered <=> o[j] \notin Seals!Uncovered
    BY <1>1, <1>2
  <2>5. {j \in DOMAIN B : B[j].name \notin Seals!Uncovered} = {j \in DOMAIN o : o[j] \in Covered}
    BY <1>4, <2>2, <2>3, <2>4
  <2> QED
    BY <2>1, <2>2, <2>3, <2>5
<1>5. /\ Leaves(f) = [i \in {j \in DOMAIN o : o[j] \in Covered} |-> Seals!Doc(o[i], f[o[i]])]
      /\ Leaves(g) = [i \in {j \in DOMAIN o : o[j] \in Covered} |-> Seals!Doc(o[i], g[o[i]])]
  BY <1>4
<1> QED
  BY <1>5

\* How often a document of leaves like these is among them.
LEMMA CountedOnce ==
  ASSUME NEW docs, Distinct(docs), NEW d \in Seals!Members(docs)
  PROVE  Seals!Cardinality({i \in DOMAIN docs : docs[i] = d}) = 1
<1>1. PICK k \in DOMAIN docs : docs[k] = d
  BY DEF Seals!Members
<1>2. {i \in DOMAIN docs : docs[i] = d} = {k}
  BY <1>1 DEF Distinct
<1> QED
  BY <1>2, FS_Singleton, SealCardinality

(***************************************************************************)
(* What passes the verification against the tree of some leaves is those   *)
(* leaves, each of them once: the root tells how often each occurs.        *)
(***************************************************************************)
LEMMA VerifiedIsSame ==
  ASSUME NEW docs, Distinct(docs), NEW given, IsFiniteSet(DOMAIN given),
         Seals!Verify(Seals!NewIntegrityTree(docs), given)
  PROVE  /\ Seals!Members(given) = Seals!Members(docs)
         /\ \A i, j \in DOMAIN given : given[i].name = given[j].name => i = j
<1> DEFINE Count(s, d) == Seals!Cardinality({i \in DOMAIN s : s[i] = d})
<1>1. Seals!RootOf(given) = Seals!RootOf(docs)
  <2>1. Seals!RootOf(given) = Seals!NewIntegrityTree(docs).root
    BY Zenon DEF Seals!Verify
  <2> QED
    BY <2>1 DEF Seals!NewIntegrityTree
<1>2. \A s : Seals!RootOf(s) = [d \in Seals!Members(s) |-> Count(s, d)]
  BY Zenon DEF Seals!RootOf
<1> HIDE DEF Count
<1>3. Seals!Members(given) = Seals!Members(docs)
  <2>1. \A s : DOMAIN Seals!RootOf(s) = Seals!Members(s)
    BY <1>2
  <2> QED
    BY <1>1, <2>1
<1>4. ASSUME NEW d \in Seals!Members(given) PROVE Count(given, d) = 1
  <2>1. Count(given, d) = Count(docs, d)
    <3>1. Seals!RootOf(given)[d] = Count(given, d) /\ Seals!RootOf(docs)[d] = Count(docs, d)
      BY <1>2, <1>3, <1>4
    <3> QED
      BY <1>1, <3>1
  <2> QED
    BY <1>3, <1>4, <2>1, CountedOnce, Zenon DEF Count
<1>5. ASSUME NEW i \in DOMAIN given, NEW j \in DOMAIN given, given[i].name = given[j].name
      PROVE  i = j
  <2>1. given[i] \in Seals!Members(docs) /\ given[j] \in Seals!Members(docs)
    BY <1>3 DEF Seals!Members
  <2>2. given[i] = given[j]
    BY <1>5, <2>1 DEF Seals!Members, Distinct
  <2> DEFINE T == {k \in DOMAIN given : given[k] = given[i]}
  <2>3. T \in SUBSET DOMAIN given /\ i \in T /\ j \in T
    BY <2>2
  <2>4. Cardinality(T) = 1
    BY <1>3, <1>4, <2>1, SealCardinality DEF Count
  <2> HIDE DEF T
  <2>5. IsFiniteSet(T)
    BY <2>3, FS_Subset
  <2>6. \E x : T = {x}
    BY <2>4, <2>5, FS_Singleton
  <2> QED
    BY <2>3, <2>6
<1> QED
  BY <1>3, <1>5

\* Leaves pass the verification against their own tree.
LEMMA SameIsVerified ==
  ASSUME NEW docs, Distinct(docs) PROVE Seals!Verify(Seals!NewIntegrityTree(docs), docs)
<1>1. \A i \in DOMAIN docs : \A j \in DOMAIN docs : docs[j].name = docs[i].name => j <= i
  <2>1. \A i \in DOMAIN docs : i <= i
    BY DEF Distinct
  <2> QED
    BY <2>1 DEF Distinct
<1>2. {j \in DOMAIN docs :
         \A k \in DOMAIN docs : docs[k].name = docs[j].name => k <= j} = DOMAIN docs
  BY <1>1
<1>3. {docs[i] : i \in {j \in DOMAIN docs :
         \A k \in DOMAIN docs : docs[k].name = docs[j].name => k <= j}} = Seals!Members(docs)
  BY <1>2 DEF Seals!Members
<1>4. /\ Seals!NewIntegrityTree(docs).artifacts = Seals!Members(docs)
      /\ Seals!NewIntegrityTree(docs).root = Seals!RootOf(docs)
  BY DEF Seals!NewIntegrityTree
<1> QED
  BY <1>3, <1>4, Zenon DEF Seals!Verify

-----------------------------------------------------------------------------
(***************************************************************************)
(* From the staging folder to the stored archive: what was recorded before *)
(* it was sealed, what a harm may have done, and that an open comes last.  *)
(***************************************************************************)
Keys == Identity \cup Passphrase
Sealed == {"sealed", "readBack", "stored"}
Integrity == leaves["integrity.json"]

SealTypes ==
  /\ harm \in Nat /\ stage \in {"staging", "described", "refused"} \cup Sealed
  /\ Seals!ToSet(enc.to) \subseteq Keys /\ (enc.mode = "" => Seals!ToSet(enc.to) = {})
  /\ remembered \subseteq Keys
  /\ request.passphrase \in Passphrase \cup {""} /\ request.identities \subseteq Identity
  /\ request.candidates \in Seq(Keys)

Recorded ==
  /\ DOMAIN leaves = Seals!Names /\ DOMAIN staging = Seals!Names
  /\ Integrity = <<"tree", Seals!NewIntegrityTree(Leaves(leaves))>>
  /\ staging["integrity.json"] = Integrity
  /\ \A n \in {"integrity.json", "envelope.json", "manifest.json"} : leaves[n] # Seals!Changed

Staged ==
  /\ stage = "staging" => DOMAIN leaves \subseteq RealmFiles /\ DOMAIN staging = DOMAIN leaves
  /\ stage # "staging" => Recorded

\* A document that may be taken for the integrity record is the one, or is no record.
NoOtherRecord(docs) ==
  \A i \in DOMAIN docs :
    docs[i].name = "integrity.json" => docs[i].content \in {Seals!Changed, Integrity}

Archived ==
  /\ archive \in Seq({archive[i] : i \in DOMAIN archive})
  /\ stage \in {"staging", "described"} => archive = <<>>
  /\ NoOtherRecord(archive)

Unharmed ==
  harm = 0 =>
    /\ staging = leaves /\ header
    /\ stage \in Sealed => archive = Seals!Artifacts(leaves) /\ readable = Len(archive)

AskedLast == request # Seals!NoRequest => stage = "stored"

SealInv == SealTypes /\ Staged /\ Archived /\ Unharmed /\ AskedLast

\* Words of these lengths and letters are not one another.
LEMMA NotChanged ==
  ASSUME NEW x
  PROVE  /\ <<"tree", x>> # Seals!Changed /\ <<"envelope", x>> # Seals!Changed
         /\ Seals!Described("manifest.json") # Seals!Changed /\ <<"envelope">> # Seals!Changed
BY DEF Seals!Changed, Seals!Described

\* The files of the export, the documents and the records.
LEMMA NamesApart ==
  /\ Seals!Names = Covered \cup Seals!Uncovered /\ Covered \cap Seals!Uncovered = {}
  /\ RealmFiles \cap Seals!Documents = {} /\ "manifest.json" \in Covered
  /\ {"integrity.json", "envelope.json", "manifest.json"} \subseteq Seals!Names \ RealmFiles
  /\ "integrity.json" \notin Covered /\ "envelope.json" \notin Covered
BY SealingAssumption
   DEF SealingAssumption, Covered, Seals!Documents, Seals!Uncovered, Seals!Names

\* What an action that leaves the archive and the folder alone has to keep.
LEMMA SealFrame ==
  ASSUME SealInv, UNCHANGED <<enc, staging, leaves, stage, archive, readable, header>>,
         harm' \in Nat, harm' = 0 => harm = 0, remembered' \subseteq Keys,
         request'.passphrase \in Passphrase \cup {""}, request'.identities \subseteq Identity,
         request'.candidates \in Seq(Keys),
         request' = Seals!NoRequest \/ request' = request \/ stage = "stored"
  PROVE  SealInv'
<1>1. SealTypes'
  BY DEF SealInv, SealTypes, Seals!ToSet, Sealed
<1>2. Integrity' = Integrity /\ Leaves(leaves)' = Leaves(leaves)
  BY DEF Integrity, Leaves, Seals!SealedLeaves, Seals!Artifacts
<1>3. Staged'
  BY <1>2 DEF SealInv, Staged, Recorded
<1>4. Archived'
  BY <1>2 DEF SealInv, Archived, NoOtherRecord
<1>5. Unharmed'
  BY DEF SealInv, Unharmed, Seals!Artifacts
<1>6. AskedLast'
  BY DEF SealInv, AskedLast
<1> QED
  BY <1>1, <1>3, <1>4, <1>5, <1>6 DEF SealInv

\* A sequence is one of its own members.
LEMMA SeqOfMembers ==
  ASSUME NEW S, NEW s \in Seq(S) PROVE s \in Seq({s[i] : i \in DOMAIN s})
<1>1. Len(s) \in Nat /\ DOMAIN s = 1..Len(s) /\ s = [i \in 1..Len(s) |-> s[i]]
  BY LenProperties, SeqDef
<1>2. s \in [1..Len(s) -> {s[i] : i \in DOMAIN s}]
  BY <1>1
<1> QED
  BY <1>1, <1>2, SeqDef

\* One document of a sequence replaced, removed or added.
LEMMA Edited ==
  ASSUME NEW S, NEW s \in Seq(S), NEW e
  PROVE  /\ \A i \in DOMAIN s : Seals!ReplaceAt(s, i, e) \in Seq(S \cup {e})
         /\ \A i \in DOMAIN s : Seals!RemoveAt(s, i) \in Seq(S \cup {e})
         /\ Append(s, e) \in Seq(S \cup {e})
<1>1. s \in Seq(S \cup {e}) /\ Len(s) \in Nat /\ DOMAIN s = 1..Len(s)
  BY LenProperties, SeqDef
<1>2. ASSUME NEW i \in DOMAIN s PROVE Seals!ReplaceAt(s, i, e) \in Seq(S \cup {e})
  <2>1. [s EXCEPT ![i] = e] \in Seq(S \cup {e})
    BY <1>1, ExceptSeq
  <2> QED
    BY <2>1 DEF Seals!ReplaceAt
<1>3. ASSUME NEW i \in DOMAIN s PROVE Seals!RemoveAt(s, i) \in Seq(S \cup {e})
  <2>1. SubSeq(s, 1, i - 1) \in Seq(S \cup {e}) /\ SubSeq(s, i + 1, Len(s)) \in Seq(S \cup {e})
    <3>1. ASSUME NEW k \in Int, NEW l \in Int, k..l \subseteq DOMAIN s
          PROVE  SubSeq(s, k, l) \in Seq(S \cup {e})
      <4>1. \A x \in DOMAIN s : s[x] \in S \cup {e}
        BY <1>1, SeqDef
      <4>2. \A x \in k..l : s[x] \in S \cup {e}
        BY <3>1, <4>1
      <4> QED
        BY <4>2, SubSeqProperties
    <3>2. 1..(i - 1) \subseteq DOMAIN s /\ (i + 1)..Len(s) \subseteq DOMAIN s
          /\ 1 \in Int /\ i - 1 \in Int /\ i + 1 \in Int /\ Len(s) \in Int
      BY <1>1, <1>3
    <3> QED
      BY <3>1, <3>2
  <2> QED
    BY <2>1, ConcatProperties DEF Seals!RemoveAt
<1>4. Append(s, e) \in Seq(S \cup {e})
  BY <1>1, AppendProperties
<1> QED
  BY <1>2, <1>3, <1>4

\* An archive of the old documents and one more, which is no record, has no other record.
LEMMA EditsLeaveNoOther ==
  ASSUME Archived, NEW e, e.name = "integrity.json" => e.content = Seals!Changed,
         NEW docs \in Seq({archive[i] : i \in DOMAIN archive} \cup {e})
  PROVE  docs \in Seq({docs[i] : i \in DOMAIN docs}) /\ NoOtherRecord(docs)
<1>1. \A i \in DOMAIN docs : docs[i] \in {archive[j] : j \in DOMAIN archive} \cup {e}
  BY LenProperties, SeqDef
<1>2. NoOtherRecord(docs)
  BY <1>1 DEF Archived, NoOtherRecord
<1> QED
  BY <1>2, SeqOfMembers

-----------------------------------------------------------------------------
\* A file is staged before there is a tree.
LEMMA StageKeeps == ASSUME SealInv, NEW n, NEW v, Seals!Stage(n, v) PROVE SealInv'
<1>1. /\ stage = "staging" /\ n \in RealmFiles
      /\ staging' = Seals!WithDoc(staging, n, Seals!File(v))
      /\ leaves' = Seals!WithDoc(leaves, n, Seals!File(v))
      /\ UNCHANGED <<enc, stage, archive, readable, header, harm, request, remembered>>
  BY DEF Seals!Stage, Seals!OpenSame
<1>2. archive = <<>> /\ DOMAIN leaves \subseteq RealmFiles /\ DOMAIN staging = DOMAIN leaves
  BY <1>1 DEF SealInv, Archived, Staged
<1>3. SealTypes'
  BY <1>1 DEF SealInv, SealTypes, Seals!ToSet, Sealed
<1>4. Staged'
  BY <1>1, <1>2 DEF Staged, Seals!WithDoc
<1>5. Archived'
  BY <1>1, <1>2 DEF Archived, NoOtherRecord
<1>6. Unharmed'
  BY <1>1 DEF SealInv, Unharmed, Seals!WithDoc, Sealed
<1>7. AskedLast'
  BY <1>1 DEF SealInv, AskedLast, Seals!NoRequest
<1> QED
  BY <1>3, <1>4, <1>5, <1>6, <1>7 DEF SealInv

\* A staged file that changes is not one of the records.
LEMMA SpoilKeeps == ASSUME SealInv, NEW n, NEW v, Seals!Spoil(n, v) PROVE SealInv'
<1>1. /\ stage \in {"staging", "described"} /\ n \in RealmFiles \cap DOMAIN staging
      /\ harm' = harm + 1 /\ staging' = [staging EXCEPT ![n] = Seals!File(v)]
      /\ UNCHANGED <<enc, leaves, stage, archive, readable, header, request, remembered>>
  BY DEF Seals!Spoil, Seals!OpenSame, Seals!Harm
<1>2. harm' \in Nat /\ harm' # 0
  <2>1. harm \in Nat /\ harm' = harm + 1
    BY <1>1, Zenon DEF SealInv, SealTypes
  <2> QED
    BY <2>1
<1>3. Integrity' = Integrity /\ Leaves(leaves)' = Leaves(leaves)
  BY <1>1 DEF Integrity, Leaves, Seals!SealedLeaves, Seals!Artifacts
<1>4. SealTypes'
  BY <1>1, <1>2 DEF SealInv, SealTypes, Seals!ToSet, Sealed
<1>5. Staged'
  <2>1. DOMAIN staging' = DOMAIN staging /\ n # "integrity.json"
    BY <1>1, NamesApart
  <2>2. staging'["integrity.json"] = staging["integrity.json"]
    BY <1>1, <2>1
  <2> QED
    BY <1>1, <1>3, <2>1, <2>2 DEF SealInv, Staged, Recorded
<1>6. Archived'
  BY <1>1, <1>3 DEF SealInv, Archived, NoOtherRecord
<1>7. Unharmed' /\ AskedLast'
  BY <1>1, <1>2 DEF SealInv, Unharmed, AskedLast, Seals!NoRequest
<1> QED
  BY <1>4, <1>5, <1>6, <1>7 DEF SealInv

\* The tree is of all that is staged but itself and the envelope.
LEMMA RecordsAreOfLeaves ==
  ASSUME NEW f, NEW t, DOMAIN f = RealmFiles
  PROVE  LET r == Seals!WithRecords(f, t)
         IN  /\ DOMAIN r = Seals!Names
             /\ r["integrity.json"] = <<"tree", t>> /\ r["envelope.json"] = <<"envelope", t.root>>
             /\ r["manifest.json"] = Seals!Described("manifest.json")
             /\ Leaves(Seals!WithDocuments(f)) = Leaves(r)
<1> DEFINE d == Seals!WithDocuments(f)
           a == Seals!WithDoc(d, "integrity.json", <<"tree", t>>)
           r == Seals!WithDoc(a, "envelope.json", <<"envelope", t.root>>)
<1>1. /\ d = [n \in RealmFiles \cup Seals!Documents |->
                IF n \in Seals!Documents THEN Seals!Described(n) ELSE f[n]]
      /\ DOMAIN d = Covered
  BY DEF Seals!WithDocuments, Covered
<1> HIDE DEF d
<1>2. a = [n \in Covered \cup {"integrity.json"} |->
            IF n = "integrity.json" THEN <<"tree", t>> ELSE d[n]]
  BY <1>1 DEF Seals!WithDoc
<1> HIDE DEF a
<1>3. r = [n \in Covered \cup {"integrity.json", "envelope.json"} |->
            IF n = "envelope.json" THEN <<"envelope", t.root>> ELSE a[n]]
  BY <1>2 DEF Seals!WithDoc
<1> HIDE DEF r
<1>4. DOMAIN r = Seals!Names
  BY <1>3, NamesApart DEF Seals!Uncovered
<1>5. r["envelope.json"] = <<"envelope", t.root>> /\ r["integrity.json"] = <<"tree", t>>
  BY <1>2, <1>3
<1>6. \A n \in Covered : r[n] = d[n] /\ n \in DOMAIN r /\ n \in DOMAIN d
  BY <1>1, <1>2, <1>3, NamesApart
<1>7. r["manifest.json"] = Seals!Described("manifest.json")
  BY <1>1, <1>6, NamesApart DEF Seals!Documents
<1>8. Leaves(d) = Leaves(r)
  BY <1>6, SameLeaves
<1>9. Seals!WithRecords(f, t) = r
  BY Zenon DEF Seals!WithRecords, r, a, d
<1> QED
  BY <1>4, <1>5, <1>7, <1>8, <1>9, Zenon DEF d

\* The tree that is recorded is of what is recorded beside it.
LEMMA DescribeKeeps == ASSUME SealInv, Seals!Describe PROVE SealInv'
<1>1. PICK t : t = Seals!TreeOf(leaves)
  OBVIOUS
<1>2. /\ stage = "staging" /\ DOMAIN staging = RealmFiles /\ stage' = "described"
      /\ leaves' = Seals!WithRecords(leaves, t) /\ staging' = Seals!WithRecords(staging, t)
      /\ UNCHANGED <<enc, archive, readable, header, harm, request, remembered>>
  BY <1>1 DEF Seals!Describe, Seals!OpenSame
<1>3. DOMAIN leaves = RealmFiles /\ archive = <<>>
  BY <1>2 DEF SealInv, Staged, Archived
<1>4. t = Seals!NewIntegrityTree(Leaves(Seals!WithDocuments(leaves)))
  BY <1>1, Zenon DEF Seals!TreeOf, Leaves
<1>5. /\ DOMAIN leaves' = Seals!Names
      /\ leaves'["integrity.json"] = <<"tree", t>>
      /\ leaves'["envelope.json"] = <<"envelope", t.root>>
      /\ leaves'["manifest.json"] = Seals!Described("manifest.json")
      /\ Leaves(leaves') = Leaves(Seals!WithDocuments(leaves))
  BY <1>2, <1>3, RecordsAreOfLeaves, Zenon
<1>6. DOMAIN staging' = Seals!Names /\ staging'["integrity.json"] = <<"tree", t>>
  BY <1>2, RecordsAreOfLeaves, Zenon
<1>7. Leaves(leaves)' = Leaves(leaves')
  BY DEF Leaves, Seals!SealedLeaves, Seals!Artifacts
<1>8. leaves'["integrity.json"] = <<"tree", Seals!NewIntegrityTree(Leaves(leaves'))>>
  BY <1>4, <1>5, Zenon
<1>9. \A n \in {"integrity.json", "envelope.json", "manifest.json"} : leaves'[n] # Seals!Changed
  BY <1>5, NotChanged
<1>10. Recorded'
  BY <1>5, <1>6, <1>7, <1>8, <1>9
     DEF Recorded, Integrity, Seals!Names, Seals!Documents, Seals!Uncovered, Seals!Changed
<1>11. SealTypes'
  BY <1>2 DEF SealInv, SealTypes, Seals!ToSet, Sealed
<1>12. Staged'
  BY <1>2, <1>10 DEF Staged
<1>13. Archived'
  BY <1>2, <1>3 DEF Archived, NoOtherRecord
<1>14. Unharmed' /\ AskedLast'
  BY <1>2 DEF SealInv, Unharmed, AskedLast, Seals!NoRequest, Sealed
<1> QED
  BY <1>11, <1>12, <1>13, <1>14 DEF SealInv

\* What is sealed is what is staged, each name once, and its one integrity record.
LEMMA ArchiveOfStaged ==
  ASSUME NEW f, DOMAIN f = Seals!Names
  PROVE  /\ Seals!Artifacts(f) \in Seq({Seals!Doc(n, f[n]) : n \in Seals!Names})
         /\ DOMAIN Seals!Artifacts(f) = DOMAIN Seals!NameOrder
         /\ \A i \in DOMAIN Seals!Artifacts(f) :
              /\ Seals!NameOrder[i] \in Seals!Names
              /\ Seals!Artifacts(f)[i] = Seals!Doc(Seals!NameOrder[i], f[Seals!NameOrder[i]])
<1> DEFINE o == Seals!NameOrder
           N == Seals!Names
           A == Seals!Artifacts(f)
<1>1. /\ DOMAIN o = 1..Len(o) /\ Len(o) \in Nat
      /\ {o[i] : i \in DOMAIN o} = N
  BY OrderOfNames, NamesApart, Zenon
<1>2. A = [i \in {j \in DOMAIN o : o[j] \in DOMAIN f} |-> Seals!Doc(o[i], f[o[i]])]
  BY DEF Seals!Artifacts
<1>3. DOMAIN f = N
  OBVIOUS
<1> HIDE DEF o, A, N
<1>4. \A j \in DOMAIN o : o[j] \in N
  BY <1>1
<1>5. A = [i \in 1..Len(o) |-> Seals!Doc(o[i], f[o[i]])]
  BY <1>1, <1>2, <1>3, <1>4
<1>6. A \in [1..Len(o) -> {Seals!Doc(n, f[n]) : n \in N}]
  BY <1>1, <1>4, <1>5
<1>7. A \in Seq({Seals!Doc(n, f[n]) : n \in N})
  BY <1>1, <1>6, SeqDef
<1>8. DOMAIN A = DOMAIN o
      /\ \A i \in DOMAIN A : o[i] \in N /\ A[i] = Seals!Doc(o[i], f[o[i]])
  BY <1>1, <1>4, <1>5
<1> QED
  BY <1>7, <1>8, Zenon DEF A, o, N

\* The archive is of the staging folder, in which the integrity record is the one recorded.
LEMMA SealKeeps == ASSUME SealInv, Seals!Seal PROVE SealInv'
<1>1. /\ stage = "described"
      /\ UNCHANGED <<enc, staging, leaves, header, harm, request, remembered>>
      /\ \/ archive' = Seals!Artifacts(staging) /\ readable' = Len(archive') /\ stage' = "sealed"
         \/ stage' = "refused" /\ UNCHANGED <<archive, readable>>
  BY DEF Seals!Seal, Seals!OpenSame
<1>2. /\ stage' \in {"sealed", "refused"} /\ stage # "staging" /\ stage # "stored"
      /\ \A x \in {"sealed", "refused"} : x # "staging" /\ x # "stored"
      /\ stage' \notin {"staging", "described"}
  BY <1>1
<1>3. Integrity' = Integrity /\ Leaves(leaves)' = Leaves(leaves)
      /\ Seals!Artifacts(leaves)' = Seals!Artifacts(leaves)
  BY <1>1 DEF Integrity, Leaves, Seals!SealedLeaves, Seals!Artifacts
<1>4. Recorded /\ request = Seals!NoRequest
  BY <1>1, <1>2 DEF SealInv, Staged, AskedLast
<1>5. SealTypes'
  BY <1>1, <1>2 DEF SealInv, SealTypes, Seals!ToSet, Sealed
<1>6. Staged'
  BY <1>1, <1>2, <1>3, <1>4 DEF Staged, Recorded
<1>7. /\ archive' \in Seq({archive'[i] : i \in DOMAIN archive'})
      /\ \A i \in DOMAIN archive' :
            archive'[i].name = "integrity.json" =>
              archive'[i].content \in {Seals!Changed, Integrity}
  <2>1. CASE archive' = Seals!Artifacts(staging)
    <3>1. PICK a : a = Seals!Artifacts(staging)
      OBVIOUS
    <3>2. DOMAIN staging = Seals!Names
      BY <1>4 DEF Recorded
    <3>3. /\ a \in Seq({Seals!Doc(n, staging[n]) : n \in Seals!Names})
          /\ \A i \in DOMAIN a : a[i] = Seals!Doc(Seals!NameOrder[i], staging[Seals!NameOrder[i]])
      BY <3>1, <3>2, ArchiveOfStaged, Zenon
    <3>4. \A i \in DOMAIN a : a[i].name = "integrity.json" => a[i].content = Integrity
      BY <1>4, <3>3 DEF Seals!Doc, Recorded
    <3>5. a \in Seq({a[i] : i \in DOMAIN a})
      BY <3>3, SeqOfMembers
    <3> QED
      BY <2>1, <3>1, <3>4, <3>5
  <2>2. CASE archive' = archive
    BY <2>2 DEF SealInv, Archived, NoOtherRecord
  <2> QED
    BY <1>1, <2>1, <2>2
<1>8. Archived'
  BY <1>2, <1>3, <1>7 DEF Archived, NoOtherRecord
<1>9. Unharmed'
  BY <1>1, <1>3 DEF SealInv, Unharmed, Sealed
<1>10. AskedLast'
  BY <1>1, <1>4 DEF AskedLast, Seals!NoRequest
<1> QED
  BY <1>5, <1>6, <1>8, <1>9, <1>10 DEF SealInv

\* The bundle is read back and sent.
LEMMA StoreKeeps ==
  ASSUME SealInv, stage \in {"sealed", "readBack"}, stage' \in {"readBack", "stored", "refused"},
         UNCHANGED <<enc, staging, leaves, archive, readable, header, harm, request, remembered>>
  PROVE  SealInv'
<1>1. /\ stage # "staging" /\ stage' # "staging" /\ stage # "stored" /\ stage \in Sealed
      /\ stage' \notin {"staging", "described"}
      /\ stage' \in {"staging", "described", "refused"} \cup Sealed
  BY DEF Sealed
<1>2. Integrity' = Integrity /\ Leaves(leaves)' = Leaves(leaves)
      /\ Seals!Artifacts(leaves)' = Seals!Artifacts(leaves)
  BY DEF Integrity, Leaves, Seals!SealedLeaves, Seals!Artifacts
<1>3. SealTypes'
  BY <1>1 DEF SealInv, SealTypes, Seals!ToSet, Sealed
<1>4. Staged'
  BY <1>1, <1>2 DEF SealInv, Staged, Recorded
<1>5. Archived'
  BY <1>1, <1>2 DEF SealInv, Archived, NoOtherRecord
<1>6. Unharmed'
  BY <1>1, <1>2 DEF SealInv, Unharmed
<1>7. AskedLast'
  BY <1>1 DEF SealInv, AskedLast, Seals!NoRequest
<1> QED
  BY <1>3, <1>4, <1>5, <1>6, <1>7 DEF SealInv

\* Something happens to the bytes.
LEMMA HarmKeeps ==
  ASSUME SealInv, Seals!Harm, stage \in Sealed,
         UNCHANGED <<enc, staging, leaves, stage, request, remembered>>,
         archive' \in Seq({archive'[i] : i \in DOMAIN archive'}),
         \A i \in DOMAIN archive' :
           archive'[i].name = "integrity.json" =>
             archive'[i].content \in {Seals!Changed, Integrity}
  PROVE  SealInv'
<1>1. harm' \in Nat /\ harm' # 0
  <2>1. harm \in Nat /\ harm' = harm + 1
    BY Zenon DEF SealInv, SealTypes, Seals!Harm
  <2> QED
    BY <2>1
<1>2. Integrity' = Integrity /\ Leaves(leaves)' = Leaves(leaves)
  BY DEF Integrity, Leaves, Seals!SealedLeaves, Seals!Artifacts
<1>3. SealTypes'
  BY <1>1 DEF SealInv, SealTypes, Seals!ToSet, Sealed
<1>4. Staged'
  BY <1>2 DEF SealInv, Staged, Recorded
<1>5. Archived'
  BY <1>2 DEF Archived, NoOtherRecord, Sealed
<1>6. Unharmed' /\ AskedLast'
  BY <1>1 DEF SealInv, Unharmed, AskedLast, Seals!NoRequest
<1> QED
  BY <1>3, <1>4, <1>5, <1>6 DEF SealInv

\* A change to the archive may lose the integrity record, and never makes another.
LEMMA EditKeeps == ASSUME SealInv, Seals!Edit PROVE SealInv'
<1>1. /\ Seals!Harm /\ stage \in Sealed
      /\ UNCHANGED <<enc, staging, leaves, stage, request, remembered>>
      /\ \/ \E i \in DOMAIN archive : \E c \in Seals!ChangesOf(archive[i].name) :
              archive' = Seals!ReplaceAt(archive, i, Seals!Doc(archive[i].name, c))
         \/ \E i \in DOMAIN archive : archive' = Seals!RemoveAt(archive, i)
         \/ \E n \in RealmFiles \cup {"realm/more"} :
              archive' = Append(archive, Seals!Doc(n, Seals!Changed))
  BY DEF Seals!Edit, Seals!OnItsWay, Seals!Still, Seals!OpenSame, Sealed
<1> DEFINE S == {archive[i] : i \in DOMAIN archive}
<1>2. Archived /\ archive \in Seq(S)
  BY DEF SealInv, Archived
<1> HIDE DEF S
<1>3. \E e : /\ e.name = "integrity.json" => e.content = Seals!Changed
             /\ archive' \in Seq(S \cup {e})
  <2>1. ASSUME NEW i \in DOMAIN archive, NEW c \in Seals!ChangesOf(archive[i].name),
               archive' = Seals!ReplaceAt(archive, i, Seals!Doc(archive[i].name, c))
        PROVE  \E e : /\ e.name = "integrity.json" => e.content = Seals!Changed
                      /\ archive' \in Seq(S \cup {e})
    <3>1. PICK e : e = Seals!Doc(archive[i].name, c)
      OBVIOUS
    <3>2. archive' \in Seq(S \cup {e})
      BY <1>2, <2>1, <3>1, Edited, Zenon
    <3>3. e.name = "integrity.json" => e.content = Seals!Changed
      BY <2>1, <3>1 DEF Seals!Doc, Seals!ChangesOf
    <3> QED
      BY <3>2, <3>3, Zenon
  <2>2. PICK e : e = Seals!Doc("realm/more", Seals!Changed)
    OBVIOUS
  <2>3. e.name = "integrity.json" => e.content = Seals!Changed
    BY <2>2 DEF Seals!Doc
  <2>4. CASE \E i \in DOMAIN archive : archive' = Seals!RemoveAt(archive, i)
    <3>0. \A i \in DOMAIN archive : Seals!RemoveAt(archive, i) \in Seq(S \cup {e})
      BY <1>2, Edited, Zenon
    <3>1. archive' \in Seq(S \cup {e})
      BY <2>4, <3>0
    <3> QED
      BY <2>3, <3>1, Zenon
  <2>5. ASSUME NEW n, archive' = Append(archive, Seals!Doc(n, Seals!Changed))
        PROVE  \E d : /\ d.name = "integrity.json" => d.content = Seals!Changed
                      /\ archive' \in Seq(S \cup {d})
    <3>1. PICK d : d = Seals!Doc(n, Seals!Changed)
      OBVIOUS
    <3>2. archive' \in Seq(S \cup {d})
      BY <1>2, <2>5, <3>1, Edited, Zenon
    <3>3. d.name = "integrity.json" => d.content = Seals!Changed
      BY <3>1 DEF Seals!Doc
    <3> QED
      BY <3>2, <3>3, Zenon
  <2> QED
    BY <1>1, <2>1, <2>4, <2>5, Zenon
<1>4. PICK e : /\ e.name = "integrity.json" => e.content = Seals!Changed
               /\ archive' \in Seq(S \cup {e})
  BY <1>3, Zenon
<1>5. PICK docs : docs = archive'
  OBVIOUS
<1>6. docs \in Seq({docs[i] : i \in DOMAIN docs}) /\ NoOtherRecord(docs)
  BY <1>2, <1>4, <1>5, EditsLeaveNoOther DEF S
<1>7. \A i \in DOMAIN docs :
        docs[i].name = "integrity.json" => docs[i].content \in {Seals!Changed, Integrity}
  BY <1>6 DEF NoOtherRecord
<1> QED
  BY <1>1, <1>5, <1>6, <1>7, HarmKeeps

\* Short sequences, and what is in them.
LEMMA ShortSequences ==
  /\ \A S : \A n \in Nat : \A s \in Seals!BoundedSeq(S, n) : s \in Seq(S)
  /\ \A S : \A s \in Seq(S) : Seals!ToSet(s) \subseteq S
  /\ Seals!ToSet(<<>>) = {} /\ \A x : Seals!ToSet(<<x>>) = {x}
<1>1. ASSUME NEW S, NEW n \in Nat, NEW s \in Seals!BoundedSeq(S, n) PROVE s \in Seq(S)
  <2>1. s \in UNION {[1..m -> S] : m \in 0..n}
    BY Zenon DEF Seals!BoundedSeq, Seals!SeqOf
  <2>2. PICK m \in 0..n : s \in [1..m -> S]
    BY <2>1
  <2>3. m \in Nat
    BY <2>2
  <2> QED
    BY <2>2, <2>3, SeqDef
<1>2. ASSUME NEW S, NEW s \in Seq(S) PROVE Seals!ToSet(s) \subseteq S
  <2>1. \A i \in DOMAIN s : s[i] \in S
    BY SeqDef
  <2> QED
    BY <2>1 DEF Seals!ToSet
<1>3. Seals!ToSet(<<>>) = {}
  BY DEF Seals!ToSet
<1>4. ASSUME NEW x PROVE Seals!ToSet(<<x>>) = {x}
  BY DEF Seals!ToSet
<1> QED
  BY <1>1, <1>2, <1>3, <1>4

\* What an open is given to try are keys there are.
LEMMA AskKeeps ==
  ASSUME SealInv, NEW p \in Passphrase \cup {""}, NEW ids \in SUBSET Identity,
         NEW stored \in Seals!BoundedSeq(Keys, MaxCandidates), Seals!Ask(p, ids, stored)
  PROVE  SealInv'
<1> DEFINE rest == remembered \ Seals!ToSet(stored)
           more == Seals!SetToSeq(rest)
<1>1. /\ stage = "stored"
      /\ request' = [passphrase |-> p, identities |-> ids, candidates |-> stored \o more]
      /\ UNCHANGED <<enc, staging, leaves, stage, archive, readable, header, harm, remembered>>
  BY DEF Seals!Ask
<1>2. stored \in Seq(Keys)
  <2>1. MaxCandidates \in Nat
    BY BundlesAssumption DEF BundlesAssumption
  <2> QED
    BY <2>1, ShortSequences
<1>3. rest \subseteq Keys /\ IsFiniteSet(rest)
  <2>1. IsFiniteSet(RealmFiles \cup Identity \cup Passphrase)
    BY SealingAssumption DEF SealingAssumption
  <2>2. rest \subseteq Keys
    BY DEF SealInv, SealTypes
  <2>3. rest \in SUBSET (RealmFiles \cup Identity \cup Passphrase)
    BY <2>2 DEF Keys
  <2> QED
    BY <2>1, <2>2, <2>3, FS_Subset
<1> HIDE DEF rest
<1>4. more \in Seq(Keys)
  <2>1. more \in Seq(rest)
    BY <1>3, SomeOrder, Zenon
  <2> QED
    BY <1>3, <2>1, SeqMonotonic
<1> HIDE DEF more
<1>5. stored \o more \in Seq(Keys)
  BY <1>2, <1>4, ConcatProperties
<1>6. request'.passphrase = p /\ request'.identities = ids /\ request'.candidates \in Seq(Keys)
  BY <1>1, <1>5
<1>7. harm' \in Nat /\ remembered' \subseteq Keys /\ (harm' = 0 => harm = 0)
  BY <1>1 DEF SealInv, SealTypes
<1> QED
  BY <1>1, <1>6, <1>7, SealFrame

\* An open leaves the bundle alone, and keeps keys that were typed.
LEMMA OpenKeeps == ASSUME SealInv, Seals!Open PROVE SealInv'
<1>1. /\ UNCHANGED <<enc, staging, leaves, stage, archive, readable, header, request, harm>>
      /\ remembered' = remembered \cup Seals!Kept \/ remembered' = remembered
  BY DEF Seals!Open
<1>2. /\ harm \in Nat /\ remembered \subseteq Keys /\ request.candidates \in Seq(Keys)
      /\ request.passphrase \in Passphrase \cup {""} /\ request.identities \subseteq Identity
  BY DEF SealInv, SealTypes
<1>3. Seals!Kept \subseteq Keys
  BY <1>2 DEF Seals!Kept, Keys
<1>4. remembered' \subseteq Keys
  BY <1>1, <1>2, <1>3
<1> QED
  BY <1>1, <1>2, <1>4, SealFrame

\* What happens to an open session is nothing to the bundle.
LEMMA RestKeeps ==
  ASSUME SealInv, Seals!Wear \/ Seals!Close \/ UNCHANGED Seals!vars PROVE SealInv'
<1>1. /\ UNCHANGED <<enc, staging, leaves, stage, archive, readable, header, remembered>>
      /\ harm' = harm \/ harm' = harm + 1
      /\ request' = Seals!NoRequest \/ request' = request
  BY DEF Seals!Wear, Seals!Close, Seals!vars, Seals!Harm
<1>2. /\ harm \in Nat /\ remembered \subseteq Keys /\ request.candidates \in Seq(Keys)
      /\ request.passphrase \in Passphrase \cup {""} /\ request.identities \subseteq Identity
  BY DEF SealInv, SealTypes
<1>3. harm' \in Nat /\ (harm' = 0 => harm = 0)
  <2>1. harm \in Nat /\ (harm' = harm \/ harm' = harm + 1)
    BY <1>1, <1>2, Zenon
  <2> QED
    BY <2>1
<1>4. /\ Seals!NoRequest.passphrase = "" /\ Seals!NoRequest.identities = {}
      /\ Seals!NoRequest.candidates = <<>> /\ <<>> \in Seq(Keys)
  BY DEF Seals!NoRequest
<1>5. /\ request'.candidates \in Seq(Keys) /\ request'.passphrase \in Passphrase \cup {""}
      /\ request'.identities \subseteq Identity
  BY <1>1, <1>2, <1>4
<1> QED
  BY <1>1, <1>2, <1>3, <1>5, SealFrame

\* No step breaks the invariant.
LEMMA SealNextKeeps == ASSUME SealInv, [Seals!Next]_(Seals!vars) PROVE SealInv'
<1>1. ASSUME Seals!ReadBack \/ Seals!Upload PROVE SealInv'
  <2>1. /\ stage \in {"sealed", "readBack"} /\ stage' \in {"readBack", "stored", "refused"}
        /\ UNCHANGED <<enc, staging, leaves, archive, readable, header, harm>>
        /\ UNCHANGED <<request, remembered>>
    BY <1>1 DEF Seals!ReadBack, Seals!Upload, Seals!OpenSame
  <2> QED
    BY <2>1, StoreKeeps
<1>2. ASSUME Seals!Cut \/ Seals!HeaderHarmed PROVE SealInv'
  <2>1. /\ Seals!Harm /\ stage \in Sealed
        /\ UNCHANGED <<enc, staging, leaves, stage, archive, request, remembered>>
    BY <1>2
       DEF Seals!Cut, Seals!HeaderHarmed, Seals!OnItsWay, Seals!Still, Seals!OpenSame, Sealed
  <2>2. archive' \in Seq({archive'[i] : i \in DOMAIN archive'})
        /\ \A i \in DOMAIN archive' :
             archive'[i].name = "integrity.json" =>
               archive'[i].content \in {Seals!Changed, Integrity}
    BY <2>1 DEF SealInv, Archived, NoOtherRecord
  <2> QED
    BY <2>1, <2>2, HarmKeeps
<1>3. ASSUME NEW p \in Passphrase \cup {""}, NEW ids \in SUBSET Identity,
             NEW stored \in Seals!BoundedSeq(Identity \cup Passphrase, MaxCandidates),
             Seals!Ask(p, ids, stored)
      PROVE  SealInv'
  BY <1>3, AskKeeps DEF Keys
<1> QED
  BY <1>1, <1>2, <1>3, StageKeeps, SpoilKeeps, DescribeKeeps, SealKeeps, EditKeeps, OpenKeeps,
     RestKeeps, Zenon DEF Seals!Next

\* It holds of an empty staging folder.
LEMMA SealStarts == Init => SealInv
<1> SUFFICES ASSUME Init PROVE SealInv
  OBVIOUS
<1>1. ASSUME Seals!Init PROVE \E how : Seals!Starts(how) /\ Seals!ToSet(how.to) \subseteq Keys
                                      /\ (how.mode = "" => Seals!ToSet(how.to) = {})
  <2>1. PICK how \in Seals!Encryptions : Seals!Starts(how)
    BY <1>1, Zenon DEF Seals!Init
  <2>2. CASE how = [mode |-> "", to |-> <<>>]
    <3>1. how.mode = "" /\ how.to = <<>>
      BY <2>2
    <3>2. Seals!ToSet(how.to) = {}
      BY <3>1, ShortSequences, Zenon
    <3> QED
      BY <2>1, <3>2
  <2>3. CASE how \in [mode : {"passphrase"}, to : {<<p>> : p \in Passphrase}]
    <3>1. how.mode = "passphrase" /\ how.to \in {<<p>> : p \in Passphrase}
      BY <2>3
    <3>2. PICK p \in Passphrase : how.to = <<p>>
      BY <3>1
    <3>3. Seals!ToSet(how.to) = {p}
      BY <3>2, ShortSequences, Zenon
    <3> QED
      BY <2>1, <3>1, <3>3 DEF Keys
  <2>4. CASE how \in [mode : {"recipients"},
                      to : Seals!BoundedSeq(Identity, MaxRecipients) \ {<<>>}]
    <3>1. how.mode = "recipients" /\ how.to \in Seq(Identity)
      <4>1. how.mode = "recipients" /\ how.to \in Seals!BoundedSeq(Identity, MaxRecipients)
        BY <2>4
      <4>2. MaxRecipients \in Nat
        BY BundlesAssumption DEF BundlesAssumption
      <4> QED
        BY <4>1, <4>2, ShortSequences
    <3>2. Seals!ToSet(how.to) \subseteq Identity
      BY <3>1, ShortSequences
    <3> QED
      BY <2>1, <3>1, <3>2 DEF Keys
  <2> QED
    BY <2>1, <2>2, <2>3, <2>4 DEF Seals!Encryptions
<1>2. ASSUME Seals!Starts([mode |-> "", to |-> <<>>])
      PROVE \E how : Seals!Starts(how) /\ Seals!ToSet(how.to) \subseteq Keys
                     /\ (how.mode = "" => Seals!ToSet(how.to) = {})
  <2>1. PICK how : how = [mode |-> "", to |-> <<>>]
    OBVIOUS
  <2>2. Seals!Starts(how) /\ Seals!ToSet(how.to) = {}
    <3>1. how.to = <<>>
      BY <2>1
    <3> QED
      BY <1>2, <2>1, <3>1, ShortSequences, Zenon
  <2> QED
    BY <2>2
<1>3. PICK how : Seals!Starts(how) /\ Seals!ToSet(how.to) \subseteq Keys
                 /\ (how.mode = "" => Seals!ToSet(how.to) = {})
  BY <1>1, <1>2, Zenon DEF Init
<1>4. /\ enc = how /\ staging = <<>> /\ leaves = <<>> /\ stage = "staging" /\ archive = <<>>
      /\ readable = 0 /\ header = TRUE /\ request = Seals!NoRequest /\ remembered = {} /\ harm = 0
  BY <1>3 DEF Seals!Starts
<1>5. /\ request.passphrase = "" /\ request.identities = {} /\ request.candidates = <<>>
      /\ <<>> \in Seq(Keys)
  <2>1. /\ Seals!NoRequest.passphrase = "" /\ Seals!NoRequest.identities = {}
        /\ Seals!NoRequest.candidates = <<>> /\ <<>> \in Seq(Keys)
    BY DEF Seals!NoRequest
  <2> QED
    BY <1>4, <2>1, Zenon
<1>6. SealTypes
  BY <1>3, <1>4, <1>5 DEF SealTypes
<1>7. Staged /\ Archived /\ Unharmed /\ AskedLast
  BY <1>4 DEF Staged, Archived, NoOtherRecord, Unharmed, AskedLast, Sealed
<1> QED
  BY <1>6, <1>7 DEF SealInv

-----------------------------------------------------------------------------
\* A set of numbers has a least.
LEMMA Least == ASSUME NEW T, T \subseteq Nat, T # {} PROVE \E x \in T : \A y \in T : ~(y < x)
<1>1. \E x \in T : \A y \in T : <<y, x>> \notin OpToRel(<, Nat)
  BY NatLessThanWellFounded, WFMin
<1> QED
  BY <1>1 DEF OpToRel

\* Of the keys that open a bundle one is tried first.
LEMMA OneIsFirst ==
  ASSUME SealInv, Seals!Opening # {} PROVE Seals!FirstToOpen \in Seals!Opening
<1> DEFINE O == Seals!Opening
           Ids == {i \in O : request.candidates[i] \in Identity}
<1>1. O \subseteq Nat /\ O # {} /\ Ids \subseteq Nat
  <2>1. request.candidates \in Seq(Keys)
    BY DEF SealInv, SealTypes
  <2>2. DOMAIN request.candidates \subseteq Nat
    BY <2>1, LenProperties
  <2> QED
    BY <2>2 DEF Seals!Opening
<1>2. \E i \in O : \A j \in O : ~Seals!TriedBefore(j, i)
  <2>1. CASE Ids # {}
    <3>1. PICK i \in Ids : \A j \in Ids : ~(j < i)
      <4> HIDE DEF Ids
      <4> QED
        BY <1>1, <2>1, Least
    <3>2. \A j \in O : ~Seals!TriedBefore(j, i)
      BY <3>1 DEF Seals!TriedBefore
    <3> QED
      BY <3>1, <3>2
  <2>2. CASE Ids = {}
    <3>1. PICK i \in O : \A j \in O : ~(j < i)
      <4> HIDE DEF O
      <4> QED
        BY <1>1, Least
    <3>2. \A j \in O : ~Seals!TriedBefore(j, i)
      BY <2>2, <3>1 DEF Seals!TriedBefore
    <3> QED
      BY <3>1, <3>2
  <2> QED
    BY <2>1, <2>2
<1> QED
  BY <1>2, Zenon DEF Seals!FirstToOpen

\* The integrity record that is read is the one that was sealed.
LEMMA RecordIsRead ==
  ASSUME SealInv, stage = "stored", Seals!Holds("integrity.json"),
         archive[Seals!PositionOf("integrity.json")].content # Seals!Changed
  PROVE  Seals!Tree = Seals!NewIntegrityTree(Leaves(leaves))
<1>1. \E i \in DOMAIN archive : archive[i].name = "integrity.json"
  BY Zenon DEF Seals!Holds
<1>2. PICK k : k = Seals!PositionOf("integrity.json")
  OBVIOUS
<1>3. k \in DOMAIN archive /\ archive[k].name = "integrity.json"
  BY <1>1, <1>2, Zenon DEF Seals!PositionOf
<1>4. archive[k].content = Integrity
  BY <1>2, <1>3 DEF SealInv, Archived, NoOtherRecord
<1>5. Integrity = <<"tree", Seals!NewIntegrityTree(Leaves(leaves))>>
  BY DEF SealInv, Staged, Recorded
<1>6. Seals!Tree = Integrity[2]
  BY <1>2, <1>4, Zenon DEF Seals!Tree
<1> QED
  BY <1>5, <1>6

\* An open with a verdict of OK has read what was recorded.
LEMMA OkIsSealed ==
  ASSUME SealInv, Seals!Open, session'.state = "open", session'.ok
  PROVE  /\ Seals!Members(session'.contents) = {Seals!Doc(n, leaves[n]) : n \in Covered}
         /\ \A i, j \in DOMAIN session'.contents :
              session'.contents[i].name = session'.contents[j].name => i = j
<1> DEFINE given == Seals!SealedLeaves(archive)
<1>1. stage = "stored" /\ Recorded
  BY DEF SealInv, AskedLast, Staged, Seals!Open
<1>2. /\ Seals!Extracts
      /\ session' = [state |-> "open", contents |-> given, ok |-> Seals!Verify(Seals!Tree, given)]
  BY DEF Seals!Open, Seals!Closed
<1>3. session'.contents = given /\ Seals!Verify(Seals!Tree, given)
  BY <1>2
<1>4. given = [i \in {j \in DOMAIN archive : archive[j].name \notin Seals!Uncovered} |->
                 archive[i]]
  BY Zenon DEF Seals!SealedLeaves
<1>5. IsFiniteSet(DOMAIN given)
  <2>1. archive \in Seq({archive[i] : i \in DOMAIN archive})
    BY DEF SealInv, Archived
  <2>2. DOMAIN archive = 1..Len(archive) /\ Len(archive) \in Int /\ 1 \in Int
    BY <2>1, LenProperties
  <2>3. IsFiniteSet(DOMAIN archive)
    BY <2>2, FS_Interval
  <2>4. DOMAIN given \in SUBSET DOMAIN archive
    BY <1>4
  <2> QED
    BY <2>3, <2>4, FS_Subset
<1>6. Covered \subseteq DOMAIN leaves
  BY <1>1, NamesApart DEF Recorded
<1>7. /\ Distinct(Leaves(leaves))
      /\ Seals!Members(Leaves(leaves)) = {Seals!Doc(n, leaves[n]) : n \in Covered}
  BY <1>6, LeavesOf
<1>8. Seals!Tree = Seals!NewIntegrityTree(Leaves(leaves))
  <2>1. CASE Seals!Holds("integrity.json")
    <3>1. archive[Seals!PositionOf("integrity.json")].content # Seals!Changed
      BY <1>2, <2>1, Zenon DEF Seals!Extracts
    <3> QED
      BY <1>1, <2>1, <3>1, RecordIsRead
  <2>2. CASE ~Seals!Holds("integrity.json")
    <3>1. Seals!Tree = Seals!NoTree
      BY <2>2, Zenon DEF Seals!Tree
    <3>2. PICK i \in DOMAIN archive : archive[i].name = "manifest.json"
      BY <1>2, Zenon DEF Seals!Extracts, Seals!Holds
    <3>3. i \in DOMAIN given
      BY <1>4, <3>2, NamesApart DEF Seals!Uncovered
    <3>4. Seals!RootOf(given) = <<>>
      <4>1. Seals!RootOf(given) = Seals!NoTree.root
        BY <1>3, <3>1, Zenon DEF Seals!Verify
      <4> QED
        BY <4>1 DEF Seals!NoTree
    <3> HIDE DEF given
    <3>5. given[i] \in DOMAIN Seals!RootOf(given)
      BY <3>3 DEF Seals!RootOf, Seals!Members
    <3> QED
      BY <3>4, <3>5
  <2> QED
    BY <2>1, <2>2
<1> HIDE DEF given
<1>9. Seals!Verify(Seals!NewIntegrityTree(Leaves(leaves)), given)
  BY <1>3, <1>8, Zenon
<1>10. /\ Seals!Members(given) = Seals!Members(Leaves(leaves))
       /\ \A i, j \in DOMAIN given : given[i].name = given[j].name => i = j
  BY <1>5, <1>7, <1>9, VerifiedIsSame, Zenon
<1> QED
  BY <1>3, <1>7, <1>10, Zenon

\* An archive nothing happened to has each name once, with what was recorded for it.
LEMMA InItsPlace ==
  ASSUME SealInv, harm = 0, stage = "stored", NEW n \in Seals!Names
  PROVE  /\ Seals!Holds(n) /\ Seals!PositionOf(n) \in 1..Len(archive)
         /\ archive[Seals!PositionOf(n)].content = leaves[n]
<1>1. archive = Seals!Artifacts(leaves) /\ DOMAIN leaves = Seals!Names
  BY DEF SealInv, Unharmed, Staged, Recorded, Sealed
<1>2. /\ DOMAIN archive = DOMAIN Seals!NameOrder
      /\ \A i \in DOMAIN archive :
           archive[i] = Seals!Doc(Seals!NameOrder[i], leaves[Seals!NameOrder[i]])
      /\ archive \in Seq({Seals!Doc(m, leaves[m]) : m \in Seals!Names})
  BY <1>1, ArchiveOfStaged, Zenon
<1>3. \A i \in DOMAIN archive :
        archive[i].name = Seals!NameOrder[i] /\ archive[i].content = leaves[Seals!NameOrder[i]]
  BY <1>2 DEF Seals!Doc
<1>4. {Seals!NameOrder[i] : i \in DOMAIN Seals!NameOrder} = Covered \cup Seals!Uncovered
  BY OrderOfNames, Zenon
<1>5. \E i \in DOMAIN archive : archive[i].name = n
  BY <1>2, <1>3, <1>4, NamesApart
<1>6. PICK k : k = Seals!PositionOf(n)
  OBVIOUS
<1>7. k \in DOMAIN archive /\ archive[k].name = n
  BY <1>5, <1>6, Zenon DEF Seals!PositionOf
<1>8. archive[k].content = leaves[n]
  BY <1>3, <1>7
<1>9. DOMAIN archive = 1..Len(archive)
  BY <1>2, LenProperties
<1> QED
  BY <1>5, <1>6, <1>7, <1>8, <1>9, Zenon DEF Seals!Holds

\* The first key that opens is one of the candidates, and one it was sealed to.
LEMMA FirstFits ==
  ASSUME SealInv, Seals!Opening # {}
  PROVE  /\ request.candidates[Seals!FirstToOpen] \in Seals!ToSet(request.candidates)
         /\ request.candidates[Seals!FirstToOpen] \in Seals!ToSet(enc.to)
         /\ request.candidates[Seals!FirstToOpen] # ""
<1>1. PICK i : i = Seals!FirstToOpen
  OBVIOUS
<1>2. i \in DOMAIN request.candidates /\ Seals!Opens({request.candidates[i]})
  BY <1>1, OneIsFirst DEF Seals!Opening
<1>3. request.candidates[i] \in Seals!ToSet(request.candidates)
  BY <1>2 DEF Seals!ToSet
<1>4. {request.candidates[i]} \cap Seals!ToSet(enc.to) # {}
  <2>1. {request.candidates[i]} # {}
    OBVIOUS
  <2> QED
    BY <1>2, <2>1 DEF Seals!Opens, Seals!Fits
<1>5. request.candidates[i] \in Seals!ToSet(enc.to)
  BY <1>4
<1>6. request.candidates[i] # ""
  BY <1>5, SealingAssumption DEF SealInv, SealTypes, Keys, SealingAssumption
<1> QED
  BY <1>1, <1>3, <1>5, <1>6, Zenon

\* A place is not beyond the end.
LEMMA Within == \A y \in Nat : \A x \in 1..y : x <= y
OBVIOUS

\* A bundle nothing happened to, and keys one of which fits, or no need of one.
LEMMA Undamaged ==
  ASSUME SealInv, Seals!Open, Seals!Intact,
         enc.mode = "" \/ Seals!GivenKeys \cap Seals!ToSet(enc.to) # {}
  PROVE  /\ session'.state = "open" /\ session'.ok
         /\ unlocked' # "" =>
              unlocked' \in Seals!ToSet(enc.to) \cap Seals!ToSet(request.candidates)
         /\ unlocked' = "" => enc.mode = "" \/ \E given \in Seals!Typed : Seals!Fits(given)
<1>1. /\ stage = "stored" /\ harm = 0 /\ Recorded /\ header
      /\ archive = Seals!Artifacts(leaves) /\ readable = Len(archive)
  BY DEF SealInv, AskedLast, Staged, Unharmed, Sealed, Seals!Open, Seals!Intact
<1>2. \A n \in Seals!Names :
        /\ Seals!Holds(n) /\ Seals!PositionOf(n) \in 1..Len(archive)
        /\ archive[Seals!PositionOf(n)].content = leaves[n]
  BY <1>1, InItsPlace
<1>3. /\ "integrity.json" \in Seals!Names /\ "envelope.json" \in Seals!Names
      /\ "manifest.json" \in Seals!Names /\ leaves["integrity.json"] # Seals!Changed
      /\ leaves["envelope.json"] # Seals!Changed /\ leaves["manifest.json"] # Seals!Changed
  BY <1>1, NamesApart DEF Recorded
<1>4. Seals!ReadableEnvelope
  <2>1. PICK k : k = Seals!PositionOf("envelope.json")
    OBVIOUS
  <2>2. /\ k \in 1..Len(archive) /\ archive[k].content # Seals!Changed
        /\ Seals!Holds("envelope.json")
    BY <1>2, <1>3, <2>1, Zenon
  <2>3. k <= readable
    <3>1. k \in 1..Len(archive) /\ readable = Len(archive)
      BY <1>1, <2>2, Zenon
    <3>2. Len(archive) \in Nat
      <4>1. archive \in Seq({archive[i] : i \in DOMAIN archive})
        BY Zenon DEF SealInv, Archived
      <4> QED
        BY <4>1, LenProperties, Zenon
    <3> QED
      BY <3>1, <3>2, Within, Zenon
  <2> QED
    BY <2>1, <2>2, <2>3, Zenon DEF Seals!ReadableEnvelope
<1>5. Seals!Extracts
  BY <1>1, <1>2, <1>3, Zenon DEF Seals!Extracts
<1>6. Seals!Verify(Seals!Tree, Seals!SealedLeaves(archive))
  <2>1. Seals!Tree = Seals!NewIntegrityTree(Leaves(leaves))
    BY <1>1, <1>2, <1>3, RecordIsRead
  <2>2. Seals!SealedLeaves(archive) = Leaves(leaves)
    BY <1>1, Zenon DEF Leaves
  <2>3. Covered \subseteq DOMAIN leaves
    BY <1>1, NamesApart DEF Recorded
  <2>4. Distinct(Leaves(leaves))
    BY <2>3, LeavesOf
  <2>5. Seals!Verify(Seals!NewIntegrityTree(Leaves(leaves)), Leaves(leaves))
    BY <2>4, SameIsVerified
  <2> QED
    BY <2>1, <2>2, <2>5, Zenon
<1>7. ASSUME NEW given, given \cap Seals!ToSet(enc.to) # {}
      PROVE  Seals!Fits(given) /\ Seals!Opens(given)
  <2>1. enc.mode # ""
    BY <1>7 DEF SealInv, SealTypes
  <2>2. given # {}
    BY <1>7
  <2> QED
    BY <1>1, <1>4, <1>7, <2>1, <2>2 DEF Seals!Fits, Seals!Opens
<1>8. Seals!Unsealed
  <2>1. CASE enc.mode = ""
    <3>1. {} \in Seals!Typed
      BY DEF Seals!Typed
    <3>2. Seals!Opens({})
      BY <1>1, <1>4, <2>1 DEF Seals!Opens
    <3> QED
      BY <3>1, <3>2, Zenon DEF Seals!Unsealed, Seals!OpensAsTyped
  <2>2. CASE Seals!GivenKeys \cap Seals!ToSet(enc.to) # {}
    <3>1. PICK k \in Seals!GivenKeys : k \in Seals!ToSet(enc.to)
      BY <2>2
    <3>2. ASSUME NEW given, k \in given PROVE Seals!Opens(given)
      BY <1>7, <3>1, <3>2
    <3>3. CASE k \in request.identities
      <4>1. request.identities \in Seals!Typed
        BY <3>3 DEF Seals!Typed
      <4> QED
        BY <3>2, <3>3, <4>1, Zenon DEF Seals!Unsealed, Seals!OpensAsTyped
    <3>4. CASE k = request.passphrase /\ k # ""
      <4>1. {k} \in Seals!Typed
        BY <3>4 DEF Seals!Typed
      <4>2. Seals!Opens({k})
        BY <3>2
      <4> QED
        BY <4>1, <4>2, Zenon DEF Seals!Unsealed, Seals!OpensAsTyped
    <3>5. CASE k \in Seals!ToSet(request.candidates)
      <4>1. PICK i \in DOMAIN request.candidates : request.candidates[i] = k
        BY <3>5 DEF Seals!ToSet
      <4>2. Seals!Opens({request.candidates[i]})
        BY <3>2, <4>1
      <4>3. i \in Seals!Opening
        BY <4>2 DEF Seals!Opening
      <4> QED
        BY <4>3 DEF Seals!Unsealed
    <3> QED
      BY <3>1, <3>3, <3>4, <3>5 DEF Seals!GivenKeys
  <2> QED
    BY <2>1, <2>2
<1>9. /\ session' = [state |-> "open", contents |-> Seals!SealedLeaves(archive),
                     ok |-> Seals!Verify(Seals!Tree, Seals!SealedLeaves(archive))]
      /\ unlocked' = Seals!UnlockedBy
  BY <1>5, <1>8 DEF Seals!Open
<1>10. session'.state = "open" /\ session'.ok
  BY <1>6, <1>9
<1>11. CASE Seals!OpensAsTyped
  <2>1. unlocked' = ""
    BY <1>9, <1>11, Zenon DEF Seals!UnlockedBy
  <2>2. PICK given \in Seals!Typed : Seals!Opens(given)
    BY <1>11, Zenon DEF Seals!OpensAsTyped
  <2>3. enc.mode = "" \/ Seals!Fits(given)
    BY <2>2 DEF Seals!Opens
  <2> QED
    BY <1>10, <2>1, <2>2, <2>3, Zenon
<1>12. CASE ~Seals!OpensAsTyped
  <2>1. Seals!Opening # {}
    BY <1>8, <1>12, Zenon DEF Seals!Unsealed
  <2>2. unlocked' = request.candidates[Seals!FirstToOpen]
    BY <1>9, <1>12, Zenon DEF Seals!UnlockedBy
  <2>3. /\ unlocked' \in Seals!ToSet(request.candidates) /\ unlocked' \in Seals!ToSet(enc.to)
        /\ unlocked' # ""
    BY <2>1, <2>2, FirstFits, Zenon
  <2> QED
    BY <1>10, <2>3
<1> QED
  BY <1>11, <1>12

\* A session opens by an open.
LEMMA OnlyOpenOpens == ASSUME [Seals!Next]_(Seals!vars), Seals!OpensNow PROVE Seals!Open
<1>1. session = Seals!Closed /\ session' # Seals!Closed /\ session.state # "open"
  BY DEF Seals!OpensNow, Seals!Closed
<1>2. session' # session
  BY <1>1
<1>3. ASSUME NEW n, NEW v PROVE ~Seals!Stage(n, v) /\ ~Seals!Spoil(n, v)
  BY <1>2 DEF Seals!Stage, Seals!Spoil, Seals!OpenSame
<1>4. ~Seals!Describe /\ ~Seals!Seal /\ ~Seals!ReadBack /\ ~Seals!Upload
  BY <1>2 DEF Seals!Describe, Seals!Seal, Seals!ReadBack, Seals!Upload, Seals!OpenSame
<1>5. ~Seals!Cut /\ ~Seals!HeaderHarmed /\ ~Seals!Edit
  BY <1>2 DEF Seals!Cut, Seals!HeaderHarmed, Seals!Edit, Seals!Still, Seals!OpenSame
<1>6. ASSUME NEW p, NEW ids, NEW stored PROVE ~Seals!Ask(p, ids, stored)
  BY <1>2 DEF Seals!Ask
<1>7. ~Seals!Wear /\ ~Seals!Close /\ ~UNCHANGED Seals!vars
  BY <1>1, <1>2 DEF Seals!Wear, Seals!Close, Seals!vars
<1> QED
  BY <1>3, <1>4, <1>5, <1>6, <1>7, Zenon DEF Seals!Next

\* So it holds throughout, and every step is one of the bundle or leaves it alone.
LEMMA SealIsKept == Spec => []SealInv /\ [][[Seals!Next]_(Seals!vars)]_vars
<1>1. Init => SealInv
  BY SealStarts
<1>2. [Next]_vars => [Seals!Next]_(Seals!vars)
  BY DEF Next, vars, sealVars, Seals!vars
<1>3. SealInv /\ [Seals!Next]_(Seals!vars) => SealInv'
  BY SealNextKeeps
<1> QED
  BY <1>1, <1>2, <1>3, PTL DEF Spec

(***************************************************************************)
(* A bundle that opens with a verdict of OK holds what was staged for it,  *)
(* all of it, once, and nothing else (Builder.Seal, snapshot.Open,         *)
(* IntegrityTree.Verify).                                                  *)
(***************************************************************************)
THEOREM WhatIsOkWasSealed == Spec => OkIsWhatWasSealed
<1>1. SealInv /\ [Seals!Next]_(Seals!vars) => Seals!OkIsWhatWasSealedStep
  <2> SUFFICES ASSUME SealInv, [Seals!Next]_(Seals!vars), Seals!OpensNow,
                      session'.state = "open", session'.ok
               PROVE  /\ Seals!Members(session'.contents)
                            = {Seals!Doc(n, leaves[n]) : n \in RealmFiles \cup Seals!Documents}
                      /\ \A i, j \in DOMAIN session'.contents :
                           session'.contents[i].name = session'.contents[j].name => i = j
    BY Zenon DEF Seals!OkIsWhatWasSealedStep
  <2>1. Seals!Open
    BY OnlyOpenOpens
  <2> QED
    BY <2>1, OkIsSealed DEF Covered
<1> QED
  BY <1>1, SealIsKept, PTL DEF OkIsWhatWasSealed

(***************************************************************************)
(* A bundle nothing happened to opens, and is OK, with any of its keys,    *)
(* typed or held; the key that is named fits, and none was needed if none  *)
(* is named (unseal).                                                      *)
(***************************************************************************)
THEOREM UndamagedBundlesOpen == Spec => UndamagedOpens
<1>1. SealInv /\ [Seals!Next]_(Seals!vars) => Seals!UndamagedOpensStep
  BY OnlyOpenOpens, Undamaged, Zenon DEF Seals!UndamagedOpensStep
<1> QED
  BY <1>1, SealIsKept, PTL DEF UndamagedOpens

-----------------------------------------------------------------------------
(***************************************************************************)
(* The inventory.  What was verified is what the server was asked, and the *)
(* manifest says of the realm what there is to say of it.                  *)
(***************************************************************************)
InventoryInv ==
  /\ higher \in Lists!KeyProvider
  /\ step \in {"exported", "reached", "verified", "scanned", "built"}
  /\ step \in {"exported", "reached"} => verified = "skipped"
  /\ verified # "skipped" => live \subseteq Client \ Public /\ flagged = Lists!Flags(live)
  /\ step = "built" =>
       manifest.status = Lists!Completeness(Lists!Ledger(flagged), Lists!TokenContinuity)

\* Of two key providers one outranks the other, so that one signs.
LEMMA OneSigns ==
  ASSUME higher \in Lists!KeyProvider, Lists!ActiveKeys # {}
  PROVE  /\ Lists!ActiveSigningKey \in Lists!ActiveKeys
         /\ \A o \in Lists!ActiveKeys \ {Lists!ActiveSigningKey} :
              Lists!Outranks(Lists!ActiveSigningKey, o)
<1>1. \A k : Lists!Rank(k) \in {1, 2, 3}
  BY DEF Lists!Rank
<1>2. Lists!ActiveKeys \subseteq {"k1", "k2"}
  BY DEF Lists!ActiveKeys, Lists!KeyProvider
<1>3. Lists!Outranks("k1", "k2") \/ Lists!Outranks("k2", "k1")
  BY <1>1 DEF Lists!Outranks, Lists!KeyProvider
<1>4. \E k \in Lists!ActiveKeys : \A o \in Lists!ActiveKeys \ {k} : Lists!Outranks(k, o)
  <2>1. CASE "k2" \notin Lists!ActiveKeys
    BY <1>2, <2>1
  <2>2. CASE "k1" \notin Lists!ActiveKeys
    BY <1>2, <2>2
  <2>3. CASE "k1" \in Lists!ActiveKeys /\ "k2" \in Lists!ActiveKeys
    BY <1>2, <1>3, <2>3
  <2> QED
    BY <1>2, <2>1, <2>2, <2>3
<1> QED
  BY <1>4, Zenon DEF Lists!ActiveSigningKey

\* The parts of a manifest whose verdict is Complete.
LEMMA NothingPartial ==
  ASSUME NEW ledger, NEW continuity \in BOOLEAN,
         Lists!Verdict(Lists!Completeness(ledger, continuity)) = "Complete",
         \A s \in DOMAIN ledger : s \in Lists!Slot
  PROVE  continuity /\ Lists!MaskedIn(ledger) = {}
<1> DEFINE degraded == {Lists!CategoryOf(Lists!Kind(s)) : s \in Lists!MaskedIn(ledger)}
           unchecked == (IF verified = "skipped" THEN {"Secret verification"} ELSE {})
                          \cup (IF scanned THEN {} ELSE {"External dependency detection"})
           partial == degraded
                        \cup (IF degraded # {} THEN {"Secret verification"} ELSE {})
                        \cup (IF continuity THEN {} ELSE {"Token continuity"})
           status == Lists!Completeness(ledger, continuity)
<1>1. status = [c \in Lists!Categories |->
                  IF c \in unchecked THEN "notChecked"
                  ELSE IF c \in partial THEN "partial" ELSE "captured"]
  BY Zenon DEF Lists!Completeness
<1>2. \A c \in DOMAIN status : status[c] # "partial"
  BY DEF Lists!Verdict
<1>3. \A c \in Lists!Categories : c \in unchecked \/ c \notin partial
  <2> HIDE DEF unchecked, partial, status
  <2> QED
    BY <1>1, <1>2
<1>4. continuity
  <2>1. "Token continuity" \in Lists!Categories /\ "Token continuity" \notin unchecked
    BY DEF Lists!Categories
  <2> QED
    BY <1>3, <2>1
<1>5. degraded \cap {"Secret verification", "External dependency detection"} = {}
  <2>1. \A kind : Lists!CategoryOf(kind) \notin {"Secret verification",
                                                 "External dependency detection"}
    BY Zenon DEF Lists!CategoryOf
  <2> QED
    BY <2>1
<1>6. ASSUME NEW s \in Lists!MaskedIn(ledger) PROVE FALSE
  <2> DEFINE c == Lists!CategoryOf(Lists!Kind(s))
  <2>1. c \in degraded /\ c \in partial
    OBVIOUS
  <2>2. c \in Lists!Categories
    BY DEF Lists!Categories, Lists!MaskedIn
  <2>3. c \notin unchecked
    BY <1>5, <2>1
  <2> QED
    BY <1>3, <2>1, <2>2, <2>3
<1> QED
  BY <1>4, <1>6

\* No client is named what is left of another's name, cut at a bracket: the other would
\* be taken for found when this one is (bracketed, VerifySecrets).
NoNameIsCut == "cut" \notin Client

\* Once completeness is said, it means what it says.
LEMMA InventoryIsWhole == ASSUME InventoryInv, NoNameIsCut PROVE Lists!CompleteIsWhole
<1> SUFFICES ASSUME Lists!IsComplete
             PROVE  /\ \A s \in Lists!Slot : realm[s] # "masked"
                    /\ \E k \in Lists!ActiveKeys :
                         /\ \A o \in Lists!ActiveKeys \ {k} : Lists!Outranks(k, o)
                         /\ realm[<<"key-private", k>>] # ""
                    /\ verified # "skipped" =>
                         \A c \in Client \ Public :
                           c \in live /\ realm[<<"client-secret", c>>] # ""
  BY Zenon DEF Lists!CompleteIsWhole
<1> DEFINE ledger == Lists!Ledger(flagged)
<1>1. Lists!TokenContinuity \in BOOLEAN
  BY DEF Lists!TokenContinuity, Lists!PrivateCarried
<1>2. \A s \in DOMAIN ledger : s \in Lists!Slot
  BY DEF Lists!Ledger, Lists!Listed
<1>3. Lists!Verdict(Lists!Completeness(ledger, Lists!TokenContinuity)) = "Complete"
  BY DEF InventoryInv, Lists!IsComplete, Lists!Built
<1> HIDE DEF ledger
<1>4. Lists!TokenContinuity /\ Lists!MaskedIn(ledger) = {}
  BY <1>1, <1>2, <1>3, NothingPartial
<1>5. \A s \in Lists!Listed : realm[s] # "masked" /\ Lists!Location(s) \notin flagged
  <2> TAKE s \in Lists!Listed
  <2>1. s \in DOMAIN ledger /\ ledger[s] = Lists!Entry(s, flagged)
    BY DEF ledger, Lists!Ledger
  <2>2. ~ledger[s].masked
    BY <1>4, <2>1 DEF Lists!MaskedIn
  <2> QED
    <3> DEFINE carried == realm[s] # "" /\ ~Lists!IsMasked(realm[s])
                            /\ Lists!Location(s) \notin flagged
               masked == Lists!IsMasked(realm[s]) \/ Lists!Location(s) \in flagged
    <3>1. ledger[s] = [carried |-> carried, masked |-> masked]
      BY <2>1, Zenon DEF Lists!Entry
    <3> HIDE DEF carried, masked
    <3>2. ledger[s].masked = masked
      BY <3>1
    <3>3. ~masked
      BY <2>2, <3>2, Zenon
    <3> QED
      BY <3>3, Zenon DEF masked, Lists!IsMasked
<1>6. ASSUME NEW s \in Lists!Slot PROVE realm[s] # "masked"
  BY <1>5 DEF Lists!Listed
<1>7. \E k \in Lists!ActiveKeys :
         /\ \A o \in Lists!ActiveKeys \ {k} : Lists!Outranks(k, o)
         /\ realm[<<"key-private", k>>] # ""
  BY <1>4, OneSigns DEF InventoryInv, Lists!TokenContinuity, Lists!PrivateCarried
<1>8. ASSUME verified # "skipped", NEW c \in Client \ Public
      PROVE  c \in live /\ realm[<<"client-secret", c>>] # ""
  <2> DEFINE s == <<"client-secret", c>>
  <2>1. s \in Lists!Listed /\ Lists!Kind(s) = "client-secret" /\ s[2] = c
    BY DEF Lists!Listed, Lists!Slot, Lists!Kind
  <2>2. Lists!Location(s) \notin Lists!Flags(live) /\ live \subseteq Client \ Public
    BY <1>5, <1>8, <2>1 DEF InventoryInv
  <2> HIDE DEF s
  <2>3. Lists!Ledger({})[s].carried /\ Lists!Parsed(s[2]) \in live
    BY <2>1, <2>2 DEF Lists!Flags
  <2>4. realm[s] # ""
    BY <2>1, <2>3 DEF Lists!Ledger, Lists!Entry
  <2>5. c \in live
    BY <2>1, <2>2, <2>3 DEF Lists!Parsed, NoNameIsCut
  <2> QED
    BY <2>4, <2>5 DEF s
<1> QED
  BY <1>6, <1>7, <1>8

\* The realm stays as it was exported, and what is said of it too.
LEMMA InventoryKeeps == ASSUME InventoryInv, [Lists!Next]_(Lists!vars) PROVE InventoryInv'
<1>1. ASSUME UNCHANGED <<realm, keys, higher, bracket, verified, live, flagged, scanned>>
      PROVE  /\ Lists!TokenContinuity' = Lists!TokenContinuity
             /\ Lists!Flags(live)' = Lists!Flags(live)
             /\ Lists!Completeness(Lists!Ledger(flagged), Lists!TokenContinuity)'
                  = Lists!Completeness(Lists!Ledger(flagged), Lists!TokenContinuity)
  <2> USE <1>1
  <2>1. Lists!TokenContinuity' = Lists!TokenContinuity
    BY DEF Lists!TokenContinuity, Lists!ActiveKeys, Lists!ActiveSigningKey, Lists!PrivateCarried,
           Lists!Outranks, Lists!Rank, Lists!IsMasked, Lists!KeyProvider
  <2>2. Lists!Flags(live)' = Lists!Flags(live)
    <3>1. Lists!Ledger({})' = Lists!Ledger({}) /\ Lists!Listed' = Lists!Listed
          /\ \A t : Lists!Location(t)' = Lists!Location(t) /\ Lists!Parsed(t)' = Lists!Parsed(t)
      BY DEF Lists!Ledger, Lists!Listed, Lists!Entry, Lists!Location, Lists!OwnerName,
             Lists!Parsed, Lists!Kind, Lists!IsMasked
    <3> QED
      BY <3>1, Zenon DEF Lists!Flags
  <2>3. Lists!Ledger(flagged)' = Lists!Ledger(flagged)
    BY DEF Lists!Ledger, Lists!Listed, Lists!Entry, Lists!Location, Lists!OwnerName,
           Lists!Kind, Lists!IsMasked
  <2> QED
    BY <2>1, <2>2, <2>3 DEF Lists!Completeness, Lists!MaskedIn, Lists!Categories
<1> USE DEF InventoryInv
<1>2. ASSUME Lists!Reachable \/ Lists!Unreachable PROVE InventoryInv'
  BY <1>2 DEF Lists!Reachable, Lists!Unreachable, Lists!Capture
<1>3. ASSUME NEW onServer \in SUBSET (Client \ Public), Lists!VerifySecrets(onServer)
      PROVE  InventoryInv'
  <2>1. Lists!Flags(live)' = Lists!Flags(onServer)
    <3>1. UNCHANGED <<realm, keys, bracket>> /\ live' = onServer
      BY <1>3 DEF Lists!VerifySecrets, Lists!Capture
    <3>2. Lists!Ledger({})' = Lists!Ledger({}) /\ Lists!Listed' = Lists!Listed
          /\ \A t : Lists!Location(t)' = Lists!Location(t) /\ Lists!Parsed(t)' = Lists!Parsed(t)
      BY <3>1 DEF Lists!Ledger, Lists!Listed, Lists!Entry, Lists!Location, Lists!OwnerName,
                  Lists!Parsed, Lists!Kind, Lists!IsMasked
    <3> QED
      BY <3>1, <3>2, Zenon DEF Lists!Flags
  <2> QED
    BY <1>3, <2>1 DEF Lists!VerifySecrets, Lists!Capture
<1>4. ASSUME UNCHANGED <<realm, keys, higher, bracket, verified, live, flagged>>,
             step' \in {"verified", "scanned"}, step \notin {"exported"}
      PROVE  InventoryInv'
  <2>1. Lists!Ledger({})' = Lists!Ledger({}) /\ Lists!Listed' = Lists!Listed
        /\ \A t : Lists!Location(t)' = Lists!Location(t) /\ Lists!Parsed(t)' = Lists!Parsed(t)
    BY <1>4 DEF Lists!Ledger, Lists!Listed, Lists!Entry, Lists!Location, Lists!OwnerName,
                Lists!Parsed, Lists!Kind, Lists!IsMasked
  <2>2. Lists!Flags(live)' = Lists!Flags(live)
    BY <1>4, <2>1, Zenon DEF Lists!Flags
  <2> QED
    BY <1>4, <2>2
<1>5. ASSUME Lists!VerifyNothing \/ Lists!DetectNothing PROVE InventoryInv'
  BY <1>4, <1>5 DEF Lists!VerifyNothing, Lists!DetectNothing, Lists!Capture
<1>6. ASSUME NEW named, Lists!DetectDependencies(named) PROVE InventoryInv'
  BY <1>4, <1>6 DEF Lists!DetectDependencies, Lists!Capture
<1>7. ASSUME Lists!Build PROVE InventoryInv'
  BY <1>1, <1>7 DEF Lists!Build, Lists!Capture
<1>8. ASSUME UNCHANGED <<realm, keys, higher, bracket, step, verified, live, flagged, scanned,
                         manifest>>
      PROVE  InventoryInv'
  BY <1>1, <1>8
<1>9. ASSUME Lists!Allow \/ (\E row, r : Lists!Reveal(row, r)) \/ UNCHANGED Lists!vars
      PROVE  InventoryInv'
  BY <1>8, <1>9 DEF Lists!Allow, Lists!Reveal, Lists!Capture, Lists!vars
<1> QED
  BY <1>2, <1>3, <1>5, <1>6, <1>7, <1>9, Zenon DEF Lists!Next

(***************************************************************************)
(* A manifest that says Complete lists no placeholder, has the material of *)
(* the key tokens are signed with and, once the secrets were verified, one *)
(* of every client, each of them found on the server: if no name of a      *)
(* client is a part of another's (VerifySecrets, buildCompleteness).       *)
(***************************************************************************)
THEOREM CompleteMeansWhole == ASSUME NoNameIsCut PROVE Spec => []CompleteIsWhole
<1>1. Init => InventoryInv
  <2> SUFFICES ASSUME Init PROVE InventoryInv
    OBVIOUS
  <2>1. PICK secrets, shapes, names, first, odd :
          first \in Lists!KeyProvider /\ Lists!Starts(secrets, shapes, names, first, odd)
    <3>1. "k1" \in Lists!KeyProvider
      BY DEF Lists!KeyProvider
    <3> QED
      BY <3>1, Zenon DEF Init, Lists!Init
  <2> QED
    BY <2>1 DEF Lists!Starts, InventoryInv
<1>2. [Next]_vars => [Lists!Next]_(Lists!vars)
  BY DEF Next, vars, listVars, Lists!vars
<1>3. InventoryInv /\ [Lists!Next]_(Lists!vars) => InventoryInv'
  BY InventoryKeeps
<1>4. InventoryInv => CompleteIsWhole
  BY InventoryIsWhole DEF CompleteIsWhole
<1> QED
  BY <1>1, <1>2, <1>3, <1>4, PTL DEF Spec

-----------------------------------------------------------------------------
(***************************************************************************)
(* The index of the users.                                                 *)
(***************************************************************************)
(***************************************************************************)
(* What a build has read: the table has the keys of the files it went      *)
(* through, and the count is of their users.                               *)
(***************************************************************************)
F1 == "acme-users-0.json"
F2 == "acme-users-1.json"
Shapes == {<<F1, F2>>, <<F1>>, <<F2>>, <<realmFile>>, <<>>}
Left(u) == {u[i] : i \in DOMAIN u}
InputSet ==
  IF holds[F1] = <<>> /\ holds[F2] = <<>> THEN IF Users!EndsInRealm THEN {realmFile} ELSE {}
  ELSE {f \in {F1, F2} : holds[f] # <<>>}
KeysOf(f) == {Users!Key(f, i) : i \in DOMAIN holds[f]}
SizeIn(R, f) == IF f \in R THEN Len(holds[f]) ELSE 0

Files ==
  /\ realmFile \in {"acme-realm.json", "acme.json"}
  /\ \A f \in {F1, F2, realmFile} : holds[f] \in Seq(Users!User) /\ Len(holds[f]) \in Nat
                                    /\ DOMAIN holds[f] = 1..Len(holds[f])
  /\ counted = Len(Users!Everyone)

HasRead(R) ==
  /\ DOMAIN table = UNION {KeysOf(f) : f \in R}
  /\ inserted = SizeIn(R, F1) + SizeIn(R, F2) + SizeIn(R, realmFile)

UserInv ==
  /\ Files
  /\ phase \in {"building", "ready"} =>
       /\ todo \in Shapes /\ Left(todo) \subseteq InputSet
       /\ HasRead(InputSet \ Left(todo))
  /\ phase = "ready" => todo = <<>>

\* No file of users is the realm file.
LEMMA Distinguished == Files => F1 # F2 /\ realmFile # F1 /\ realmFile # F2
BY DEF Files, F1, F2

\* One file after the other.
LEMMA OneFileLess ==
  ASSUME Files, NEW u \in Shapes, u # <<>>
  PROVE  /\ Tail(u) \in Shapes /\ Head(u) \in Left(u) /\ Head(u) \in {F1, F2, realmFile}
         /\ Left(Tail(u)) = Left(u) \ {Head(u)}
<1>1. F1 # F2
  BY DEF F1, F2
<1>2. CASE u = <<F1, F2>>
  <2>1. Tail(u) = <<F2>> /\ Head(u) = F1
    BY <1>2
  <2>2. Left(u) = {F1, F2} /\ Left(<<F2>>) = {F2}
    BY <1>2 DEF Left
  <2> QED
    BY <1>1, <2>1, <2>2 DEF Shapes
<1>3. ASSUME NEW f \in {F1, F2, realmFile}, u = <<f>>
      PROVE  /\ Tail(u) \in Shapes /\ Head(u) \in Left(u) /\ Head(u) \in {F1, F2, realmFile}
             /\ Left(Tail(u)) = Left(u) \ {Head(u)}
  <2>1. Tail(u) = <<>> /\ Head(u) = f
    BY <1>3
  <2>2. Left(u) = {f} /\ Left(<<>>) = {}
    BY <1>3 DEF Left
  <2> QED
    BY <2>1, <2>2, <1>3 DEF Shapes
<1> QED
  BY <1>2, <1>3 DEF Shapes

\* Two lists of one.
LEMMA OneAndOne == ASSUME NEW x, NEW y PROVE <<x>> \o <<y>> = <<x, y>>
<1>1. <<x>> \in Seq({x, y}) /\ y \in {x, y}
  OBVIOUS
<1>2. Append(<<x>>, y) = <<x>> \o <<y>>
  BY <1>1, AppendIsConcat
<1>3. Append(<<x>>, y) = <<x, y>>
  <2>1. /\ Append(<<x>>, y) \in Seq({x, y}) /\ <<x, y>> \in Seq({x, y})
        /\ Len(Append(<<x>>, y)) = 2 /\ Len(<<x, y>>) = 2
    BY <1>1
  <2>2. Append(<<x>>, y)[1] = x /\ Append(<<x>>, y)[2] = y /\ <<x, y>>[1] = x /\ <<x, y>>[2] = y
    BY <1>1
  <2>3. \A i \in 1..2 : Append(<<x>>, y)[i] = <<x, y>>[i]
    BY <2>2
  <2> QED
    BY <2>1, <2>3, SeqEqual
<1> QED
  BY <1>2, <1>3

\* The files the build goes through, each of them once.
LEMMA InputsAreTheSet ==
  ASSUME Files PROVE Users!Inputs \in Shapes /\ Left(Users!Inputs) = InputSet
<1> DEFINE a == IF holds[F1] # <<>> THEN <<F1>> ELSE <<>>
           b == IF holds[F2] # <<>> THEN <<F2>> ELSE <<>>
           c == a \o b
<1>1. Users!Inputs = IF c # <<>> THEN c
                     ELSE IF Users!EndsInRealm THEN <<realmFile>> ELSE <<>>
  BY DEF Users!Inputs, Users!UserFile, F1, F2
<1>2. CASE holds[F1] # <<>> /\ holds[F2] # <<>>
  <2>1. c = <<F1>> \o <<F2>>
    BY <1>2
  <2>3. c = <<F1, F2>>
    BY <2>1, OneAndOne
  <2>2. Left(<<F1, F2>>) = {F1, F2} /\ <<F1, F2>> # <<>>
    BY DEF Left
  <2> QED
    BY <1>1, <1>2, <2>2, <2>3 DEF Shapes, InputSet
<1>3. CASE holds[F1] # <<>> /\ holds[F2] = <<>>
  <2>1. c = <<F1>>
    BY <1>3
  <2>2. Left(<<F1>>) = {F1} /\ <<F1>> # <<>>
    BY DEF Left
  <2> QED
    BY <1>1, <1>3, <2>1, <2>2 DEF Shapes, InputSet
<1>4. CASE holds[F1] = <<>> /\ holds[F2] # <<>>
  <2>1. c = <<F2>>
    BY <1>4
  <2>2. Left(<<F2>>) = {F2} /\ <<F2>> # <<>>
    BY DEF Left
  <2> QED
    BY <1>1, <1>4, <2>1, <2>2 DEF Shapes, InputSet
<1>5. CASE holds[F1] = <<>> /\ holds[F2] = <<>>
  <2>1. c = <<>>
    BY <1>5
  <2>2. Left(<<realmFile>>) = {realmFile} /\ Left(<<>>) = {}
    BY DEF Left
  <2> QED
    BY <1>1, <1>5, <2>1, <2>2 DEF Shapes, InputSet
<1> QED
  BY <1>2, <1>3, <1>4, <1>5

\* No step breaks the invariant.
LEMMA UsersKeep == ASSUME UserInv, [Users!Next]_(Users!vars) PROVE UserInv'
<1>1. ASSUME UNCHANGED <<realmFile, holds, counted>>
      PROVE  /\ Files' /\ InputSet' = InputSet /\ Shapes' = Shapes /\ Users!Inputs' = Users!Inputs
             /\ \A f : KeysOf(f)' = KeysOf(f) /\ \A R : SizeIn(R, f)' = SizeIn(R, f)
             /\ \A u : Left(u)' = Left(u)
  <2> USE <1>1
  <2>1. Files'
    BY DEF UserInv, Files, Users!Everyone, Users!UserFile
  <2>2. InputSet' = InputSet /\ Shapes' = Shapes /\ Users!Inputs' = Users!Inputs
    BY DEF InputSet, Shapes, Users!Inputs, Users!EndsInRealm, Users!UserFile
  <2>3. \A f : KeysOf(f)' = KeysOf(f)
    BY DEF KeysOf, Users!Key
  <2> QED
    BY <2>1, <2>2, <2>3 DEF SizeIn, Left
<1>2. ASSUME Users!Begin PROVE UserInv'
  <2>1. /\ UNCHANGED <<realmFile, holds, counted>> /\ phase' = "building" /\ todo' = Users!Inputs
        /\ table' = <<>> /\ inserted' = 0
    BY <1>2 DEF Users!Begin, Users!Bundle
  <2>2. todo' \in Shapes /\ Left(todo') = InputSet
    BY <2>1, InputsAreTheSet DEF UserInv
  <2>3. InputSet \ Left(todo') = {}
    BY <2>2
  <2>4. HasRead({})'
    BY <2>1 DEF HasRead, SizeIn
  <2> QED
    BY <1>1, <2>1, <2>2, <2>3, <2>4 DEF UserInv
<1>3. ASSUME Users!ReadFile PROVE UserInv'
  <2>0. PICK f, R : f = Head(todo) /\ R = InputSet \ Left(todo)
    OBVIOUS
  <2>1. /\ UNCHANGED <<realmFile, holds, counted, phase>> /\ phase = "building" /\ todo # <<>>
        /\ todo' = Tail(todo) /\ DOMAIN table' = DOMAIN table \cup KeysOf(f)
        /\ inserted' = inserted + Len(holds[f])
    BY <1>3, <2>0 DEF Users!ReadFile, Users!Bundle, KeysOf
  <2>2. todo \in Shapes /\ Left(todo) \subseteq InputSet /\ HasRead(R) /\ Files
    BY <2>0, <2>1 DEF UserInv
  <2>3. /\ Tail(todo) \in Shapes /\ f \in Left(todo) /\ f \in {F1, F2, realmFile}
        /\ Left(Tail(todo)) = Left(todo) \ {f}
    BY <2>0, <2>1, <2>2, OneFileLess
  <2>4. InputSet \ Left(Tail(todo)) = R \cup {f} /\ f \notin R
    BY <2>0, <2>2, <2>3
  <2>5. DOMAIN table' = UNION {KeysOf(g) : g \in R \cup {f}}
    BY <2>1, <2>2 DEF HasRead
  <2>6. inserted' = SizeIn(R \cup {f}, F1) + SizeIn(R \cup {f}, F2)
                      + SizeIn(R \cup {f}, realmFile)
    <3>1. F1 # F2 /\ realmFile # F1 /\ realmFile # F2
      BY <2>2, Distinguished
    <3>2. Len(holds[F1]) \in Nat /\ Len(holds[F2]) \in Nat /\ Len(holds[realmFile]) \in Nat
      BY <2>2 DEF Files
    <3>3. /\ SizeIn(R, f) = 0
          /\ \A g : SizeIn(R \cup {f}, g) = IF g = f THEN Len(holds[f]) ELSE SizeIn(R, g)
      BY <2>4 DEF SizeIn
    <3>4. SizeIn(R, F1) \in Nat /\ SizeIn(R, F2) \in Nat /\ SizeIn(R, realmFile) \in Nat
      BY <3>2 DEF SizeIn
    <3>5. inserted = SizeIn(R, F1) + SizeIn(R, F2) + SizeIn(R, realmFile)
      BY <2>2 DEF HasRead
    <3>6. inserted' = inserted + Len(holds[f]) /\ Len(holds[f]) \in Nat
      BY <2>1, <2>3, <3>2
    <3>7. CASE f = F1
      <4>1. /\ SizeIn(R, F1) = 0 /\ SizeIn(R \cup {f}, F1) = Len(holds[f])
            /\ SizeIn(R \cup {f}, F2) = SizeIn(R, F2)
            /\ SizeIn(R \cup {f}, realmFile) = SizeIn(R, realmFile)
        BY <3>1, <3>3, <3>7
      <4> QED
        BY <3>4, <3>5, <3>6, <4>1
    <3>8. CASE f = F2
      <4>1. /\ SizeIn(R, F2) = 0 /\ SizeIn(R \cup {f}, F2) = Len(holds[f])
            /\ SizeIn(R \cup {f}, F1) = SizeIn(R, F1)
            /\ SizeIn(R \cup {f}, realmFile) = SizeIn(R, realmFile)
        BY <3>1, <3>3, <3>8
      <4> QED
        BY <3>4, <3>5, <3>6, <4>1
    <3>9. CASE f = realmFile
      <4>1. /\ SizeIn(R, realmFile) = 0 /\ SizeIn(R \cup {f}, realmFile) = Len(holds[f])
            /\ SizeIn(R \cup {f}, F1) = SizeIn(R, F1)
            /\ SizeIn(R \cup {f}, F2) = SizeIn(R, F2)
        BY <3>1, <3>3, <3>9
      <4> QED
        BY <3>4, <3>5, <3>6, <4>1
    <3> QED
      BY <2>3, <3>7, <3>8, <3>9
  <2>7. HasRead(R \cup {f})'
    BY <1>1, <2>1, <2>5, <2>6 DEF HasRead
  <2> QED
    BY <1>1, <2>1, <2>2, <2>3, <2>4, <2>7 DEF UserInv
<1>4. ASSUME Users!Fail PROVE UserInv'
  BY <1>1, <1>4 DEF Users!Fail, Users!Discarded, Users!Bundle, UserInv
<1>5. ASSUME UNCHANGED <<realmFile, holds, counted, todo, table, inserted>>,
             phase' = phase \/ (phase = "building" /\ todo = <<>>)
      PROVE  UserInv'
  <2>1. \A R : HasRead(R)' = HasRead(R)
    BY <1>1, <1>5 DEF HasRead
  <2> QED
    BY <1>1, <1>5, <2>1 DEF UserInv
<1>6. ASSUME Users!Publish \/ (\E k : Users!Detail(k)) \/ UNCHANGED Users!vars PROVE UserInv'
  BY <1>5, <1>6 DEF Users!Publish, Users!Detail, Users!Bundle, Users!Rows, Users!vars
<1> QED
  BY <1>2, <1>3, <1>4, <1>6, Zenon DEF Users!Next

-----------------------------------------------------------------------------
\* The j-th of everyone, in the file it is in, and the key it has.
KeyAt(j) ==
  LET a == Len(holds[F1])  b == Len(holds[F2])
  IN  IF j <= a THEN Users!Key(F1, j)
      ELSE IF j <= a + b THEN Users!Key(F2, j - a) ELSE Users!Key(realmFile, j - a - b)

\* Everyone, file after file.
LEMMA Places ==
  ASSUME Files
  PROVE  LET a == Len(holds[F1])  b == Len(holds[F2])  c == Len(holds[realmFile])
         IN  /\ a \in Nat /\ b \in Nat /\ c \in Nat
             /\ counted = a + b + c /\ DOMAIN Users!Everyone = 1..counted
             /\ \A j \in 1..a : Users!Everyone[j] = holds[F1][j]
             /\ \A j \in 1..b : Users!Everyone[a + j] = holds[F2][j]
             /\ \A j \in 1..c : Users!Everyone[a + b + j] = holds[realmFile][j]
<1> DEFINE s == holds[F1]
           t == holds[F2]
           u == holds[realmFile]
<1>1. /\ s \in Seq(Users!User) /\ t \in Seq(Users!User) /\ u \in Seq(Users!User)
      /\ Len(s) \in Nat /\ Len(t) \in Nat /\ Len(u) \in Nat
  BY DEF Files
<1>2. Users!Everyone = (s \o t) \o u /\ counted = Len(Users!Everyone)
  BY DEF Users!Everyone, Users!UserFile, Files, F1, F2
<1> HIDE DEF s, t, u
<1>3. /\ s \o t \in Seq(Users!User) /\ Len(s \o t) = Len(s) + Len(t)
      /\ \A j \in 1..(Len(s) + Len(t)) :
           (s \o t)[j] = IF j <= Len(s) THEN s[j] ELSE t[j - Len(s)]
  BY <1>1, ConcatProperties, Zenon
<1> DEFINE v == s \o t
<1>4. v \in Seq(Users!User) /\ Len(v) = Len(s) + Len(t) /\ Len(v) \in Nat
  BY <1>1, <1>3
<1> HIDE DEF v
<1>5. /\ v \o u \in Seq(Users!User) /\ Len(v \o u) = Len(v) + Len(u)
      /\ \A j \in 1..(Len(v) + Len(u)) :
           (v \o u)[j] = IF j <= Len(v) THEN v[j] ELSE u[j - Len(v)]
  <2>1. v \in Seq(Users!User) /\ u \in Seq(Users!User)
    BY <1>1, <1>4
  <2> QED
    BY <2>1, ConcatProperties, Zenon
<1>6. Users!Everyone = v \o u
  BY <1>2 DEF v
<1>7. DOMAIN Users!Everyone = 1..Len(Users!Everyone)
  BY <1>5, <1>6, LenProperties
<1>8. \A j \in 1..Len(s) : Users!Everyone[j] = s[j]
  <2> TAKE j \in 1..Len(s)
  <2>1. j \in 1..(Len(v) + Len(u)) /\ j <= Len(v) /\ j \in 1..(Len(s) + Len(t)) /\ j <= Len(s)
    BY <1>1, <1>4
  <2> QED
    BY <1>3, <1>5, <1>6, <2>1 DEF v
<1>9. \A j \in 1..Len(t) : Users!Everyone[Len(s) + j] = t[j]
  <2> TAKE j \in 1..Len(t)
  <2> DEFINE k == Len(s) + j
  <2>1. /\ k \in 1..(Len(v) + Len(u)) /\ k <= Len(v) /\ k \in 1..(Len(s) + Len(t))
        /\ ~(k <= Len(s)) /\ k - Len(s) = j
    BY <1>1, <1>4
  <2> HIDE DEF k
  <2>2. Users!Everyone[k] = t[j]
    BY <1>3, <1>5, <1>6, <2>1 DEF v
  <2> QED
    BY <2>2 DEF k
<1>10. \A j \in 1..Len(u) : Users!Everyone[Len(s) + Len(t) + j] = u[j]
  <2> TAKE j \in 1..Len(u)
  <2> DEFINE k == Len(s) + Len(t) + j
  <2>1. k \in 1..(Len(v) + Len(u)) /\ ~(k <= Len(v)) /\ k - Len(v) = j
    BY <1>1, <1>4
  <2> HIDE DEF k
  <2>2. Users!Everyone[k] = u[j]
    BY <1>5, <1>6, <2>1
  <2> QED
    BY <2>2 DEF k
<1>11. counted = Len(s) + Len(t) + Len(u)
  BY <1>2, <1>4, <1>5, <1>6
<1>12. DOMAIN Users!Everyone = 1..counted
  BY <1>2, <1>7
<1> QED
  BY <1>1, <1>8, <1>9, <1>10, <1>11, <1>12, Zenon DEF s, t, u

\* Two places of users with one id, or one place.
Alike(f, i, g, j) == \/ holds[f][i].id # "" /\ holds[f][i].id = holds[g][j].id
                     \/ f = g /\ i = j

\* Two keys that are the same are of one id, or of one place.
LEMMA SameKey ==
  ASSUME NEW f, NEW g, NEW i \in Nat, NEW j \in Nat, Users!Key(f, i) = Users!Key(g, j)
  PROVE  Alike(f, i, g, j)
<1>1. \A x, y, z : <<x>> # <<y, z>>
  OBVIOUS
<1>2. \A x, y : <<x>> = <<y>> => x = y
  OBVIOUS
<1>3. \A x, y : <<f, x>> = <<g, y>> => f = g /\ x = y
  OBVIOUS
<1>4. i - 1 = j - 1 => i = j
  OBVIOUS
<1> QED
  BY <1>1, <1>2, <1>3, <1>4, Zenon DEF Users!Key, Alike

\* With distinct ids no two of everyone have a key in common.
LEMMA KeysAreDistinct ==
  ASSUME Files, Users!IdsAreDistinct, NEW i \in 1..counted, NEW j \in 1..counted,
         KeyAt(i) = KeyAt(j)
  PROVE  i = j
<1> DEFINE a == Len(holds[F1])
           b == Len(holds[F2])
           c == Len(holds[realmFile])
           Spot(k, f, x) == /\ KeyAt(k) = Users!Key(f, x) /\ x \in Nat
                            /\ Users!Everyone[k] = holds[f][x]
                            /\ \/ f = F1 /\ k = x
                               \/ f = F2 /\ k = a + x
                               \/ f = realmFile /\ k = a + b + x
<1>1. /\ a \in Nat /\ b \in Nat /\ c \in Nat
      /\ counted = a + b + c /\ DOMAIN Users!Everyone = 1..counted
      /\ \A k \in 1..a : Users!Everyone[k] = holds[F1][k]
      /\ \A k \in 1..b : Users!Everyone[a + k] = holds[F2][k]
      /\ \A k \in 1..c : Users!Everyone[a + b + k] = holds[realmFile][k]
  BY Places, Zenon
<1> HIDE DEF a, b, c
<1>2. ASSUME NEW k \in 1..counted PROVE \E f, x : Spot(k, f, x)
  <2>1. CASE k <= a
    <3>1. k \in 1..a /\ k \in Nat
      BY <1>1, <2>1
    <3>2. KeyAt(k) = Users!Key(F1, k)
      BY <2>1, Zenon DEF KeyAt, a
    <3> QED
      BY <1>1, <3>1, <3>2
  <2>2. CASE ~(k <= a) /\ k <= a + b
    <3>1. k - a \in 1..b /\ k - a \in Nat /\ k = a + (k - a)
      BY <1>1, <2>2
    <3>2. KeyAt(k) = Users!Key(F2, k - a)
      BY <2>2, Zenon DEF KeyAt, a, b
    <3>3. Users!Everyone[k] = holds[F2][k - a]
      BY <1>1, <3>1
    <3>4. Spot(k, F2, k - a)
      BY <3>1, <3>2, <3>3
    <3> QED
      BY <3>4, Zenon
  <2>3. CASE ~(k <= a) /\ ~(k <= a + b)
    <3>1. k - a - b \in 1..c /\ k - a - b \in Nat /\ k = a + b + (k - a - b)
      BY <1>1, <2>3
    <3>2. KeyAt(k) = Users!Key(realmFile, k - a - b)
      BY <2>3, Zenon DEF KeyAt, a, b
    <3>3. Users!Everyone[k] = holds[realmFile][k - a - b]
      BY <1>1, <3>1
    <3>4. Spot(k, realmFile, k - a - b)
      BY <3>1, <3>2, <3>3
    <3> QED
      BY <3>4, Zenon
  <2> QED
    BY <2>1, <2>2, <2>3
<1>3. PICK f, x : Spot(i, f, x)
  BY <1>2
<1>4. PICK g, y : Spot(j, g, y)
  BY <1>2
<1>5. Alike(f, x, g, y)
  <2>1. x \in Nat /\ y \in Nat /\ Users!Key(f, x) = Users!Key(g, y)
    BY <1>3, <1>4
  <2> QED
    BY <2>1, SameKey, Zenon
<1>6. CASE holds[f][x].id # "" /\ holds[f][x].id = holds[g][y].id
  <2>1. Users!Everyone[i].id # "" /\ Users!Everyone[i].id = Users!Everyone[j].id
    BY <1>3, <1>4, <1>6
  <2>2. i \in DOMAIN Users!Everyone /\ j \in DOMAIN Users!Everyone
    BY <1>1
  <2> QED
    BY <2>1, <2>2 DEF Users!IdsAreDistinct, Users!Ids
<1>7. CASE f = g /\ x = y
  <2>1. F1 # F2 /\ realmFile # F1 /\ realmFile # F2
    BY Distinguished
  <2> QED
    BY <1>3, <1>4, <1>7, <2>1
<1> QED
  BY <1>5, <1>6, <1>7 DEF Alike

\* They are the keys of the three files.
LEMMA KeysOfEveryone ==
  ASSUME Files
  PROVE  KeysOf(F1) \cup KeysOf(F2) \cup KeysOf(realmFile) = {KeyAt(j) : j \in 1..counted}
<1> DEFINE a == Len(holds[F1])
           b == Len(holds[F2])
           c == Len(holds[realmFile])
           K == {KeyAt(j) : j \in 1..counted}
<1>1. /\ a \in Nat /\ b \in Nat /\ c \in Nat /\ counted = a + b + c
      /\ DOMAIN holds[F1] = 1..a /\ DOMAIN holds[F2] = 1..b /\ DOMAIN holds[realmFile] = 1..c
  BY Places DEF Files
<1> HIDE DEF a, b, c
<1>2. \A j : j <= a => KeyAt(j) = Users!Key(F1, j)
  BY Zenon DEF KeyAt, a
<1>3. \A j : ~(j <= a) /\ j <= a + b => KeyAt(j) = Users!Key(F2, j - a)
  BY Zenon DEF KeyAt, a, b
<1>4. \A j : ~(j <= a) /\ ~(j <= a + b) => KeyAt(j) = Users!Key(realmFile, j - a - b)
  BY Zenon DEF KeyAt, a, b
<1>5. \A i \in 1..a : Users!Key(F1, i) \in K
  BY <1>1, <1>2
<1>6. \A i \in 1..b : Users!Key(F2, i) \in K
  <2> TAKE i \in 1..b
  <2>1. a + i \in 1..counted /\ ~(a + i <= a) /\ a + i <= a + b /\ (a + i) - a = i
    BY <1>1
  <2>2. KeyAt(a + i) = Users!Key(F2, i)
    BY <1>3, <2>1
  <2> QED
    BY <2>1, <2>2
<1>7. \A i \in 1..c : Users!Key(realmFile, i) \in K
  <2> TAKE i \in 1..c
  <2>1. a + b + i \in 1..counted /\ ~(a + b + i <= a) /\ ~(a + b + i <= a + b)
        /\ (a + b + i) - a - b = i
    BY <1>1
  <2>2. KeyAt(a + b + i) = Users!Key(realmFile, i)
    BY <1>4, <2>1
  <2> QED
    BY <2>1, <2>2
<1>8. ASSUME NEW j \in 1..counted
      PROVE  KeyAt(j) \in KeysOf(F1) \cup KeysOf(F2) \cup KeysOf(realmFile)
  <2>1. CASE j <= a
    <3>1. j \in 1..a
      BY <1>1, <2>1
    <3> QED
      BY <1>1, <1>2, <2>1, <3>1 DEF KeysOf
  <2>2. CASE ~(j <= a) /\ j <= a + b
    <3>1. j - a \in 1..b
      BY <1>1, <2>2
    <3> QED
      BY <1>1, <1>3, <2>2, <3>1 DEF KeysOf
  <2>3. CASE ~(j <= a) /\ ~(j <= a + b)
    <3>1. j - a - b \in 1..c
      BY <1>1, <2>3
    <3> QED
      BY <1>1, <1>4, <2>3, <3>1 DEF KeysOf
  <2> QED
    BY <2>1, <2>2, <2>3
<1> QED
  BY <1>1, <1>5, <1>6, <1>7, <1>8 DEF KeysOf

\* And as many as there are users.
LEMMA AsManyKeys ==
  ASSUME Files, Users!IdsAreDistinct
  PROVE  Cardinality({KeyAt(j) : j \in 1..counted}) = counted
<1> DEFINE K == {KeyAt(j) : j \in 1..counted}
           g == [j \in 1..counted |-> KeyAt(j)]
<1>1. counted \in Nat
  <2>1. /\ Len(holds[F1]) \in Nat /\ Len(holds[F2]) \in Nat /\ Len(holds[realmFile]) \in Nat
        /\ counted = Len(holds[F1]) + Len(holds[F2]) + Len(holds[realmFile])
    BY Places, Zenon
  <2>2. \A x, y, z \in Nat : x + y + z \in Nat
    OBVIOUS
  <2> QED
    BY <2>1, <2>2, Zenon
<1>2. g \in [1..counted -> K] /\ \A t \in K : \E j \in 1..counted : g[j] = t
  OBVIOUS
<1>3. \A i, j \in 1..counted : g[i] = g[j] => i = j
  BY KeysAreDistinct
<1> HIDE DEF g, K
<1>4. g \in Bijection(1..counted, K)
  BY <1>2, <1>3 DEF Bijection, Injection, Surjection, IsInjective
<1>5. ExistsBijection(1..counted, K)
  BY <1>4 DEF ExistsBijection
<1> QED
  BY <1>1, <1>5, FS_CountingElements DEF K

\* The index counts as the library does.
LEMMA SameCardinality == \A S : Users!Cardinality(S) = Cardinality(S)
BY Zenon DEF Users!Cardinality, Cardinality

\* Once every file is read, there is a row for each user.
LEMMA IndexIsFull == ASSUME UserInv PROVE Users!EveryoneIsThere
<1> SUFFICES ASSUME phase = "ready", Users!IdsAreDistinct, Users!InOnePlace
             PROVE  Cardinality(DOMAIN table) = counted /\ inserted = counted
  BY SameCardinality, Zenon DEF Users!EveryoneIsThere
<1>1. Files /\ todo = <<>> /\ HasRead(InputSet \ Left(todo))
  BY DEF UserInv
<1>2. Left(todo) = {}
  BY <1>1 DEF Left
<1>3. HasRead(InputSet)
  BY <1>1, <1>2
<1>4. \A f \in {F1, F2, realmFile} : f \in InputSet \/ holds[f] = <<>>
  <2>1. F1 \in Users!ToSet(Users!UserFile) /\ F2 \in Users!ToSet(Users!UserFile)
    BY DEF F1, F2, Users!UserFile, Users!ToSet
  <2>2. \/ holds[realmFile] = <<>>
        \/ Users!EndsInRealm /\ holds[F1] = <<>> /\ holds[F2] = <<>>
    BY <2>1, Zenon DEF Users!InOnePlace
  <2> QED
    BY <2>2 DEF InputSet
<1>5. InputSet \subseteq {F1, F2, realmFile}
  BY DEF InputSet
<1>6. \A f \in {F1, F2, realmFile} : SizeIn(InputSet, f) = Len(holds[f])
                                   /\ (f \notin InputSet => KeysOf(f) = {})
  BY <1>4 DEF SizeIn, KeysOf
<1>7. DOMAIN table = KeysOf(F1) \cup KeysOf(F2) \cup KeysOf(realmFile)
  BY <1>3, <1>5, <1>6 DEF HasRead
<1>8. inserted = Len(holds[F1]) + Len(holds[F2]) + Len(holds[realmFile])
  BY <1>3, <1>6 DEF HasRead
<1>9. inserted = counted
  BY <1>1, <1>8, Places
<1> QED
  BY <1>1, <1>7, <1>9, KeysOfEveryone, AsManyKeys

\* The build keeps what it has read apart.
LEMMA UsersAreKept == Spec => []UserInv
<1>1. Init => UserInv
  <2> SUFFICES ASSUME Init PROVE UserInv
    OBVIOUS
  <2> DEFINE U == Users!User
             At(name, first, second, inline) ==
               [f \in Users!Names |-> IF f = Users!UserFile[1] THEN first
                                     ELSE IF f = Users!UserFile[2] THEN second
                                     ELSE IF f = name THEN inline ELSE <<>>]
             Begun(name, first, second, inline) ==
               /\ name \in {"acme-realm.json", "acme.json"}
               /\ first \in Seq(U) /\ second \in Seq(U) /\ inline \in Seq(U)
               /\ Users!Starts(name, At(name, first, second, inline))
  <2>0. /\ \A S, n : n \in Nat => [1..n -> S] \subseteq Seq(S)
        /\ F1 # F2 /\ F1 = Users!UserFile[1] /\ F2 = Users!UserFile[2]
        /\ Users!RealmFileNames = {"acme-realm.json", "acme.json"}
        /\ Users!Names = {F1, F2, "acme-realm.json", "acme.json"}
        /\ F1 \notin {"acme-realm.json", "acme.json"}
        /\ F2 \notin {"acme-realm.json", "acme.json"}
    <3>1. Users!ToSet(Users!UserFile) = {F1, F2}
      BY DEF Users!ToSet, Users!UserFile, F1, F2
    <3>2. \A S, n : n \in Nat => [1..n -> S] \subseteq Seq(S)
      BY SeqDef
    <3> QED
      BY <3>1, <3>2 DEF Users!Names, Users!RealmFileNames, Users!UserFile, F1, F2
  <2>1. \E name, first, second, inline : Begun(name, first, second, inline)
    <3>1. CASE Users!Init
      <4>1. PICK name \in Users!RealmFileNames,
                 n \in {m \in [1..3 -> 0..MaxUsers] : m[1] + m[2] + m[3] <= MaxUsers} :
              \E first \in [1..n[1] -> U], second \in [1..n[2] -> U], inline \in [1..n[3] -> U] :
                Users!Starts(name, At(name, first, second, inline))
        BY <3>1, Zenon DEF Users!Init
      <4>2. PICK first \in [1..n[1] -> U], second \in [1..n[2] -> U], inline \in [1..n[3] -> U] :
              Users!Starts(name, At(name, first, second, inline))
        BY <4>1, Zenon
      <4>3. n[1] \in Nat /\ n[2] \in Nat /\ n[3] \in Nat
        <5>1. n \in [1..3 -> 0..MaxUsers] /\ MaxUsers \in Nat
          BY <4>1, BundlesAssumption DEF BundlesAssumption
        <5> QED
          BY <5>1
      <4>4. first \in Seq(U) /\ second \in Seq(U) /\ inline \in Seq(U)
        BY <2>0, <4>2, <4>3
      <4> QED
        <5>1. Begun(name, first, second, inline)
          BY <2>0, <4>1, <4>2, <4>4, Zenon
        <5> HIDE DEF Begun
        <5> QED
          BY <5>1, Zenon
    <3>2. CASE Users!Starts("acme-realm.json", [f \in Users!Names |-> <<>>])
      <4>1. <<>> \in Seq(U)
        OBVIOUS
      <4>2. At("acme-realm.json", <<>>, <<>>, <<>>) = [f \in Users!Names |-> <<>>]
        OBVIOUS
      <4>3. Users!Starts("acme-realm.json", At("acme-realm.json", <<>>, <<>>, <<>>))
        BY <3>2, <4>2, Zenon
      <4>4. Begun("acme-realm.json", <<>>, <<>>, <<>>)
        BY <4>1, <4>3, Zenon
      <4> HIDE DEF Begun
      <4> QED
        BY <4>4, Zenon
    <3> QED
      BY <3>1, <3>2, Zenon DEF Init
  <2>2. PICK name, first, second, inline : Begun(name, first, second, inline)
    BY <2>1, Zenon
  <2>3. /\ realmFile = name /\ holds = At(name, first, second, inline)
        /\ counted = Len(Users!Everyone) /\ phase = "none"
    BY <2>2, Zenon DEF Users!Starts
  <2>4. \A f \in {F1, F2, realmFile} : holds[f] \in Seq(U)
    BY <2>0, <2>2, <2>3
  <2>5. \A q \in Seq(U) : Len(q) \in Nat /\ DOMAIN q = 1..Len(q)
    BY LenProperties, Zenon
  <2>6. Files
    BY <2>2, <2>3, <2>4, <2>5 DEF Files
  <2> QED
    BY <2>3, <2>6 DEF UserInv
<1>2. [Next]_vars => [Users!Next]_(Users!vars)
  BY DEF Next, vars, userVars, Users!vars
<1>3. UserInv /\ [Users!Next]_(Users!vars) => UserInv'
  BY UsersKeep
<1> QED
  BY <1>1, <1>2, <1>3, PTL DEF Spec

(***************************************************************************)
(* An index that answers has a row of every user the manifest counted, id  *)
(* or no id, if ids are distinct and the users in one place (Index.Build,  *)
(* countPopulation).                                                       *)
(***************************************************************************)
THEOREM EveryUserIsThere == Spec => []EveryoneIsThere
<1>1. UserInv => EveryoneIsThere
  BY IndexIsFull DEF EveryoneIsThere
<1> QED
  BY <1>1, UsersAreKept, PTL

-----------------------------------------------------------------------------
(***************************************************************************)
(* What is shown of one user.  While ids are distinct a key is of one      *)
(* place, so its row is the row of that place, and its roles are the roles *)
(* of the user there.                                                      *)
(***************************************************************************)
Inside == {F1, F2, realmFile}
RowsAre(R) == \A f \in R : \A i \in DOMAIN holds[f] : table[Users!Key(f, i)] = Users!Row(f, i)
JoinedIs(R) ==
  \A k, r : <<k, r>> \in joined <=>
    \E f \in R : \E i \in DOMAIN holds[f] : k = Users!Key(f, i) /\ r \in holds[f][i].roles

DetailInv ==
  /\ phase \in {"building", "ready"} =>
       /\ JoinedIs(InputSet \ Left(todo))
       /\ Users!IdsAreDistinct => RowsAre(InputSet \ Left(todo))
  /\ Users!DetailIsOfOneUser

\* With distinct ids a key is of one place.
LEMMA KeyIsOfOnePlace ==
  ASSUME Files, Users!IdsAreDistinct, NEW f \in Inside, NEW g \in Inside,
         NEW i \in DOMAIN holds[f], NEW j \in DOMAIN holds[g], Users!Key(f, i) = Users!Key(g, j)
  PROVE  f = g /\ i = j
<1> DEFINE a == Len(holds[F1])
           b == Len(holds[F2])
           c == Len(holds[realmFile])
           At(h, x) == IF h = F1 THEN x ELSE IF h = F2 THEN a + x ELSE a + b + x
<1>1. /\ a \in Nat /\ b \in Nat /\ c \in Nat
      /\ counted = a + b + c /\ DOMAIN Users!Everyone = 1..counted
      /\ \A k \in 1..a : Users!Everyone[k] = holds[F1][k]
      /\ \A k \in 1..b : Users!Everyone[a + k] = holds[F2][k]
      /\ \A k \in 1..c : Users!Everyone[a + b + k] = holds[realmFile][k]
  BY Places, Zenon
<1>2. /\ DOMAIN holds[F1] = 1..a /\ DOMAIN holds[F2] = 1..b /\ DOMAIN holds[realmFile] = 1..c
      /\ F1 # F2 /\ realmFile # F1 /\ realmFile # F2
  BY Distinguished DEF Files
<1> HIDE DEF a, b, c
<1>3. ASSUME NEW h \in Inside, NEW x \in DOMAIN holds[h]
      PROVE  At(h, x) \in DOMAIN Users!Everyone /\ Users!Everyone[At(h, x)] = holds[h][x]
  <2>1. CASE h = F1
    BY <1>1, <1>2, <2>1
  <2>2. CASE h = F2
    BY <1>1, <1>2, <2>2
  <2>3. CASE h = realmFile
    BY <1>1, <1>2, <2>3
  <2> QED
    BY <2>1, <2>2, <2>3 DEF Inside
<1>4. At(f, i) = At(g, j) => f = g /\ i = j
  BY <1>1, <1>2 DEF Inside
<1>5. i \in Nat /\ j \in Nat
  BY <1>1, <1>2 DEF Inside
<1>6. Alike(f, i, g, j)
  BY <1>5, SameKey, Zenon
<1>7. CASE holds[f][i].id # "" /\ holds[f][i].id = holds[g][j].id
  <2> HIDE DEF At
  <2>1. /\ At(f, i) \in DOMAIN Users!Everyone /\ At(g, j) \in DOMAIN Users!Everyone
        /\ Users!Everyone[At(f, i)].id # "" /\ Users!Everyone[At(f, i)].id = Users!Everyone[At(g, j)].id
    <3>1. At(f, i) \in DOMAIN Users!Everyone /\ Users!Everyone[At(f, i)] = holds[f][i]
      BY <1>3
    <3>2. At(g, j) \in DOMAIN Users!Everyone /\ Users!Everyone[At(g, j)] = holds[g][j]
      BY <1>3
    <3> QED
      BY <1>7, <3>1, <3>2
  <2>2. At(f, i) = At(g, j)
    BY <2>1 DEF Users!IdsAreDistinct, Users!Ids
  <2> QED
    BY <1>4, <2>2
<1> QED
  BY <1>6, <1>7 DEF Alike

\* A file is read: its rows are those of its users, and the others stay.
LEMMA ReadFileKeeps == ASSUME UserInv, DetailInv, Users!ReadFile PROVE DetailInv'
<1>0. PICK f, R : f = Head(todo) /\ R = InputSet \ Left(todo)
  OBVIOUS
<1> DEFINE new == {Users!Key(f, i) : i \in DOMAIN holds[f]}
<1>1. /\ UNCHANGED <<realmFile, holds, counted, phase, detail>> /\ phase = "building" /\ todo # <<>>
      /\ todo' = Tail(todo)
      /\ table' = [k \in DOMAIN table \cup new |->
                     IF k \in new THEN Users!Row(f, Users!LastOf(f, k)) ELSE table[k]]
      /\ joined' = joined \cup UNION {{Users!Key(f, i)} \X holds[f][i].roles : i \in DOMAIN holds[f]}
  BY <1>0 DEF Users!ReadFile, Users!Bundle
<1>2. todo \in Shapes /\ Left(todo) \subseteq InputSet /\ HasRead(R) /\ Files
  BY <1>0, <1>1 DEF UserInv
<1>3. f \in Left(todo) /\ f \in Inside /\ Left(Tail(todo)) = Left(todo) \ {f}
  BY <1>0, <1>1, <1>2, OneFileLess DEF Inside
<1>4. InputSet \ Left(Tail(todo)) = R \cup {f} /\ f \notin R
  BY <1>0, <1>2, <1>3
<1>5. R \subseteq Inside
  BY <1>0 DEF InputSet, Inside
<1>6. JoinedIs(R) /\ (Users!IdsAreDistinct => RowsAre(R))
  BY <1>0, <1>1 DEF DetailInv
<1>7. /\ InputSet' = InputSet /\ \A u : Left(u)' = Left(u)
      /\ Users!IdsAreDistinct' = Users!IdsAreDistinct
      /\ \A h, i : Users!Key(h, i)' = Users!Key(h, i) /\ Users!Row(h, i)' = Users!Row(h, i)
  <2> USE <1>1
  <2>1. InputSet' = InputSet /\ \A u : Left(u)' = Left(u)
    BY DEF InputSet, Left, Users!EndsInRealm
  <2>2. Users!IdsAreDistinct' = Users!IdsAreDistinct
    BY DEF Users!IdsAreDistinct, Users!Ids, Users!Everyone, Users!UserFile
  <2>3. \A h, i : Users!Key(h, i)' = Users!Key(h, i) /\ Users!Row(h, i)' = Users!Row(h, i)
    BY DEF Users!Key, Users!Row, Users!SecondFactor
  <2> QED
    BY <2>1, <2>2, <2>3
<1>8. InputSet \ Left(todo') = R \cup {f}
  BY <1>1, <1>4, <1>7
<1>9. JoinedIs(R \cup {f})'
  <2> SUFFICES ASSUME NEW k, NEW r
               PROVE  <<k, r>> \in joined' <=>
                        \E g \in R \cup {f} : \E i \in DOMAIN holds[g] :
                          k = Users!Key(g, i) /\ r \in holds[g][i].roles
    BY <1>1, <1>7 DEF JoinedIs
  <2>1. <<k, r>> \in joined <=>
          \E g \in R : \E i \in DOMAIN holds[g] : k = Users!Key(g, i) /\ r \in holds[g][i].roles
    BY <1>6 DEF JoinedIs
  <2>2. <<k, r>> \in UNION {{Users!Key(f, i)} \X holds[f][i].roles : i \in DOMAIN holds[f]} <=>
          \E i \in DOMAIN holds[f] : k = Users!Key(f, i) /\ r \in holds[f][i].roles
    OBVIOUS
  <2> QED
    BY <1>1, <2>1, <2>2
<1>10. ASSUME Users!IdsAreDistinct PROVE RowsAre(R \cup {f})'
  <2> SUFFICES ASSUME NEW g \in R \cup {f}, NEW i \in DOMAIN holds[g]
               PROVE  table'[Users!Key(g, i)] = Users!Row(g, i)
    BY <1>1, <1>7 DEF RowsAre
  <2>1. CASE g = f
    <3> DEFINE k == Users!Key(f, i)
               IsLast(x) == Users!Key(f, x) = k /\ \A y \in DOMAIN holds[f] : Users!Key(f, y) = k => y <= x
    <3>1. \A x \in DOMAIN holds[f] : Users!Key(f, x) = k => x = i
      BY <1>2, <1>3, <1>10, <2>1, KeyIsOfOnePlace
    <3>2. i \in Nat
      BY <1>2, <1>3, <2>1 DEF Files, Inside
    <3>3. i \in DOMAIN holds[f] /\ IsLast(i)
      BY <2>1, <3>1, <3>2
    <3>4. Users!LastOf(f, k) = CHOOSE x \in DOMAIN holds[f] : IsLast(x)
      BY DEF Users!LastOf
    <3>5. Users!LastOf(f, k) \in DOMAIN holds[f] /\ Users!Key(f, Users!LastOf(f, k)) = k
      BY <3>3, <3>4
    <3>6. Users!LastOf(f, k) = i
      BY <3>1, <3>5
    <3>7. k \in new
      BY <3>3
    <3> QED
      BY <1>1, <2>1, <3>6, <3>7
  <2>2. CASE g # f
    <3>1. g \in R /\ g \in Inside
      BY <1>5, <2>2
    <3>2. Users!Key(g, i) \notin new
      BY <1>2, <1>3, <1>10, <2>2, <3>1, KeyIsOfOnePlace
    <3>3. Users!Key(g, i) \in DOMAIN table
      BY <1>2, <3>1 DEF HasRead, KeysOf
    <3>4. table[Users!Key(g, i)] = Users!Row(g, i)
      BY <1>6, <1>10, <3>1 DEF RowsAre
    <3> HIDE DEF new
    <3> QED
      BY <1>1, <3>2, <3>3, <3>4
  <2> QED
    BY <2>1, <2>2
<1>11. Users!DetailIsOfOneUser'
  BY <1>1, <1>7 DEF DetailInv, Users!DetailIsOfOneUser, Users!NoDetail, Users!Names, Users!UserFile,
     Users!RealmFileNames
<1> QED
  BY <1>7, <1>8, <1>9, <1>10, <1>11 DEF DetailInv

\* A user is asked for: its key is of one place, and the record read again is there.
LEMMA DetailShows ==
  ASSUME UserInv, DetailInv, NEW k \in DOMAIN table, Users!Detail(k), Users!IdsAreDistinct
  PROVE  \E f \in Users!Names : \E i \in DOMAIN holds[f] :
           detail' = [asked |-> Users!Key(f, i), row |-> Users!Row(f, i), roles |-> holds[f][i].roles,
                      shown |-> {holds[f][i]}]
<1> DEFINE R == InputSet \ Left(todo)
<1>1. /\ Files /\ HasRead(R) /\ RowsAre(R) /\ JoinedIs(R)
      /\ detail' = [asked |-> k, row |-> table[k], roles |-> Users!RolesFor(k), shown |-> Users!Reread(k)]
  BY DEF UserInv, DetailInv, Users!Detail
<1>2. R \subseteq Inside
  BY DEF InputSet, Inside
<1>3. PICK f \in R : k \in KeysOf(f)
  BY <1>1 DEF HasRead
<1>4. PICK i \in DOMAIN holds[f] : k = Users!Key(f, i)
  BY <1>3 DEF KeysOf
<1>5. f \in Inside /\ holds[f] \in Seq(Users!User) /\ DOMAIN holds[f] = 1..Len(holds[f])
      /\ Len(holds[f]) \in Nat
  BY <1>1, <1>2 DEF Files, Inside
<1>6. \A g \in R : \A j \in DOMAIN holds[g] : Users!Key(g, j) = k => g = f /\ j = i
  BY <1>1, <1>2, <1>4, <1>5, KeyIsOfOnePlace
<1>7. table[k] = Users!Row(f, i)
  BY <1>1, <1>3, <1>4 DEF RowsAre
<1>8. Users!RolesFor(k) = holds[f][i].roles
  <2>1. \A r : <<k, r>> \in joined <=> r \in holds[f][i].roles
    BY <1>1, <1>3, <1>4, <1>6 DEF JoinedIs
  <2>2. holds[f][i].roles \subseteq Role
    <3>1. holds[f][i] \in Users!User
      BY <1>5
    <3> QED
      BY <3>1 DEF Users!User
  <2> QED
    BY <2>1, <2>2 DEF Users!RolesFor
<1>9. Users!Reread(k) = {holds[f][i]}
  <2> DEFINE here == {x \in DOMAIN holds[f] : x - 1 = i - 1 \/ <<holds[f][x].id>> = k}
  <2>1. table[k].file = f /\ table[k].index = i - 1
    BY <1>7 DEF Users!Row
  <2>2. ASSUME NEW x \in DOMAIN holds[f], <<holds[f][x].id>> = k PROVE x = i
    <3>1. CASE holds[f][i].id = ""
      <4>1. k = <<f, i - 1>>
        BY <1>4, <3>1 DEF Users!Key
      <4>2. \A u, v, w : <<u>> # <<v, w>>
        OBVIOUS
      <4> QED
        BY <2>2, <4>1, <4>2, Zenon
    <3>2. CASE holds[f][i].id # ""
      <4>1. k = <<holds[f][i].id>>
        BY <1>4, <3>2 DEF Users!Key
      <4>2. \A u, v : <<u>> = <<v>> => u = v
        OBVIOUS
      <4>3. holds[f][x].id = holds[f][i].id
        BY <2>2, <4>1, <4>2, Zenon
      <4>4. Users!Key(f, x) = k
        BY <3>2, <4>1, <4>3 DEF Users!Key
      <4> QED
        BY <1>6, <4>4
    <3> QED
      BY <3>1, <3>2
  <2>3. \A x \in DOMAIN holds[f] : x - 1 = i - 1 => x = i
    BY <1>5
  <2>4. here = {i}
    BY <2>2, <2>3
  <2>5. i <= i
    BY <1>5
  <2>6. Users!Reread(k) = {holds[f][x] : x \in {x \in here : \A y \in here : x <= y}}
    BY <2>1 DEF Users!Reread
  <2>7. {x \in here : \A y \in here : x <= y} = {i}
    BY <2>4, <2>5
  <2> HIDE DEF here
  <2> QED
    BY <2>6, <2>7
<1>10. f \in Users!Names
  <2>1. Users!ToSet(Users!UserFile) = {F1, F2}
    BY DEF Users!ToSet, Users!UserFile, F1, F2
  <2> QED
    BY <1>1, <1>5, <2>1 DEF Files, Inside, Users!Names, Users!RealmFileNames
<1> QED
  BY <1>1, <1>4, <1>7, <1>8, <1>9, <1>10

\* No step breaks it.
LEMMA DetailKeeps == ASSUME UserInv, DetailInv, [Users!Next]_(Users!vars) PROVE DetailInv'
<1>1. ASSUME UNCHANGED <<realmFile, holds, counted>>
      PROVE  /\ InputSet' = InputSet /\ \A u : Left(u)' = Left(u)
             /\ Users!IdsAreDistinct' = Users!IdsAreDistinct
             /\ \A h, i : Users!Key(h, i)' = Users!Key(h, i) /\ Users!Row(h, i)' = Users!Row(h, i)
             /\ detail' = detail => Users!DetailIsOfOneUser'
  <2> USE <1>1
  <2>1. InputSet' = InputSet /\ \A u : Left(u)' = Left(u)
    BY DEF InputSet, Left, Users!EndsInRealm
  <2>2. Users!IdsAreDistinct' = Users!IdsAreDistinct
    BY DEF Users!IdsAreDistinct, Users!Ids, Users!Everyone, Users!UserFile
  <2>3. \A h, i : Users!Key(h, i)' = Users!Key(h, i) /\ Users!Row(h, i)' = Users!Row(h, i)
    BY DEF Users!Key, Users!Row, Users!SecondFactor
  <2>4. detail' = detail => Users!DetailIsOfOneUser'
    BY <2>2, <2>3 DEF DetailInv, Users!DetailIsOfOneUser, Users!NoDetail, Users!Names,
       Users!UserFile, Users!RealmFileNames
  <2> QED
    BY <2>1, <2>2, <2>3, <2>4
<1>2. ASSUME Users!Begin PROVE DetailInv'
  <2>1. /\ UNCHANGED <<realmFile, holds, counted, detail>> /\ todo' = Users!Inputs
        /\ table' = <<>> /\ joined' = {}
    BY <1>2 DEF Users!Begin, Users!Bundle
  <2>2. InputSet \ Left(todo') = {}
    BY <2>1, InputsAreTheSet DEF UserInv
  <2>3. JoinedIs({})' /\ RowsAre({})'
    BY <2>1 DEF JoinedIs, RowsAre
  <2> QED
    BY <1>1, <2>1, <2>2, <2>3 DEF DetailInv
<1>3. ASSUME Users!Fail PROVE DetailInv'
  BY <1>1, <1>3 DEF Users!Fail, Users!Discarded, Users!Bundle, DetailInv
<1>4. ASSUME UNCHANGED <<realmFile, holds, counted, todo, table, joined>>,
             phase' = phase \/ phase = "building", Users!DetailIsOfOneUser'
      PROVE  DetailInv'
  <2>1. \A R : JoinedIs(R)' = JoinedIs(R) /\ RowsAre(R)' = RowsAre(R)
    BY <1>1, <1>4 DEF JoinedIs, RowsAre
  <2> QED
    BY <1>1, <1>4, <2>1 DEF DetailInv
<1>5. ASSUME Users!Publish \/ UNCHANGED Users!vars PROVE DetailInv'
  BY <1>1, <1>4, <1>5 DEF Users!Publish, Users!Bundle, Users!Rows, Users!vars
<1>6. ASSUME NEW k \in DOMAIN table, Users!Detail(k) PROVE DetailInv'
  <2>1. UNCHANGED <<realmFile, holds, counted, todo, table, joined, phase>>
    BY <1>6 DEF Users!Detail, Users!Bundle, Users!Rows
  <2>2. Users!IdsAreDistinct => \E f \in Users!Names : \E i \in DOMAIN holds[f] :
          detail' = [asked |-> Users!Key(f, i), row |-> Users!Row(f, i), roles |-> holds[f][i].roles,
                     shown |-> {holds[f][i]}]
    BY <1>6, DetailShows
  <2>3. Users!DetailIsOfOneUser'
    BY <1>1, <2>1, <2>2 DEF Users!DetailIsOfOneUser, Users!Names, Users!UserFile,
       Users!RealmFileNames
  <2> QED
    BY <1>4, <2>1, <2>3
<1> QED
  BY <1>2, <1>3, <1>5, <1>6, ReadFileKeeps, Zenon DEF Users!Next

(***************************************************************************)
(* What is shown of a user, its row, its roles and its record, is of one   *)
(* user and of the one asked for, id or no id, if ids are distinct         *)
(* (Index.Build, Index.RolesFor, Session.User).                            *)
(***************************************************************************)
THEOREM DetailIsTheUsers == Spec => []DetailIsOfOneUser
<1>1. Init => DetailInv
  <2>1. Init => phase = "none" /\ detail = Users!NoDetail
    BY DEF Init, Users!Init, Users!Starts
  <2> QED
    BY <2>1 DEF DetailInv, Users!DetailIsOfOneUser
<1>2. [Next]_vars => [Users!Next]_(Users!vars)
  BY DEF Next, vars, userVars, Users!vars
<1>3. UserInv /\ DetailInv /\ [Users!Next]_(Users!vars) => DetailInv'
  BY DetailKeeps
<1>4. DetailInv => DetailIsOfOneUser
  BY DEF DetailInv, DetailIsOfOneUser
<1> QED
  BY <1>1, <1>2, <1>3, <1>4, UsersAreKept, PTL DEF Spec

-----------------------------------------------------------------------------
(***************************************************************************)
(* The shelf.  What was there when a reading began, and still is, is in    *)
(* the storage until the answer is read and among what was listed from     *)
(* then on; the stranger was there from the start or never comes.          *)
(***************************************************************************)
Uploads == {<<"bundle", "manifest", "digest">>, <<"manifest", "digest">>, <<"digest">>, <<>>}

Shelves ==
  /\ objects = [st \in Storage |-> objects[st]]
  /\ list = [st \in Storage |-> list[st]]
  /\ upload \in [Snapshot -> Uploads]

Reading(st) ==
  /\ DOMAIN list[st] = {"state", "seen", "entries", "foreign", "there"}
  /\ list[st].there \subseteq Snapshot
  /\ list[st].state \in {"asked", "listed"} => list[st].there \subseteq Keeps!Bundles(st)
  /\ list[st].state = "listed" =>
       /\ list[st].there \subseteq Keeps!Complete(list[st].seen)
       /\ Keeps!Stranger \in objects[st] => Keeps!Stranger \in list[st].seen
  /\ list[st].state = "read" =>
       /\ list[st].there \subseteq {e.of : e \in list[st].entries}
       /\ Keeps!Stranger \in objects[st] => Keeps!Stranger \in list[st].foreign

ShelfInv == Shelves /\ \A st \in Storage : Reading(st)

\* What remains to be put of a capture.
LEMMA NextUpload ==
  ASSUME NEW u \in Uploads, u # <<>>
  PROVE  Tail(u) \in Uploads /\ Head(u) \in {"bundle", "manifest", "digest"}
<1>1. CASE u = <<"bundle", "manifest", "digest">>
  <2>1. Tail(u) = <<"manifest", "digest">> /\ Head(u) = "bundle"
    BY <1>1
  <2> QED
    BY <2>1, Zenon DEF Uploads
<1>2. CASE u = <<"manifest", "digest">>
  <2>1. Tail(u) = <<"digest">> /\ Head(u) = "manifest"
    BY <1>2
  <2> QED
    BY <2>1, Zenon DEF Uploads
<1>3. CASE u = <<"digest">>
  <2>1. Tail(u) = <<>> /\ Head(u) = "digest"
    BY <1>3
  <2> QED
    BY <2>1, Zenon DEF Uploads
<1> QED
  BY <1>1, <1>2, <1>3, Zenon DEF Uploads

\* A reading holds while its storage gains objects of captures, and its list stays.
LEMMA Gains ==
  ASSUME ShelfInv, UNCHANGED list, upload' \in [Snapshot -> Uploads],
         objects' = [st \in Storage |-> objects'[st]],
         \A st \in Storage : /\ objects[st] \subseteq objects'[st]
                             /\ Keeps!Stranger \in objects'[st] =>
                                  Keeps!Stranger \in objects[st]
  PROVE  ShelfInv'
<1>1. Shelves'
  BY DEF ShelfInv, Shelves
<1>2. ASSUME NEW st \in Storage PROVE Reading(st)'
  <2>1. Keeps!Bundles(st) \subseteq Keeps!Bundles(st)'
    BY DEF Keeps!Bundles
  <2> QED
    BY <2>1 DEF ShelfInv, Reading, Keeps!Complete
<1> QED
  BY <1>1, <1>2 DEF ShelfInv

\* An object that is put is not the stranger's.
LEMMA PutIsKnown ==
  ASSUME ShelfInv, NEW s \in Snapshot, upload[s] # <<>>, NEW at,
         objects' = [objects EXCEPT ![at] = @ \cup {<<s, Head(upload[s])>>}]
  PROVE  /\ objects' = [st \in Storage |-> objects'[st]]
         /\ \A st \in Storage : /\ objects[st] \subseteq objects'[st]
                                /\ Keeps!Stranger \in objects'[st] =>
                                  Keeps!Stranger \in objects[st]
<1>1. Head(upload[s]) \in {"bundle", "manifest", "digest"}
  BY NextUpload DEF ShelfInv, Shelves
<1> DEFINE o == <<s, Head(upload[s])>>
<1>2. o # Keeps!Stranger
  BY <1>1 DEF Keeps!Stranger
<1> HIDE DEF o
<1>3. objects' = [objects EXCEPT ![at] = @ \cup {o}]
  BY DEF o
<1>4. objects = [st \in Storage |-> objects[st]]
  BY DEF ShelfInv, Shelves
<1>5. objects' = [st \in Storage |-> objects'[st]]
      /\ \A st \in Storage : objects'[st] = objects[st] \/ objects'[st] = objects[st] \cup {o}
  BY <1>3, <1>4
<1> QED
  BY <1>2, <1>5

\* A reading of one storage goes on.
LEMMA OneAnswers ==
  ASSUME ShelfInv, UNCHANGED <<upload, objects>>, NEW st \in Storage, NEW a, Keeps!Answers(st, a),
         Reading(st)'
  PROVE  ShelfInv'
<1>1. list' = [list EXCEPT ![st] = a]
  BY DEF Keeps!Answers
<1>2. Shelves'
  BY <1>1 DEF ShelfInv, Shelves
<1>3. ASSUME NEW r \in Storage, r # st PROVE Reading(r)'
  <2>1. list'[r] = list[r] /\ Keeps!Bundles(r)' = Keeps!Bundles(r)
    BY <1>1, <1>3 DEF ShelfInv, Shelves, Keeps!Bundles
  <2> QED
    BY <2>1 DEF ShelfInv, Reading, Keeps!Complete
<1> QED
  BY <1>2, <1>3 DEF ShelfInv

\* A deletion takes from a storage what it takes from what is still there.
LEMMA Takes ==
  ASSUME ShelfInv, UNCHANGED upload, list' = Keeps!StillThere(objects'),
         objects' = [st \in Storage |-> objects'[st]],
         \A st \in Storage : objects'[st] \subseteq objects[st]
  PROVE  ShelfInv'
<1>1. Shelves'
  BY DEF ShelfInv, Shelves, Keeps!StillThere
<1>2. ASSUME NEW st \in Storage PROVE Reading(st)'
  <2> DEFINE r == list[st]
             t == list'[st]
             now == {s \in Snapshot : <<s, "bundle">> \in objects'[st]}
  <2>1. t = [r EXCEPT !.there = @ \cap now]
    BY DEF Keeps!StillThere
  <2>2. DOMAIN r = {"state", "seen", "entries", "foreign", "there"}
    BY DEF ShelfInv, Reading
  <2> HIDE DEF now, r
  <2>3. /\ DOMAIN t = DOMAIN r /\ t.there = r.there \cap now /\ t.state = r.state
        /\ t.seen = r.seen /\ t.entries = r.entries /\ t.foreign = r.foreign
    BY <2>1, <2>2
  <2>4. Keeps!Bundles(st)' = now
    BY DEF Keeps!Bundles, now
  <2>5. Keeps!Stranger \in objects'[st] => Keeps!Stranger \in objects[st]
    OBVIOUS
  <2> HIDE DEF t
  <2>6. list'[st] = t /\ list[st] = r
    BY DEF t, r
  <2>7. Keeps!Complete(list[st].seen)' = Keeps!Complete(list[st].seen)
    BY <2>3, <2>6 DEF Keeps!Complete
  <2> QED
    BY <2>2, <2>3, <2>4, <2>5, <2>6, <2>7 DEF ShelfInv, Reading
<1> QED
  BY <1>1, <1>2 DEF ShelfInv

\* A reading that begins notes what is there.
LEMMA LookKeeps == ASSUME ShelfInv, Keeps!Look PROVE ShelfInv'
<1> USE DEF Keeps!Look
<1>1. Shelves'
  BY DEF ShelfInv, Shelves
<1>2. ASSUME NEW st \in Storage PROVE Reading(st)'
  <2>1. /\ DOMAIN list'[st] = {"state", "seen", "entries", "foreign", "there"}
        /\ list'[st].there = Keeps!Bundles(st) /\ list'[st].state = "asked"
    BY DEF Keeps!NotRead
  <2>2. Keeps!Bundles(st) \subseteq Snapshot /\ Keeps!Bundles(st)' = Keeps!Bundles(st)
    BY DEF Keeps!Bundles
  <2> QED
    BY <2>1, <2>2 DEF Reading
<1> QED
  BY <1>1, <1>2 DEF ShelfInv

\* A listing has all of it that is still there, or is none.
LEMMA AnswersKeep ==
  ASSUME ShelfInv, NEW st \in Storage, Keeps!Unreachable(st) \/ Keeps!List(st) PROVE ShelfInv'
<1>0. Reading(st) /\ UNCHANGED <<upload, objects>> /\ Keeps!Bundles(st)' = Keeps!Bundles(st)
  BY DEF ShelfInv, Keeps!Unreachable, Keeps!List, Keeps!ListSame, Keeps!Bundles
<1>1. CASE Keeps!Unreachable(st)
  <2>1. Keeps!Answers(st, [list[st] EXCEPT !.state = "unreachable"])
    BY <1>1 DEF Keeps!Unreachable
  <2>2. Reading(st)'
    BY <1>0, <2>1 DEF ShelfInv, Shelves, Reading, Keeps!Answers
  <2> QED
    BY <1>0, <2>1, <2>2, OneAnswers
<1>2. CASE Keeps!List(st)
  <2>1. Keeps!Answers(st, [list[st] EXCEPT !.state = "listed", !.seen = objects[st]])
        /\ list[st].state = "asked"
    BY <1>2 DEF Keeps!List
  <2>2. /\ list'[st].state = "listed" /\ list'[st].seen = objects[st]
        /\ list'[st].there = list[st].there /\ DOMAIN list'[st] = DOMAIN list[st]
    BY <1>0, <2>1 DEF ShelfInv, Shelves, Reading, Keeps!Answers
  <2>3. Keeps!Complete(objects[st]) = Keeps!Bundles(st)
    BY DEF Keeps!Complete, Keeps!Bundles
  <2>4. Keeps!Complete(list[st].seen)' = Keeps!Complete(objects[st])
    BY <2>2 DEF Keeps!Complete
  <2>5. Reading(st)'
    BY <1>0, <2>1, <2>2, <2>3, <2>4 DEF Reading
  <2> QED
    BY <1>0, <2>1, <2>5, OneAnswers
<1> QED
  BY <1>1, <1>2

\* Every bundle that was listed gets an entry, whether its manifest can be read or not.
LEMMA ReadKeeps == ASSUME ShelfInv, NEW st \in Storage, Keeps!Read(st) PROVE ShelfInv'
<1> DEFINE C == Keeps!Complete(list[st].seen)
<1>0. Reading(st) /\ UNCHANGED <<upload, objects>> /\ list[st].state = "listed"
  BY DEF ShelfInv, Keeps!Read, Keeps!ListSame
<1>1. PICK known : Keeps!Answers(st,
        [list[st] EXCEPT !.state = "read",
                         !.foreign = @ \cup (list[st].seen \cap {Keeps!Stranger}),
                         !.entries = {[of |-> s, known |-> s \in known] : s \in C}])
  BY Zenon DEF Keeps!Read
<1>2. C \subseteq {e.of : e \in {[of |-> s, known |-> s \in known] : s \in C}}
  <2> SUFFICES ASSUME NEW s \in C
               PROVE  \E e \in {[of |-> t, known |-> t \in known] : t \in C} : s = e.of
    BY Zenon
  <2> DEFINE e == [of |-> s, known |-> s \in known]
  <2>1. e.of = s
    OBVIOUS
  <2>2. e \in {[of |-> t, known |-> t \in known] : t \in C}
    BY Zenon
  <2> QED
    BY <2>1, <2>2, Zenon
<1>3. list[st].there \subseteq C
  BY <1>0 DEF Reading
<1> HIDE DEF C
<1> DEFINE E == {[of |-> s, known |-> s \in known] : s \in C}
           r == list[st]
<1>4. list' = [list EXCEPT ![st] = [r EXCEPT !.state = "read",
                 !.foreign = @ \cup (r.seen \cap {Keeps!Stranger}), !.entries = E]]
  BY <1>1 DEF Keeps!Answers
<1>5. C \subseteq {e.of : e \in E}
  BY <1>2
<1> HIDE DEF E, r
<1>6. DOMAIN r = {"state", "seen", "entries", "foreign", "there"}
  BY <1>0 DEF Reading, r
<1>7. /\ list'[st].state = "read" /\ list'[st].there = r.there /\ list'[st].entries = E
      /\ list'[st].foreign = r.foreign \cup (r.seen \cap {Keeps!Stranger})
      /\ DOMAIN list'[st] = DOMAIN r
  BY <1>4, <1>6 DEF ShelfInv, Shelves
<1>8. Reading(st)'
  BY <1>0, <1>3, <1>5, <1>6, <1>7 DEF Reading, r
<1> QED
  BY <1>0, <1>1, <1>8, OneAnswers

\* No step breaks the invariant.
LEMMA ShelfKeeps == ASSUME ShelfInv, [Keeps!Next]_(Keeps!vars) PROVE ShelfInv'
<1>1. ASSUME UNCHANGED <<upload, objects, list>> PROVE ShelfInv'
  BY <1>1, Gains DEF ShelfInv, Shelves
<1>2. ASSUME NEW s \in Snapshot, NEW time, NEW random, NEW st, Keeps!Begin(s, time, random, st)
      PROVE  ShelfInv'
  BY <1>1, <1>2 DEF Keeps!Begin
<1>3. ASSUME NEW s \in Snapshot, Keeps!Put(s) PROVE ShelfInv'
  <2>1. /\ upload[s] # <<>> /\ UNCHANGED list /\ upload' = [upload EXCEPT ![s] = Tail(@)]
        /\ objects' = [objects EXCEPT ![taken[s].storage] = @ \cup {<<s, Head(upload[s])>>}]
    BY <1>3 DEF Keeps!Put, Keeps!Uploading
  <2>2. Tail(upload[s]) \in Uploads
    BY <2>1, NextUpload DEF ShelfInv, Shelves
  <2>3. upload' \in [Snapshot -> Uploads]
    BY <2>1, <2>2 DEF ShelfInv, Shelves
  <2> QED
    BY <2>1, <2>3, PutIsKnown, Gains
<1>4. ASSUME NEW s \in Snapshot, Keeps!Stop(s) PROVE ShelfInv'
  <2>1. /\ upload[s] # <<>> /\ UNCHANGED <<list, upload>>
        /\ \/ UNCHANGED objects
           \/ objects' = [objects EXCEPT ![taken[s].storage] = @ \cup {<<s, Head(upload[s])>>}]
    BY <1>4 DEF Keeps!Stop, Keeps!Uploading
  <2>2. upload' \in [Snapshot -> Uploads]
    BY <2>1 DEF ShelfInv, Shelves
  <2> QED
    BY <1>1, <2>1, <2>2, PutIsKnown, Gains
<1>5. ASSUME NEW s, Keeps!Delete(s) PROVE ShelfInv'
  BY <1>1, <1>5 DEF Keeps!Delete
<1>6. CASE Keeps!RemoveKey
  <2>1. UNCHANGED upload /\ list' = Keeps!StillThere(objects')
        /\ objects' = [objects EXCEPT ![Keeps!From] = @ \ {Keeps!Key}]
    BY <1>6 DEF Keeps!RemoveKey
  <2>2. objects' = [st \in Storage |-> objects'[st]]
        /\ \A st \in Storage : objects'[st] \subseteq objects[st]
    BY <2>1 DEF ShelfInv, Shelves
  <2> QED
    BY <2>1, <2>2, Takes
<1>7. CASE Keeps!PassOver
  BY <1>1, <1>7 DEF Keeps!PassOver
<1>8. CASE Keeps!RemoveFails
  <2>1. UNCHANGED upload /\ list' = Keeps!StillThere(objects')
        /\ (objects' = objects \/ objects' = [objects EXCEPT ![Keeps!From] = @ \ {Keeps!Key}])
    BY <1>8 DEF Keeps!RemoveFails
  <2>2. objects' = [st \in Storage |-> objects'[st]]
        /\ \A st \in Storage : objects'[st] \subseteq objects[st]
    BY <2>1 DEF ShelfInv, Shelves
  <2> QED
    BY <2>1, <2>2, Takes
<1>9. CASE UNCHANGED Keeps!vars
  BY <1>1, <1>9 DEF Keeps!vars
<1> QED
  BY <1>2, <1>3, <1>4, <1>5, <1>6, <1>7, <1>8, <1>9, LookKeeps, AnswersKeep, ReadKeeps
     DEF Keeps!Next

(***************************************************************************)
(* A library that read a storage has an entry for every bundle that was    *)
(* there throughout, whatever became of its sidecars, and names what is    *)
(* not ours (BuildLibrary, Group, readEntry).                              *)
(***************************************************************************)
THEOREM LibraryIsComplete == Spec => []NothingIsMissed
<1>1. Init => ShelfInv
  <2> SUFFICES ASSUME Init PROVE ShelfInv
    OBVIOUS
  <2>1. PICK strangers : Keeps!Starts(strangers)
    BY DEF Init, Keeps!Init
  <2>2. Keeps!Extensions \in Uploads
    BY DEF Keeps!Extensions, Uploads
  <2>3. ASSUME NEW st \in Storage PROVE Reading(st)
    BY <2>1 DEF Keeps!Starts, Keeps!NotRead, Reading
  <2>4. Shelves
    BY <2>1, <2>2 DEF Keeps!Starts, Shelves
  <2> QED
    BY <2>3, <2>4 DEF ShelfInv
<1>2. [Next]_vars => [Keeps!Next]_(Keeps!vars)
  BY DEF Next, vars, keepVars, Keeps!vars
<1>3. ShelfInv /\ [Keeps!Next]_(Keeps!vars) => ShelfInv'
  BY ShelfKeeps
<1>4. ShelfInv => NothingIsMissed
  BY DEF ShelfInv, Reading, NothingIsMissed, Keeps!NothingIsMissed
<1> QED
  BY <1>1, <1>2, <1>3, <1>4, PTL DEF Spec
=============================================================================
