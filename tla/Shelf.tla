-------------------------------- MODULE Shelf --------------------------------
(***************************************************************************)
(* The storages as a library: captures put their three objects there, one  *)
(* after the other, the library lists what there is, and an operator       *)
(* deletes a snapshot.  Nothing in a storage keeps them apart.             *)
(***************************************************************************)
EXTENDS Naturals, FiniteSets, Sequences, SequencesExt

CONSTANTS
  Snapshot,
  Storage,
  Span,      \* the milliseconds of an id that are written over (2^16)
  Minute,    \* the milliseconds of a minute
  MaxTime,   \* bound: time
  MaxUpsets, \* bound: calls that fail
  MaxLists   \* bound: times the library is read

VARIABLES
  clock,
  taken,    \* taken[s]: [time, id, storage] of a capture, once it has begun
  upload,   \* upload[s]: the objects still to be put; <<>> when done
  stopped,  \* captures that gave up, or whose PortCloak died
  objects,  \* objects[st]: what a storage holds, pairs of a snapshot and an extension
  delete,   \* the deletion: [of, todo, removed, state]
  list,     \* list[st]: [state, seen, entries, foreign, there] of a reading of the library
  upsets,
  lists

vars == <<clock, taken, upload, stopped, objects, delete, list, upsets, lists>>

Extensions == <<"bundle", "manifest", "digest">>
Stranger == <<"stranger", "txt">>
NotTaken == [time |-> 0, id |-> 0, storage |-> ""]
NoDelete == [of |-> "", todo |-> <<>>, removed |-> {}, state |-> "none"]
NotRead == [state |-> "idle", seen |-> {}, entries |-> {}, foreign |-> {}, there |-> {}]

Begun == {s \in Snapshot : taken[s] # NotTaken}
Bundles(st) == {s \in Snapshot : <<s, "bundle">> \in objects[st]}

TypeOK ==
  /\ clock \in 0..MaxTime
  /\ \A s \in Snapshot : IsSuffix(upload[s], Extensions)
  /\ \A st \in Storage : objects[st] \subseteq (Snapshot \X ToSet(Extensions)) \cup {Stranger}
  /\ IsSuffix(delete.todo, Extensions) /\ delete.state \in {"none", "going", "failed", "done"}
  /\ \A st \in Storage : list[st].state \in {"idle", "asked", "unreachable", "listed", "read"}

Starts(strangers) ==
  /\ clock = 0 /\ taken = [s \in Snapshot |-> NotTaken]
  /\ upload = [s \in Snapshot |-> Extensions] /\ stopped = {}
  /\ objects = [st \in Storage |-> strangers] /\ delete = NoDelete
  /\ list = [st \in Storage |-> NotRead] /\ upsets = 0 /\ lists = 0

Init == \E strangers \in {{}, {Stranger}} : Starts(strangers)

Upset == upsets < MaxUpsets /\ upsets' = upsets + 1

\* A bundle that was there when a reading began, and still is.
StillThere(now) == [st \in Storage |-> [list[st] EXCEPT !.there = @ \cap {s \in Snapshot : <<s, "bundle">> \in now[st]}]]
-----------------------------------------------------------------------------
(* The captures.                                                           *)

\* NewID: the time, with its low two bytes and two more drawn at random.
NewID(time, random) == (time \div Span) * Span + random

Begin(s, time, random, st) ==
  /\ s \notin Begun /\ clock' = time
  /\ taken' = [taken EXCEPT ![s] = [time |-> time + 1, id |-> NewID(time, random), storage |-> st]]
  /\ UNCHANGED <<upload, stopped, objects, delete, list, upsets, lists>>

Uploading(s) == s \in Begun \ stopped /\ upload[s] # <<>>

\* upload: the bundle, the manifest, the digest.
Put(s) ==
  /\ Uploading(s)
  /\ objects' = [objects EXCEPT ![taken[s].storage] = @ \cup {<<s, Head(upload[s])>>}]
  /\ upload' = [upload EXCEPT ![s] = Tail(@)]
  /\ UNCHANGED <<clock, taken, stopped, delete, list, upsets, lists>>

\* The put fails for good, or the process ends; the object may be there all the same.
Stop(s) ==
  /\ Uploading(s) /\ Upset /\ stopped' = stopped \cup {s}
  /\ \/ UNCHANGED objects
     \/ objects' = [objects EXCEPT ![taken[s].storage] = @ \cup {<<s, Head(upload[s])>>}]
  /\ UNCHANGED <<clock, taken, upload, delete, list, lists>>
-----------------------------------------------------------------------------
(* The library.                                                            *)

\* Library: every storage is asked at once.
Look ==
  /\ lists < MaxLists /\ lists' = lists + 1
  /\ \A st \in Storage : list[st].state \notin {"asked", "listed"}
  /\ list' = [st \in Storage |-> [NotRead EXCEPT !.there = Bundles(st), !.state = "asked"]]
  /\ UNCHANGED <<clock, taken, upload, stopped, objects, delete, upsets>>

Answers(st, answer) == list' = [list EXCEPT ![st] = answer]
ListSame == UNCHANGED <<clock, taken, upload, stopped, objects, delete, lists>>

\* It cannot be opened, or not be listed.
Unreachable(st) ==
  /\ list[st].state = "asked" /\ Upset
  /\ Answers(st, [list[st] EXCEPT !.state = "unreachable"]) /\ ListSame

List(st) ==
  /\ list[st].state = "asked"
  /\ Answers(st, [list[st] EXCEPT !.state = "listed", !.seen = objects[st]])
  /\ UNCHANGED upsets /\ ListSame

\* Mutant: what makes a snapshot is its manifest.
WithManifest(seen) == {s \in Snapshot : <<s, "manifest">> \in seen}

\* Group and Complete: the objects of one name are a snapshot if the bundle is among them.
Complete(seen) == {s \in Snapshot : <<s, "bundle">> \in seen}

\* readEntry: an entry is known in full if its manifest was listed and is still there.
\* (One that cannot be read is an entry with a note: the upset is for any of them.)
Read(st) ==
  /\ list[st].state = "listed"
  /\ \E unread \in {{}} \cup {{s} : s \in Complete(list[st].seen)} :
       /\ IF unread = {} THEN UNCHANGED upsets ELSE Upset
       /\ LET known == {s \in Complete(list[st].seen) \ unread :
                          <<s, "manifest">> \in list[st].seen \cap objects[st]}
          IN  Answers(st, [list[st] EXCEPT !.state = "read", !.foreign = @ \cup (list[st].seen \cap {Stranger}),
                             !.entries = {[of |-> s, known |-> s \in known] : s \in Complete(list[st].seen)}])
  /\ ListSame
-----------------------------------------------------------------------------
(* The deletion.                                                           *)

Shown == {s \in Snapshot : \E st \in Storage : \E e \in list[st].entries : e.of = s /\ list[st].state = "read"}

Delete(s) ==
  /\ delete.state # "going" /\ s \in Shown /\ delete.of # s
  /\ delete' = [of |-> s, todo |-> Extensions, removed |-> {}, state |-> "going"]
  /\ UNCHANGED <<clock, taken, upload, stopped, objects, list, upsets, lists>>

\* blobs.Delete failed: what was removed so far is what is reported.
Reported(key) == delete' = [delete EXCEPT !.state = "failed"]

Key == <<delete.of, Head(delete.todo)>>
From == taken[delete.of].storage
Onwards(removed) ==
  delete' = [delete EXCEPT !.todo = Tail(@), !.removed = @ \cup removed,
                           !.state = IF Len(delete.todo) = 1 THEN "done" ELSE "going"]

\* One key: asked for, and deleted if it is there.
RemoveKey ==
  /\ delete.state = "going" /\ Key \in objects[From]
  /\ objects' = [objects EXCEPT ![From] = @ \ {Key}] /\ list' = StillThere(objects')
  /\ Onwards({Key})
  /\ UNCHANGED <<clock, taken, upload, stopped, upsets, lists>>

\* It is not there, or the question fails: it is passed over.
PassOver ==
  /\ delete.state = "going"
  /\ IF Key \in objects[From] THEN Upset ELSE UNCHANGED upsets
  /\ Onwards({})
  /\ UNCHANGED <<clock, taken, upload, stopped, objects, list, lists>>

\* The deletion fails; what it was to delete is there, or is gone.
RemoveFails ==
  /\ delete.state = "going" /\ Key \in objects[From] /\ Upset
  /\ objects' \in {objects, [objects EXCEPT ![From] = @ \ {Key}]} /\ list' = StillThere(objects')
  /\ Reported(Key)
  /\ UNCHANGED <<clock, taken, upload, stopped, lists>>

Next ==
  \/ \E s \in Snapshot, time \in clock..MaxTime, random \in 0..(Span - 1), st \in Storage :
       Begin(s, time, random, st)
  \/ \E s \in Snapshot : Put(s) \/ Stop(s) \/ Delete(s)
  \/ Look \/ \E st \in Storage : Unreachable(st) \/ List(st) \/ Read(st)
  \/ RemoveKey \/ PassOver \/ RemoveFails

Spec == Init /\ [][Next]_vars
-----------------------------------------------------------------------------
(* What is checked.                                                        *)

\* A library that read a storage has an entry for every bundle that was there from
\* the question to the answer, its manifest put or not; and one that did not says so
\* of that storage alone (BuildLibrary, Group, readEntry).
NothingIsMissed ==
  \A st \in Storage : list[st].state = "read" =>
    /\ list[st].there \subseteq {e.of : e \in list[st].entries}
    /\ Stranger \in objects[st] => Stranger \in list[st].foreign
-----------------------------------------------------------------------------
(* What the sources say and the code does not keep: see the README.        *)

\* "Some of this snapshot's objects were already gone" (snapshot_controller.go:196):
\* a question that fails is taken for an object that is not there.
PassedOverIsGone ==
  delete.state = "done" /\ upload[delete.of] = <<>> =>
    \A i \in DOMAIN Extensions : <<delete.of, Extensions[i]>> \notin objects[From]

\* "an operator scanning a bucket with ls should see chronological order even if two
\* snapshots land in the same minute" (envelope.go:107).
SeenInTimeOrder ==
  LET name(s) == <<(taken[s].time - 1) \div Minute, taken[s].id>>
      before(a, b) == a[1] < b[1] \/ (a[1] = b[1] /\ a[2] <= b[2])
  IN  \A a, b \in Begun : taken[a].time < taken[b].time => before(name(a), name(b))

\* "An operator ... needs to see what is really there" (store.go:270): a sidecar whose
\* bundle is gone is neither an entry nor foreign.
ResidueIsSeen ==
  \A st \in Storage : list[st].state = "read" =>
    \A o \in list[st].seen \ {Stranger} : \E e \in list[st].entries : e.of = o[1]

\* A finished capture is in its storage until a deletion reports its bundle removed:
\* one that was begun before the capture was finished goes by what it found.
FinishedIsThere ==
  \A s \in Begun : upload[s] = <<>> /\ <<s, "bundle">> \notin delete.removed =>
    \A i \in DOMAIN Extensions : <<s, Extensions[i]>> \in objects[taken[s].storage]
=============================================================================
