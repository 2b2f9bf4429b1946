------------------------------- MODULE FilePut ------------------------------
(***************************************************************************)
(* The upload of one sealed bundle to a backend that resumes at an offset, *)
(* the local disk or a host over SFTP: the checkpoint that travels with    *)
(* it, the retries of one call, the calls of a resumed job, crashes.       *)
(*                                                                         *)
(* The bundle is its chunks 1..N, in order; a checkpoint is taken after    *)
(* every chunk.  A digest is what was hashed, so the whole bundle's is the *)
(* sequence of its chunks.  Bytes no writer wrote are zeros.               *)
(*                                                                         *)
(* Sources: engine/store/disk/disk.go, engine/store/sftpstore/sftp.go,     *)
(* engine/store/store.go, engine/reliable/reliable.go,                     *)
(* engine/orchestrator/capture.go and resume.go.                           *)
(***************************************************************************)
EXTENDS Integers, Sequences, ReliableBounds

CONSTANT Writer  \* the goroutines that upload the bundle to its key

VARIABLES
  backend,  \* the backend, "disk" or "sftp"; it never changes
  part,     \* the temporary file's content, or Absent
  object,   \* the content under the bundle's key, or Absent
  synced,   \* TRUE while all of part is flushed
  rec,      \* the checkpoint in the job's record
  pc,       \* pc[w]: where the writer's call has got to
  opts,     \* opts[w]: the checkpoint its attempts go by
  from,     \* from[w]: resumeFrom
  pos,      \* pos[w]: how far its source is read
  hash,     \* hash[w]: what its hash covers
  at,       \* at[w]: the file its handle is on
  tries,    \* tries[w]: the attempts of the call so far
  mishaps

files  == <<part, object, synced>>
writer == <<pc, opts, from, pos, hash, at, tries>>
vars   == <<backend, files, rec, writer, mishaps>>

Cut(f, n) == [i \in 1..n |-> IF i <= Len(f) THEN f[i] ELSE 0]   \* truncate(2)
Whole   == [i \in 1..N |-> i]
Absent  == <<-1>>
Content == UNION {[1..n -> 0..N] : n \in 0..N}
Hashed  == Seq(1..N)
Mark    == [offset : 0..N, state : Hashed]

TypeOK ==
  /\ backend \in {"disk", "sftp"}
  /\ part \in Content \cup {Absent} /\ object \in Content \cup {Absent}
  /\ synced \in BOOLEAN /\ rec \in Mark
  /\ pc \in [Writer -> {"idle", "stat", "open", "copy", "verify", "remove",
                        "rename", "stored", "rejected"}]
  /\ opts \in [Writer -> Mark]
  /\ from \in [Writer -> 0..N] /\ pos \in [Writer -> 0..N]
  /\ hash \in [Writer -> Hashed]
  /\ at \in [Writer -> {"none", "part", "object"}]
  /\ tries \in [Writer -> 0..Attempts] /\ mishaps \in 0..Mishaps

NoMark == [offset |-> 0, state |-> <<>>]

Init ==
  /\ backend \in {"disk", "sftp"}
  /\ part = Absent /\ object = Absent /\ synced = FALSE /\ rec = NoMark
  /\ pc = [w \in Writer |-> "idle"] /\ opts = [w \in Writer |-> NoMark]
  /\ from = [w \in Writer |-> 0] /\ pos = [w \in Writer |-> 0]
  /\ hash = [w \in Writer |-> <<>>] /\ at = [w \in Writer |-> "none"]
  /\ tries = [w \in Writer |-> 0] /\ mishaps = 0
-----------------------------------------------------------------------------
Goto(w, to) == pc' = [pc EXCEPT ![w] = to]
At(w, step) == pc[w] = step
Mishap == mishaps < Mishaps /\ mishaps' = mishaps + 1
Size(f) == IF f = Absent THEN 0 ELSE Len(f)

\* What a write of chunk k at offset i makes of a file.
WriteAt(f, i, k) ==
  [j \in 1..(IF i < Len(f) THEN Len(f) ELSE i + 1) |->
     IF j = i + 1 THEN k ELSE IF j <= Len(f) THEN f[j] ELSE 0]

\* The file that handles on it follow when it is renamed or removed.
Follow(moves) ==
  at' = [w \in Writer |-> IF at[w] \in DOMAIN moves THEN moves[at[w]] ELSE at[w]]

\* An upload, or the upload of a job that was interrupted: it goes by the
\* checkpoint in the record.
Begin(w) ==
  /\ At(w, "idle") /\ \A v \in Writer : pc[v] \notin {"rejected", "stored"}
  /\ Goto(w, "stat") /\ opts' = [opts EXCEPT ![w] = rec]
  /\ tries' = [tries EXCEPT ![w] = 1]
  /\ UNCHANGED <<files, rec, from, pos, hash, at, mishaps>>

\* A failure leaves the call to its next attempt, which goes by the latest
\* checkpoint, or hands that checkpoint to the record and returns.
GiveUpOrRetry(w) ==
  /\ at' = [at EXCEPT ![w] = "none"]
  /\ IF tries[w] < Attempts
     THEN Goto(w, "stat") /\ tries' = [tries EXCEPT ![w] = @ + 1] /\ UNCHANGED rec
     ELSE Goto(w, "idle") /\ rec' = opts[w] /\ UNCHANGED tries

\* Mutant: the checkpoint is believed, whatever the file holds.
StatTrusts(w) ==
  /\ At(w, "stat") /\ Goto(w, "open")
  /\ from' = [from EXCEPT ![w] = IF part # Absent THEN opts[w].offset ELSE 0]
  /\ UNCHANGED <<files, rec, opts, pos, hash, at, tries, mishaps>>

\* "A checkpoint is a hint; this file is the authority."
Stat(w) ==
  /\ At(w, "stat") /\ Goto(w, "open")
  /\ from' = [from EXCEPT ![w] = IF Size(part) < opts[w].offset
                                 THEN Size(part) ELSE opts[w].offset]
  /\ UNCHANGED <<files, rec, opts, pos, hash, at, tries, mishaps>>

\* The temporary file is cut where the upload resumes and appended to, on disk;
\* over SFTP it is written over from there.  The hash starts from the state in
\* the checkpoint: the test that should drop a state the file does not bear out
\* compares the offset with the one just assigned to it.
Open(w) ==
  /\ At(w, "open") /\ (from[w] > 0 => part # Absent) /\ Goto(w, "copy")
  /\ part' = IF from[w] = 0 THEN <<>>
             ELSE IF backend = "disk" THEN Cut(part, from[w]) ELSE part
  /\ synced' = FALSE
  /\ pos' = [pos EXCEPT ![w] = from[w]]
  /\ hash' = [hash EXCEPT ![w] = IF from[w] = 0 THEN <<>> ELSE opts[w].state]
  /\ at' = [at EXCEPT ![w] = "part"]
  /\ UNCHANGED <<object, rec, opts, from, tries, mishaps>>

\* The file to resume is gone: another upload has committed it, or removed it.
OpenGone(w) ==
  /\ At(w, "open") /\ from[w] > 0 /\ part = Absent
  /\ IF backend = "disk" THEN GiveUpOrRetry(w) /\ UNCHANGED from
     ELSE /\ Goto(w, "open") /\ from' = [from EXCEPT ![w] = 0]
          /\ UNCHANGED <<rec, at, tries>>
  /\ UNCHANGED <<files, opts, pos, hash, mishaps>>

\* Where the next chunk lands: a resumed disk write appends, whatever else was
\* appended meanwhile; any other goes where its own writer has got to.
Written(w, f) ==
  WriteAt(f, IF backend = "disk" /\ from[w] > 0 THEN Len(f) ELSE pos[w], pos[w] + 1)

WriteChunk(w) ==
  /\ part' = IF at[w] = "part" THEN Written(w, part) ELSE part
  /\ object' = IF at[w] = "object" THEN Written(w, object) ELSE object
  /\ synced' = FALSE

\* The chunk reaches the file, the hash and the checkpoint, in this order.
Copy(w) ==
  /\ At(w, "copy") /\ pos[w] < N /\ WriteChunk(w)
  /\ pos' = [pos EXCEPT ![w] = @ + 1]
  /\ hash' = [hash EXCEPT ![w] = Append(@, pos[w] + 1)]
  /\ opts' = [opts EXCEPT ![w] = [offset |-> pos[w] + 1, state |-> hash'[w]]]
  /\ UNCHANGED <<rec, pc, from, at, tries, mishaps>>

\* The last chunk is followed by a flush, on disk, and the file is closed.
Close(w) ==
  /\ At(w, "copy") /\ pos[w] = N /\ Goto(w, "verify")
  /\ synced' = (synced \/ (backend = "disk" /\ at[w] = "part"))
  /\ at' = [at EXCEPT ![w] = "none"]
  /\ UNCHANGED <<part, object, rec, opts, from, pos, hash, tries, mishaps>>

Verify(w) ==
  /\ At(w, "verify")
  /\ IF hash[w] = Whole
     THEN Goto(w, IF backend = "disk" THEN "rename" ELSE "remove") /\ UNCHANGED <<part, at>>
     ELSE Goto(w, "rejected") /\ part' = Absent /\ Follow([part |-> "none"])
  /\ UNCHANGED <<object, synced, rec, opts, from, pos, hash, tries, mishaps>>

\* SFTP renames onto no file that is there, so the old object goes first.
Remove(w) ==
  /\ At(w, "remove") /\ Goto(w, "rename")
  /\ object' = Absent /\ Follow([object |-> "none"])
  /\ UNCHANGED <<part, synced, rec, opts, from, pos, hash, tries, mishaps>>

Rename(w) ==
  /\ At(w, "rename")
  /\ IF part # Absent /\ (backend = "sftp" => object = Absent)
     THEN /\ object' = part /\ part' = Absent /\ Goto(w, "stored")
          /\ Follow([part |-> "object", object |-> "none"])
          /\ UNCHANGED <<rec, tries>>
     ELSE GiveUpOrRetry(w) /\ UNCHANGED <<part, object>>
  /\ UNCHANGED <<synced, opts, from, pos, hash, mishaps>>
-----------------------------------------------------------------------------
\* The transfer drops, possibly with a chunk on its way into the file.
Drop(w) ==
  /\ pc[w] \in {"stat", "open", "copy", "remove", "rename"} /\ Mishap
  /\ IF At(w, "copy") /\ pos[w] < N THEN WriteChunk(w) \/ UNCHANGED files
     ELSE UNCHANGED files
  /\ GiveUpOrRetry(w)
  /\ UNCHANGED <<opts, from, pos, hash>>

\* The bundle is stored and a sidecar is not: the job is interrupted with the
\* checkpoint of its finished upload.
SidecarFails(w) ==
  /\ At(w, "stored") /\ Mishap /\ Goto(w, "idle") /\ rec' = opts[w]
  /\ UNCHANGED <<files, opts, from, pos, hash, at, tries>>

\* The process dies, every writer with it; the job is interrupted and goes by
\* what its record says.  If the machine loses power, so does any tail of the
\* temporary file that was not flushed.
Crash ==
  /\ \E w \in Writer : pc[w] \notin {"idle", "stored", "rejected"}
  /\ Mishap
  /\ pc' = [w \in Writer |-> IF pc[w] \in {"stored", "rejected"} THEN pc[w] ELSE "idle"]
  /\ at' = [w \in Writer |-> "none"]
  /\ \/ UNCHANGED part
     \/ /\ backend = "disk" /\ part # Absent /\ ~synced
        /\ \E n \in 0..Len(part) : part' = Cut(part, n)
  /\ UNCHANGED <<object, synced, rec, opts, from, pos, hash, tries>>

Step(w) ==
  /\ UNCHANGED backend
  /\ \/ Begin(w) \/ Stat(w) \/ Open(w) \/ OpenGone(w) \/ Copy(w) \/ Close(w)
     \/ Verify(w) \/ Remove(w) \/ Rename(w)

Mischance == Crash \/ \E w \in Writer : Drop(w) \/ SidecarFails(w)

Next == (\E w \in Writer : Step(w)) \/ (Mischance /\ UNCHANGED backend)

Spec == Init /\ [][Next]_vars
-----------------------------------------------------------------------------
\* Storing the bundle is atomic: nothing under its key, then all of it, through
\* drops, crashes and resumes (disk.go:171 to 175).  Only replacing an object
\* over SFTP takes it away first.
stored == IF object = Absent THEN "none" ELSE IF object = Whole THEN "whole" ELSE "partial"
Atomic == INSTANCE AtomicPut WITH object <- stored, replaces <- (backend = "disk")
ImplementsAtomic == Atomic!Spec
-----------------------------------------------------------------------------
\* What the sources say and the code does not keep: see the README.

\* What is under the key is the bundle, whoever else uploads it.
CommittedIsWhole == object \in {Absent, Whole}

\* An intact bundle is never refused for not having arrived intact: where the
\* file is shorter than the checkpoint says, it is read again (disk.go:227).
IntactIsAccepted == \A w \in Writer : pc[w] # "rejected"
=============================================================================
