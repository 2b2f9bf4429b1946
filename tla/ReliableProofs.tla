--------------------------- MODULE ReliableProofs ---------------------------
(***************************************************************************)
(* What is proved of the calls that may fail and are tried again: of the   *)
(* breaker, for any number of callers, threshold and attempts, and of an   *)
(* upload at an offset and one in parts, for any number of pieces,         *)
(* attempts and mishaps.                                                   *)
(***************************************************************************)
EXTENDS Reliable, Integers, Sequences, TLAPS

-----------------------------------------------------------------------------
(***************************************************************************)
(* The breaker.                                                            *)
(***************************************************************************)
\* Past its stray attempt a caller meets the breaker again before the next:
\* while the breaker is open, one that has made it is not on its way to one.
Spent ==
  breaker = "open" =>
    \A c \in Caller : strays[c] # 0 => pc[c] \notin {"ready", "sleeping"}

\* A caller that goes on has an attempt left.
InBudget ==
  \A c \in Caller : pc[c] \in {"ready", "recheck", "sleeping"} => attempt[c] < Attempts

BreakerInv ==
  /\ Breaking!TypeOK /\ Breaking!HalfOpenIsCooled /\ Breaking!OneStray
  /\ Breaking!ClosedBelowThreshold /\ Spent /\ InBudget

\* The helpers' effects, for the step of any caller.
LEMMA AllowFacts ==
  ASSUME BreakerInv, NEW c \in Caller, NEW to \in {"ready", "sleeping"}, Breaking!Allow(c, to)
  PROVE  /\ pc' = [pc EXCEPT ![c] = IF breaker = "open" THEN "refused" ELSE to]
         /\ halfOpen' \in BOOLEAN
         /\ halfOpen' => breaker = "cooled"
  BY DEF BreakerInv, Breaking!TypeOK, Breaking!HalfOpenIsCooled, Breaking!Allow, Breaking!Goto

LEMMA FailureFacts ==
  ASSUME BreakerInv, Breaking!Failure
  PROVE  /\ breaker' \in {"closed", "open", "cooled"} /\ halfOpen' = FALSE
         /\ failures' \in 0..Threshold
         /\ breaker' = "closed" => failures' < Threshold
         /\ \/ breaker' = "open" /\ strays' = [c \in Caller |-> 0]
            \/ breaker' = breaker /\ strays' = strays
  BY ReliableAssumption
     DEF BreakerInv, Breaking!TypeOK, Breaking!HalfOpenIsCooled, Breaking!ClosedBelowThreshold,
         Breaking!Failure

LEMMA BreakerStarts == Breaking!Init => BreakerInv
<1> SUFFICES ASSUME Breaking!Init PROVE BreakerInv
  OBVIOUS
<1>1. Breaking!TypeOK
  <2>1. breaker \in {"closed", "open", "cooled"} /\ halfOpen \in BOOLEAN /\ up \in BOOLEAN
    BY DEF Breaking!Init
  <2>2. failures \in 0..Threshold /\ mishaps \in 0..Cancels /\ cancelled \subseteq Caller
    BY ReliableAssumption, CancelsAssumption DEF Breaking!Init
  <2>3. /\ op \in [Caller -> {"transfer", "teardown"}]
        /\ pc \in [Caller -> {"idle", "ready", "trying", "recheck", "sleeping", "refused"}]
    BY DEF Breaking!Init
  <2>4. attempt \in [Caller -> 0..Attempts] /\ strays \in [Caller -> Nat]
    BY ReliableAssumption, CancelsAssumption DEF Breaking!Init
  <2> QED BY <2>1, <2>2, <2>3, <2>4 DEF Breaking!TypeOK
<1>3. InBudget
  BY DEF Breaking!Init, InBudget
<1>2. Breaking!HalfOpenIsCooled /\ Breaking!OneStray /\ Breaking!ClosedBelowThreshold /\ Spent
  BY ReliableAssumption
     DEF Breaking!Init, Breaking!HalfOpenIsCooled, Breaking!OneStray,
         Breaking!ClosedBelowThreshold, Spent
<1> QED BY <1>1, <1>2, <1>3 DEF BreakerInv

LEMMA BreakerKeeps == BreakerInv /\ [Breaking!Next]_(Breaking!vars) => BreakerInv'
<1> SUFFICES ASSUME BreakerInv, [Breaking!Next]_(Breaking!vars) PROVE BreakerInv'
  OBVIOUS
<1> USE ReliableAssumption, CancelsAssumption
        DEF BreakerInv, Breaking!TypeOK, Breaking!HalfOpenIsCooled, Breaking!OneStray,
            Breaking!ClosedBelowThreshold, Spent, InBudget
<1>1. CASE Breaking!CoolDown
  BY <1>1 DEF Breaking!CoolDown, Breaking!calls
<1>2. CASE Breaking!Endpoint
  BY <1>2 DEF Breaking!Endpoint, Breaking!calls
<1>3. ASSUME NEW c \in Caller, Breaking!Begin(c) PROVE BreakerInv'
  <2>1. Breaking!Allow(c, "ready") /\ pc[c] = "idle"
    BY <1>3 DEF Breaking!Begin
  <2>2. PICK o \in {"transfer", "teardown"} : op' = [op EXCEPT ![c] = o]
    BY <1>3 DEF Breaking!Begin
  <2> QED BY <1>3, <2>1, <2>2, AllowFacts DEF Breaking!Begin
<1>4. ASSUME NEW c \in Caller, Breaking!Recheck(c) PROVE BreakerInv'
  <2>1. Breaking!Allow(c, "sleeping")
    BY <1>4 DEF Breaking!Recheck
  <2> QED BY <1>4, <2>1, AllowFacts DEF Breaking!Recheck
<1>5. ASSUME NEW c \in Caller, Breaking!Refused(c) PROVE BreakerInv'
  BY <1>5 DEF Breaking!Refused, Breaking!Return, Breaking!Goto
<1>6. ASSUME NEW c \in Caller, Breaking!Try(c) PROVE BreakerInv'
  <2>1. CASE c \in cancelled
    BY <1>6, <2>1 DEF Breaking!Try, Breaking!Return, Breaking!Goto
  <2>2. CASE c \notin cancelled
    <3>1. /\ pc[c] = "ready" /\ pc' = [pc EXCEPT ![c] = "trying"]
          /\ attempt' = [attempt EXCEPT ![c] = @ + 1]
          /\ strays' = IF breaker = "open" THEN [strays EXCEPT ![c] = @ + 1] ELSE strays
          /\ UNCHANGED <<breaker, halfOpen, failures, up, op, cancelled, mishaps>>
      BY <1>6, <2>2 DEF Breaking!Try, Breaking!Goto
    <3>2. attempt[c] + 1 \in 0..Attempts
      BY <3>1
    <3>3. breaker = "open" => strays[c] = 0
      BY <3>1
    <3>4. strays' \in [Caller -> Nat] /\ \A d \in Caller : strays'[d] <= 1
      BY <3>1, <3>3
    <3>5. Spent'
      BY <3>1, <3>3
    <3>6. InBudget'
      BY <3>1
    <3>7. Breaking!TypeOK'
      BY <3>1, <3>2, <3>4
    <3> QED BY <3>1, <3>4, <3>5, <3>6, <3>7
  <2> QED BY <2>1, <2>2
<1>7. ASSUME NEW c \in Caller, Breaking!Succeed(c) PROVE BreakerInv'
  <2>1. /\ breaker' = "closed" /\ halfOpen' = FALSE /\ failures' = 0
        /\ pc' = [pc EXCEPT ![c] = "idle"] /\ cancelled' = cancelled \ {c}
        /\ UNCHANGED <<up, op, attempt, strays, mishaps>>
    BY <1>7 DEF Breaking!Succeed, Breaking!Success, Breaking!Return, Breaking!Goto
  <2>2. halfOpen' \in BOOLEAN
    BY <2>1
  <2>3. Breaking!TypeOK'
    BY <2>1, <2>2
  <2>4. Breaking!HalfOpenIsCooled'
    BY <2>1
  <2>5. Breaking!OneStray' /\ Breaking!ClosedBelowThreshold'
    BY <2>1
  <2>6. Spent'
    BY <2>1
  <2>7. InBudget'
    BY <2>1
  <2> QED BY <2>3, <2>4, <2>5, <2>6, <2>7
<1>8. ASSUME NEW c \in Caller, Breaking!FailTerminal(c) PROVE BreakerInv'
  BY <1>8 DEF Breaking!FailTerminal, Breaking!Return, Breaking!Goto
<1>9. ASSUME NEW c \in Caller, Breaking!FailRetryable(c) PROVE BreakerInv'
  <2>1. Breaking!Failure /\ UNCHANGED <<up, op, attempt, mishaps>>
    BY <1>9 DEF Breaking!FailRetryable, Breaking!Return
  <2>2. /\ \/ pc' = [pc EXCEPT ![c] = "idle"]
           \/ pc' = [pc EXCEPT ![c] = "recheck"] /\ attempt[c] # Attempts
        /\ cancelled' \subseteq Caller
    BY <1>9 DEF Breaking!FailRetryable, Breaking!Return, Breaking!Goto
  <2>3. /\ halfOpen' = FALSE /\ failures' \in 0..Threshold
        /\ breaker' \in {"closed", "open", "cooled"}
        /\ breaker' = "closed" => failures' < Threshold
        /\ \/ breaker' = "open" /\ strays' = [d \in Caller |-> 0]
           \/ breaker' = breaker /\ strays' = strays
    BY <2>1, FailureFacts
  <2>4. halfOpen' \in BOOLEAN
    BY <2>3
  <2>5. strays' \in [Caller -> Nat] /\ \A d \in Caller : strays'[d] <= 1
    BY <2>3
  <2>6. Breaking!TypeOK'
    BY <2>1, <2>2, <2>3, <2>4, <2>5
  <2>7. Breaking!HalfOpenIsCooled'
    BY <2>3
  <2>8. Breaking!ClosedBelowThreshold' /\ Breaking!OneStray'
    BY <2>3, <2>5
  <2>9. Spent'
    BY <2>2, <2>3
  <2>10. InBudget'
    BY <2>1, <2>2
  <2> QED BY <2>6, <2>7, <2>8, <2>9, <2>10
<1>10. ASSUME NEW c \in Caller, Breaking!Wake(c) PROVE BreakerInv'
  <2>1. CASE c \in cancelled
    BY <1>10, <2>1 DEF Breaking!Wake, Breaking!Return, Breaking!Goto
  <2>2. CASE c \notin cancelled
    BY <1>10, <2>2 DEF Breaking!Wake, Breaking!Goto
  <2> QED BY <2>1, <2>2
<1>11. ASSUME NEW c \in Caller, Breaking!Cancel(c) PROVE BreakerInv'
  BY <1>11 DEF Breaking!Cancel
<1>12. CASE UNCHANGED Breaking!vars
  BY <1>12 DEF Breaking!vars, Breaking!calls
<1> QED
  BY <1>1, <1>2, <1>3, <1>4, <1>5, <1>6, <1>7, <1>8, <1>9, <1>10, <1>11, <1>12
     DEF Breaking!Next, Breaking!Step

\* Every step is one of the breaker, or leaves it alone.
LEMMA BreakerHolds == Spec => []BreakerInv
<1>1. Init => BreakerInv
  BY BreakerStarts DEF Init
<1>2. [Next]_vars => [Breaking!Next]_(Breaking!vars)
  BY DEF Next, vars, breakVars, Breaking!vars, Breaking!calls
<1> QED
  BY <1>1, <1>2, BreakerKeeps, PTL DEF Spec

\* The state of the breaker and of every call stays within its type.
THEOREM BreakerTypes == Spec => []Breaking!TypeOK
<1>1. BreakerInv => Breaking!TypeOK
  BY DEF BreakerInv
<1> QED
  BY <1>1, BreakerHolds, PTL

\* However many jobs share the endpoint: each makes one stray attempt at most
\* while the breaker is open, halfOpen is only ever set once the cooldown has
\* elapsed, and a closed breaker remembers fewer failures than its threshold.
THEOREM BreakerIsSafe ==
  Spec => [](OneStray /\ Breaking!HalfOpenIsCooled /\ Breaking!ClosedBelowThreshold)
<1>1. BreakerInv => OneStray /\ Breaking!HalfOpenIsCooled /\ Breaking!ClosedBelowThreshold
  BY DEF BreakerInv, OneStray
<1> QED
  BY <1>1, BreakerHolds, PTL
-----------------------------------------------------------------------------
(***************************************************************************)
(* An upload that resumes at an offset, while no other goroutine uploads to*)
(* its key.  Whatever was dropped, cut or written over, the temporary file *)
(* is a prefix of the bundle, at least as long as what the upload has read;*)
(* what the checkpoint says cannot take it past the end of the file.  So   *)
(* when everything is read the file is the whole bundle, and nothing but   *)
(* the rename gives the object a content.                                  *)
(***************************************************************************)
\* Nobody else uploads the bundle to its key (see CommittedIsWhole).
OneWriter == \A v, w \in Writer : v = w

Prefix(n) == [i \in 1..n |-> i]

FileTyped ==
  /\ backend \in {"disk", "sftp"}
  /\ rec \in Resuming!Mark /\ opts \in [Writer -> Resuming!Mark]
  /\ putPc \in [Writer -> {"idle", "stat", "open", "copy", "verify", "remove",
                        "rename", "stored", "rejected"}]
  /\ from \in [Writer -> 0..N] /\ pos \in [Writer -> 0..N]
  /\ hash \in [Writer -> Resuming!Hashed]
  /\ at \in [Writer -> {"none", "part", "object"}]

\* The temporary file is a prefix of the bundle, the object is the bundle.
PartIsPrefix  == part = Resuming!Absent \/ \E k \in 0..N : part = Prefix(k)
ObjectIsWhole == object \in {Resuming!Absent, Resuming!Whole}

\* A handle is held while the bundle is copied, on the temporary file.
HeldWhileCopied == \A w \in Writer : at[w] = IF putPc[w] = "copy" THEN "part" ELSE "none"

\* The upload resumes within the file.
ResumesWithin ==
  \A w \in Writer : putPc[w] = "open" =>
    from[w] = 0 \/ (part # Resuming!Absent /\ from[w] <= Len(part))

\* What is read is in the file; on disk, where a write appends, nothing else is.
ReadIsThere ==
  \A w \in Writer : putPc[w] = "copy" =>
    \E k \in pos[w]..N : part = Prefix(k) /\ (backend = "disk" => k = pos[w])

\* What is verified, and renamed, is the whole bundle.
WholeOnceRead ==
  \A w \in Writer : putPc[w] \in {"verify", "remove", "rename"} => part = Resuming!Whole

RemovesOverSftp == \A w \in Writer : putPc[w] = "remove" => backend = "sftp"

FileInv == /\ FileTyped /\ PartIsPrefix /\ ObjectIsWhole /\ HeldWhileCopied /\ ResumesWithin
        /\ ReadIsThere /\ WholeOnceRead /\ RemovesOverSftp
-----------------------------------------------------------------------------
\* A prefix has its length, and is not the absent file.
LEMMA PrefixFacts ==
  ASSUME NEW k \in 0..N
  PROVE  Len(Prefix(k)) = k /\ Prefix(k) # Resuming!Absent
<1>1. Len(Prefix(k)) = k
  BY ReliableAssumption DEF Prefix
<1>2. Prefix(k) # Resuming!Absent
  <2>1. CASE k = 0
    BY <1>1, <2>1 DEF Resuming!Absent
  <2>2. CASE k # 0
    <3>1. Prefix(k)[1] = 1 /\ Resuming!Absent[1] = -1
      BY <2>2, ReliableAssumption DEF Prefix, Resuming!Absent
    <3> QED
      BY <3>1
  <2> QED
    BY <2>1, <2>2
<1> QED
  BY <1>1, <1>2

\* The prefixes range from nothing to all of the bundle.
LEMMA FirstAndLast == Prefix(0) = <<>> /\ Prefix(N) = Resuming!Whole
BY DEF Prefix, Resuming!Whole

\* A prefix cut is a prefix.
LEMMA CutPrefix ==
  ASSUME NEW k \in 0..N, NEW n \in 0..k
  PROVE  Resuming!Cut(Prefix(k), n) = Prefix(n)
<1>1. Len(Prefix(k)) = k
  BY PrefixFacts
<1>2. \A i \in 1..n : i <= Len(Prefix(k)) /\ Prefix(k)[i] = i
  BY <1>1, ReliableAssumption DEF Prefix
<1> QED
  BY <1>2 DEF Resuming!Cut, Prefix

\* A chunk written over itself, or at the end, leaves a prefix.
LEMMA WritePrefix ==
  ASSUME NEW k \in 0..N, NEW i \in 0..k, i < N
  PROVE  Resuming!WriteAt(Prefix(k), i, i + 1) = Prefix(IF i < k THEN k ELSE k + 1)
<1>1. Len(Prefix(k)) = k
  BY PrefixFacts
<1>2. \A j \in 1..k : Prefix(k)[j] = j
  BY ReliableAssumption DEF Prefix
<1>3. CASE i < k
  BY <1>1, <1>2, <1>3, ReliableAssumption DEF Resuming!WriteAt, Prefix
<1>4. CASE i = k
  <2>1. Resuming!WriteAt(Prefix(k), i, i + 1)
          = [j \in 1..(k + 1) |-> IF j = i + 1 THEN i + 1
                                  ELSE IF j <= k THEN Prefix(k)[j] ELSE 0]
    BY <1>1, <1>4, ReliableAssumption DEF Resuming!WriteAt
  <2>2. \A j \in 1..(k + 1) : (IF j = i + 1 THEN i + 1
                               ELSE IF j <= k THEN Prefix(k)[j] ELSE 0) = j
    BY <1>2, <1>4, ReliableAssumption
  <2> QED
    BY <2>1, <2>2, <1>4 DEF Prefix
<1> QED
  BY <1>3, <1>4, ReliableAssumption

\* Nothing is there at the start.
LEMMA FileStarts == Resuming!Init => FileInv
<1> SUFFICES ASSUME Resuming!Init PROVE FileInv
  OBVIOUS
<1> USE ReliableAssumption DEF Resuming!Init
<1>1. FileTyped
  BY DEF FileTyped, Resuming!NoMark, Resuming!Mark, Resuming!Hashed
<1>2. PartIsPrefix /\ ObjectIsWhole
  BY DEF PartIsPrefix, ObjectIsWhole
<1>3. HeldWhileCopied /\ ResumesWithin /\ ReadIsThere /\ WholeOnceRead /\ RemovesOverSftp
  BY DEF HeldWhileCopied, ResumesWithin, ReadIsThere, WholeOnceRead, RemovesOverSftp
<1> QED
  BY <1>1, <1>2, <1>3 DEF FileInv

\* A call begins, by what the record says.
LEMMA BeginKeeps ==
  ASSUME FileInv, OneWriter, NEW w \in Writer, UNCHANGED backend, Resuming!Begin(w)
  PROVE  FileInv'
<1> USE ReliableAssumption
        DEF OneWriter, FileInv, Resuming!At, Resuming!Goto, Resuming!files, Resuming!writer,
            Resuming!Begin
<1>1. FileTyped'
  BY DEF FileTyped, Resuming!Mark, Resuming!Hashed, Resuming!NoMark
<1>2. PartIsPrefix' /\ ObjectIsWhole'
  BY DEF PartIsPrefix, ObjectIsWhole
<1>3. HeldWhileCopied' /\ ResumesWithin' /\ ReadIsThere'
      /\ WholeOnceRead' /\ RemovesOverSftp'
  BY DEF FileTyped, HeldWhileCopied, ResumesWithin, ReadIsThere, WholeOnceRead, RemovesOverSftp
<1> QED
  BY <1>1, <1>2, <1>3 DEF FileInv

\* The upload resumes no further than the file goes.
LEMMA StatKeeps ==
  ASSUME FileInv, OneWriter, NEW w \in Writer, UNCHANGED backend, Resuming!Stat(w)
  PROVE  FileInv'
<1> USE ReliableAssumption
        DEF OneWriter, FileInv, Resuming!At, Resuming!Goto, Resuming!files, Resuming!writer,
            Resuming!Stat, Resuming!Size
<1>1. opts[w].offset \in 0..N
  BY DEF FileTyped, Resuming!Mark
<1>2. FileTyped'
  BY DEF FileTyped, Resuming!Mark, Resuming!Hashed, Resuming!NoMark
<1>3. PartIsPrefix' /\ ObjectIsWhole'
  BY DEF PartIsPrefix, ObjectIsWhole
<1>4. HeldWhileCopied' /\ ReadIsThere' /\ WholeOnceRead' /\ RemovesOverSftp'
  BY DEF FileTyped, HeldWhileCopied, ReadIsThere, WholeOnceRead, RemovesOverSftp
<1>5. ResumesWithin'
  <2>1. CASE part = Resuming!Absent
    BY <1>1, <2>1 DEF ResumesWithin, FileTyped
  <2>2. CASE part # Resuming!Absent
    <3>1. Len(part) \in 0..N
      BY <2>2, PrefixFacts DEF PartIsPrefix
    <3> QED
      BY <1>1, <2>2, <3>1 DEF ResumesWithin, FileTyped
  <2> QED
    BY <2>1, <2>2
<1> QED
  BY <1>2, <1>3, <1>4, <1>5 DEF FileInv

\* A file cut, or kept, where the upload resumes is a prefix that covers what it skips.
LEMMA OpenKeeps ==
  ASSUME FileInv, OneWriter, NEW w \in Writer, UNCHANGED backend, Resuming!Open(w)
  PROVE  FileInv'
<1> USE ReliableAssumption
        DEF OneWriter, FileInv, Resuming!At, Resuming!Goto, Resuming!files, Resuming!writer,
            Resuming!Open
<1>1. opts[w].state \in Resuming!Hashed /\ from[w] \in 0..N
  BY DEF FileTyped, Resuming!Mark
<1>2. FileTyped'
  <2>1. <<>> \in Resuming!Hashed
    BY DEF Resuming!Hashed
  <2>2. hash' \in [Writer -> Resuming!Hashed]
    BY <1>1, <2>1 DEF FileTyped
  <2> QED
    BY <1>1, <2>2 DEF FileTyped
<1>3. ObjectIsWhole'
  BY DEF ObjectIsWhole
<1>4. PartIsPrefix'
  <2>1. CASE from[w] = 0
    BY <2>1, FirstAndLast DEF PartIsPrefix
  <2>2. CASE from[w] > 0
    <3>1. PICK k \in 0..N : part = Prefix(k) /\ from[w] \in 0..k
      BY <1>1, <2>2, PrefixFacts DEF PartIsPrefix, ResumesWithin
    <3>2. Resuming!Cut(part, from[w]) = Prefix(from[w])
      BY <3>1, CutPrefix
    <3> QED
      BY <1>1, <2>2, <3>1, <3>2 DEF PartIsPrefix
  <2> QED
    BY <1>1, <2>1, <2>2
<1>5. HeldWhileCopied' /\ ResumesWithin' /\ WholeOnceRead' /\ RemovesOverSftp'
  BY DEF FileTyped, HeldWhileCopied, ResumesWithin, WholeOnceRead, RemovesOverSftp
<1>6. ReadIsThere'
  <2>1. pos'[w] = from[w]
    BY DEF FileTyped
  <2>2. CASE from[w] = 0
    <3>1. part' = Prefix(0)
      BY <2>2, FirstAndLast
    <3> QED
      BY <2>1, <2>2, <3>1 DEF ReadIsThere
  <2>3. CASE from[w] > 0
    <3>1. PICK k \in 0..N : part = Prefix(k) /\ from[w] \in 0..k
      BY <1>1, <2>3, PrefixFacts DEF PartIsPrefix, ResumesWithin
    <3>2. Resuming!Cut(part, from[w]) = Prefix(from[w])
      BY <3>1, CutPrefix
    <3>3. part' = IF backend = "disk" THEN Prefix(from[w]) ELSE Prefix(k)
      BY <2>3, <3>1, <3>2
    <3> QED
      BY <1>1, <2>1, <3>1, <3>3 DEF ReadIsThere
  <2> QED
    BY <1>1, <2>2, <2>3
<1> QED
  BY <1>2, <1>3, <1>4, <1>5, <1>6 DEF FileInv

\* A file that is gone is begun again, or the call is.
LEMMA OpenGoneKeeps ==
  ASSUME FileInv, OneWriter, NEW w \in Writer, UNCHANGED backend, Resuming!OpenGone(w)
  PROVE  FileInv'
<1> USE ReliableAssumption
        DEF OneWriter, FileInv, Resuming!At, Resuming!Goto, Resuming!files, Resuming!writer,
            Resuming!OpenGone, Resuming!GiveUpOrRetry
<1>1. FileTyped'
  BY DEF FileTyped, Resuming!Mark, Resuming!Hashed, Resuming!NoMark
<1>2. PartIsPrefix' /\ ObjectIsWhole'
  BY DEF PartIsPrefix, ObjectIsWhole
<1>3. HeldWhileCopied' /\ ResumesWithin' /\ ReadIsThere'
      /\ WholeOnceRead' /\ RemovesOverSftp'
  BY DEF FileTyped, HeldWhileCopied, ResumesWithin, ReadIsThere, WholeOnceRead, RemovesOverSftp
<1> QED
  BY <1>1, <1>2, <1>3 DEF FileInv

\* A chunk lands at the end of the file, or on itself.
LEMMA CopyKeeps ==
  ASSUME FileInv, OneWriter, NEW w \in Writer, UNCHANGED backend, Resuming!Copy(w)
  PROVE  FileInv'
<1> USE ReliableAssumption
        DEF OneWriter, FileInv, Resuming!At, Resuming!Goto, Resuming!files, Resuming!writer,
            Resuming!Copy, Resuming!WriteChunk, Resuming!Written
<1>1. PICK k \in pos[w]..N : part = Prefix(k) /\ (backend = "disk" => k = pos[w])
  BY DEF ReadIsThere
<1>2. pos[w] \in 0..N /\ k \in 0..N /\ pos[w] < N /\ Len(part) = k
  BY <1>1, PrefixFacts DEF FileTyped
<1>3. part' = Prefix(IF pos[w] < k THEN k ELSE k + 1)
  <2>1. part' = Resuming!WriteAt(part, pos[w], pos[w] + 1)
    BY <1>1, <1>2 DEF HeldWhileCopied, FileTyped
  <2> QED
    BY <2>1, <1>1, <1>2, WritePrefix
<1>4. FileTyped'
  BY DEF FileTyped, Resuming!Mark, Resuming!Hashed, Resuming!NoMark
<1>5. ObjectIsWhole'
  BY DEF ObjectIsWhole, FileTyped, HeldWhileCopied
<1>6. PartIsPrefix'
  BY <1>2, <1>3 DEF PartIsPrefix
<1>7. HeldWhileCopied' /\ ResumesWithin' /\ WholeOnceRead' /\ RemovesOverSftp'
  BY DEF FileTyped, HeldWhileCopied, ResumesWithin, WholeOnceRead, RemovesOverSftp
<1>8. ReadIsThere'
  <2>1. pos'[w] = pos[w] + 1
    BY DEF FileTyped
  <2> QED
    BY <1>1, <1>2, <1>3, <2>1 DEF ReadIsThere
<1> QED
  BY <1>4, <1>5, <1>6, <1>7, <1>8 DEF FileInv

\* When everything is read the file is the whole bundle.
LEMMA CloseKeeps ==
  ASSUME FileInv, OneWriter, NEW w \in Writer, UNCHANGED backend, Resuming!Close(w)
  PROVE  FileInv'
<1> USE ReliableAssumption
        DEF OneWriter, FileInv, Resuming!At, Resuming!Goto, Resuming!files, Resuming!writer,
            Resuming!Close
<1>1. part = Resuming!Whole
  BY FirstAndLast DEF ReadIsThere, FileTyped
<1>2. FileTyped'
  BY DEF FileTyped, Resuming!Mark, Resuming!Hashed, Resuming!NoMark
<1>3. PartIsPrefix' /\ ObjectIsWhole'
  BY DEF PartIsPrefix, ObjectIsWhole
<1>4. HeldWhileCopied' /\ ResumesWithin' /\ ReadIsThere' /\ RemovesOverSftp'
  BY DEF FileTyped, HeldWhileCopied, ResumesWithin, ReadIsThere, RemovesOverSftp
<1>5. WholeOnceRead'
  BY <1>1 DEF WholeOnceRead, FileTyped
<1> QED
  BY <1>2, <1>3, <1>4, <1>5 DEF FileInv

\* What is verified goes on as it is, or goes.
LEMMA VerifyKeeps ==
  ASSUME FileInv, OneWriter, NEW w \in Writer, UNCHANGED backend, Resuming!Verify(w)
  PROVE  FileInv'
<1> USE ReliableAssumption
        DEF OneWriter, FileInv, Resuming!At, Resuming!Goto, Resuming!files, Resuming!writer,
            Resuming!Verify, Resuming!Follow
<1>1. FileTyped'
  BY DEF FileTyped, Resuming!Mark, Resuming!Hashed, Resuming!NoMark
<1>2. PartIsPrefix' /\ ObjectIsWhole'
  BY DEF PartIsPrefix, ObjectIsWhole
<1>3. HeldWhileCopied' /\ ResumesWithin' /\ ReadIsThere'
      /\ WholeOnceRead' /\ RemovesOverSftp'
  BY DEF FileTyped, HeldWhileCopied, ResumesWithin, ReadIsThere, WholeOnceRead, RemovesOverSftp
<1> QED
  BY <1>1, <1>2, <1>3 DEF FileInv

\* The old object goes, over SFTP.
LEMMA RemoveKeeps ==
  ASSUME FileInv, OneWriter, NEW w \in Writer, UNCHANGED backend, Resuming!Remove(w)
  PROVE  FileInv'
<1> USE ReliableAssumption
        DEF OneWriter, FileInv, Resuming!At, Resuming!Goto, Resuming!files, Resuming!writer,
            Resuming!Remove, Resuming!Follow
<1>1. FileTyped'
  BY DEF FileTyped, Resuming!Mark, Resuming!Hashed, Resuming!NoMark
<1>2. PartIsPrefix' /\ ObjectIsWhole'
  BY DEF PartIsPrefix, ObjectIsWhole
<1>3. HeldWhileCopied' /\ ResumesWithin' /\ ReadIsThere'
      /\ WholeOnceRead' /\ RemovesOverSftp'
  BY DEF FileTyped, HeldWhileCopied, ResumesWithin, ReadIsThere, WholeOnceRead, RemovesOverSftp
<1> QED
  BY <1>1, <1>2, <1>3 DEF FileInv

\* The whole bundle becomes the object.
LEMMA RenameKeeps ==
  ASSUME FileInv, OneWriter, NEW w \in Writer, UNCHANGED backend, Resuming!Rename(w)
  PROVE  FileInv'
<1> USE ReliableAssumption
        DEF OneWriter, FileInv, Resuming!At, Resuming!Goto, Resuming!files, Resuming!writer,
            Resuming!Rename, Resuming!Follow, Resuming!GiveUpOrRetry
<1>1. FileTyped'
  <2>1. rec' \in Resuming!Mark
    BY DEF FileTyped
  <2> QED
    BY <2>1 DEF FileTyped
<1>2. PartIsPrefix' /\ ObjectIsWhole'
  BY DEF PartIsPrefix, ObjectIsWhole, WholeOnceRead
<1>3. HeldWhileCopied' /\ ResumesWithin' /\ ReadIsThere'
      /\ WholeOnceRead' /\ RemovesOverSftp'
  BY DEF FileTyped, HeldWhileCopied, ResumesWithin, ReadIsThere, WholeOnceRead, RemovesOverSftp
<1> QED
  BY <1>1, <1>2, <1>3 DEF FileInv

\* A dropped chunk landed where it should have, or nowhere.
LEMMA DropKeeps ==
  ASSUME FileInv, OneWriter, NEW w \in Writer, UNCHANGED backend, Resuming!Drop(w)
  PROVE  FileInv'
<1> USE ReliableAssumption
        DEF OneWriter, FileInv, Resuming!At, Resuming!Goto, Resuming!files, Resuming!writer,
            Resuming!Drop, Resuming!WriteChunk, Resuming!Written, Resuming!GiveUpOrRetry
<1>1. FileTyped'
  BY DEF FileTyped, Resuming!Mark, Resuming!Hashed, Resuming!NoMark
<1>2. ObjectIsWhole'
  BY DEF ObjectIsWhole, FileTyped, HeldWhileCopied
<1>3. PartIsPrefix'
  <2>1. CASE UNCHANGED part
    BY <2>1 DEF PartIsPrefix
  <2>2. CASE Resuming!At(w, "copy") /\ pos[w] < N /\ Resuming!WriteChunk(w)
    <3>1. PICK k \in pos[w]..N : part = Prefix(k) /\ (backend = "disk" => k = pos[w])
      BY <2>2 DEF ReadIsThere
    <3>2. pos[w] \in 0..N /\ k \in 0..N /\ pos[w] < N /\ Len(part) = k
      BY <2>2, <3>1, PrefixFacts DEF FileTyped
    <3>3. part' = Resuming!WriteAt(part, pos[w], pos[w] + 1)
      BY <2>2, <3>1, <3>2 DEF HeldWhileCopied, FileTyped
    <3>4. part' = Prefix(IF pos[w] < k THEN k ELSE k + 1)
      BY <3>1, <3>2, <3>3, WritePrefix
    <3> QED
      BY <3>2, <3>4 DEF PartIsPrefix
  <2> QED
    BY <2>1, <2>2
<1>4. HeldWhileCopied' /\ ResumesWithin' /\ ReadIsThere'
      /\ WholeOnceRead' /\ RemovesOverSftp'
  BY DEF FileTyped, HeldWhileCopied, ResumesWithin, ReadIsThere, WholeOnceRead, RemovesOverSftp
<1> QED
  BY <1>1, <1>2, <1>3, <1>4 DEF FileInv

\* A finished upload is left to another call.
LEMMA SidecarFailsKeeps ==
  ASSUME FileInv, OneWriter, NEW w \in Writer, UNCHANGED backend, Resuming!SidecarFails(w)
  PROVE  FileInv'
<1> USE ReliableAssumption
        DEF OneWriter, FileInv, Resuming!At, Resuming!Goto, Resuming!files, Resuming!writer,
            Resuming!SidecarFails
<1>1. FileTyped'
  BY DEF FileTyped, Resuming!Mark, Resuming!Hashed, Resuming!NoMark
<1>2. PartIsPrefix' /\ ObjectIsWhole'
  BY DEF PartIsPrefix, ObjectIsWhole
<1>3. HeldWhileCopied' /\ ResumesWithin' /\ ReadIsThere'
      /\ WholeOnceRead' /\ RemovesOverSftp'
  BY DEF FileTyped, HeldWhileCopied, ResumesWithin, ReadIsThere, WholeOnceRead, RemovesOverSftp
<1> QED
  BY <1>1, <1>2, <1>3 DEF FileInv

\* A crash that loses the tail of the file leaves a prefix.
LEMMA CrashKeeps ==
  ASSUME FileInv, Resuming!Crash, UNCHANGED backend
  PROVE  FileInv'
<1> USE ReliableAssumption DEF FileInv, Resuming!Crash
<1>1. FileTyped'
  BY DEF FileTyped
<1>2. PartIsPrefix'
  <2>1. CASE UNCHANGED part
    BY <2>1 DEF PartIsPrefix
  <2>2. ASSUME part # Resuming!Absent, NEW n \in 0..Len(part), part' = Resuming!Cut(part, n)
        PROVE  PartIsPrefix'
    <3>1. PICK k \in 0..N : part = Prefix(k) /\ Len(part) = k
      BY <2>2, PrefixFacts DEF PartIsPrefix
    <3>2. part' = Prefix(n)
      BY <2>2, <3>1, CutPrefix
    <3> QED
      BY <3>1, <3>2 DEF PartIsPrefix
  <2> QED
    BY <2>1, <2>2
<1>3. ObjectIsWhole' /\ HeldWhileCopied' /\ ResumesWithin' /\ ReadIsThere' /\ WholeOnceRead'
      /\ RemovesOverSftp'
  BY DEF FileTyped, ObjectIsWhole, HeldWhileCopied, ResumesWithin, ReadIsThere, WholeOnceRead,
         RemovesOverSftp
<1> QED
  BY <1>1, <1>2, <1>3 DEF FileInv

LEMMA FileKeeps == OneWriter /\ FileInv /\ [Resuming!Next]_(Resuming!vars) => FileInv'
<1> SUFFICES ASSUME OneWriter, FileInv, [Resuming!Next]_(Resuming!vars) PROVE FileInv'
  OBVIOUS
<1>1. ASSUME NEW w \in Writer, Resuming!Step(w) PROVE FileInv'
  BY <1>1, BeginKeeps, StatKeeps, OpenKeeps, OpenGoneKeeps, CopyKeeps, CloseKeeps, VerifyKeeps,
     RemoveKeeps, RenameKeeps DEF Resuming!Step
<1>2. CASE Resuming!Mischance /\ UNCHANGED backend
  BY <1>2, CrashKeeps, DropKeeps, SidecarFailsKeeps DEF Resuming!Mischance
<1>3. CASE UNCHANGED Resuming!vars
  BY <1>3
     DEF Resuming!vars, Resuming!files, Resuming!writer, FileInv, FileTyped, PartIsPrefix,
         ObjectIsWhole, HeldWhileCopied, ResumesWithin, ReadIsThere, WholeOnceRead,
         RemovesOverSftp
<1> QED
  BY <1>1, <1>2, <1>3 DEF Resuming!Next

\* The object changes by the rename, to the whole bundle, or by the removal that
\* comes before it over SFTP.
LEMMA ObjectChanges ==
  ASSUME OneWriter, FileInv, [Resuming!Next]_(Resuming!vars)
  PROVE  /\ UNCHANGED backend
         /\ \/ UNCHANGED object \/ object' = Resuming!Whole
            \/ backend = "sftp" /\ object' = Resuming!Absent
<1> USE DEF FileInv, Resuming!At, Resuming!Goto, Resuming!files, Resuming!writer
<1>1. ASSUME NEW w \in Writer, Resuming!Copy(w) \/ Resuming!Drop(w) PROVE UNCHANGED object
  BY <1>1 DEF Resuming!Copy, Resuming!Drop, Resuming!WriteChunk, FileTyped, HeldWhileCopied
<1>2. ASSUME NEW w \in Writer, Resuming!Rename(w)
      PROVE  UNCHANGED object \/ object' = Resuming!Whole
  BY <1>2 DEF Resuming!Rename, WholeOnceRead
<1>3. ASSUME NEW w \in Writer, Resuming!Remove(w)
      PROVE  backend = "sftp" /\ object' = Resuming!Absent
  BY <1>3 DEF Resuming!Remove, RemovesOverSftp
<1>4. ASSUME NEW w \in Writer,
             \/ Resuming!Begin(w) \/ Resuming!Stat(w) \/ Resuming!Open(w) \/ Resuming!OpenGone(w)
             \/ Resuming!Close(w) \/ Resuming!Verify(w) \/ Resuming!SidecarFails(w)
      PROVE  UNCHANGED object
  BY <1>4
     DEF Resuming!Begin, Resuming!Stat, Resuming!Open, Resuming!OpenGone, Resuming!Close,
         Resuming!Verify, Resuming!SidecarFails
<1>5. ASSUME Resuming!Crash \/ UNCHANGED Resuming!vars PROVE UNCHANGED object
  BY <1>5 DEF Resuming!Crash, Resuming!vars
<1>6. UNCHANGED backend
  BY DEF Resuming!Next, Resuming!Step, Resuming!vars
<1> QED
  BY <1>1, <1>2, <1>3, <1>4, <1>5, <1>6 DEF Resuming!Next, Resuming!Step, Resuming!Mischance

\* Every step is one of the upload that resumes, or leaves it alone.
LEMMA FileSteps == [Next]_vars => [Resuming!Next]_(Resuming!vars)
BY DEF Next, vars, fileVars, Resuming!vars, Resuming!files, Resuming!writer

\* Storing a bundle at an offset is atomic: under its key there is nothing, then all
\* of it (disk.go:171 to 175), for any number of chunks, attempts and mishaps, while
\* no other goroutine uploads to its key.
THEOREM FilesAreAtomic == ASSUME OneWriter PROVE Spec => FileIsAtomic
<1>1. Init => FileInv /\ Resuming!Atomic!Init
  <2>1. Init => Resuming!Init
    BY DEF Init
  <2> QED
    BY <2>1, FileStarts DEF Resuming!Init, Resuming!Atomic!Init, Resuming!stored
<1>2. FileInv /\ [Resuming!Next]_(Resuming!vars) => [Resuming!Atomic!Next]_(Resuming!Atomic!vars)
  <2> SUFFICES ASSUME FileInv, [Resuming!Next]_(Resuming!vars)
               PROVE  [Resuming!Atomic!Next]_(Resuming!Atomic!vars)
    OBVIOUS
  <2>1. Resuming!Whole # Resuming!Absent
    BY PrefixFacts, FirstAndLast, ReliableAssumption
  <2>2. CASE UNCHANGED <<object, backend>>
    BY <2>2 DEF Resuming!Atomic!vars, Resuming!stored
  <2>3. CASE object' = Resuming!Whole /\ UNCHANGED backend
    BY <2>1, <2>3 DEF Resuming!Atomic!Next, Resuming!Atomic!Store, Resuming!stored
  <2>4. CASE backend = "sftp" /\ object' = Resuming!Absent /\ UNCHANGED backend
    BY <2>4 DEF Resuming!Atomic!Next, Resuming!Atomic!Lose, Resuming!stored
  <2> QED
    BY <2>2, <2>3, <2>4, ObjectChanges
<1> QED
  BY <1>1, <1>2, FileSteps, FileKeeps, PTL
     DEF Spec, FileIsAtomic, Resuming!ImplementsAtomic, Resuming!Atomic!Spec
-----------------------------------------------------------------------------
(***************************************************************************)
(* An upload in parts.  While they are sent, what was hashed and what the  *)
(* attempt will name to the server are the same prefix of the bundle, as   *)
(* long as what has been read.  So when everything is read both are the    *)
(* whole bundle: the digest is right, and the server puts together all of  *)
(* it or, when the commit is lost, nothing.                                *)
(***************************************************************************)
\* TypeOK in two parts: the provers do arithmetic or Booleans, not both at once.
PartsShape ==
  /\ server \in {"s3", "azure"}
  /\ blob \in Seq(1..N) /\ parts \in Seq(1..N) /\ partHash \in Seq(1..N)
  /\ Len(partHash) <= N /\ Len(parts) <= N
  /\ held \in 0..Mishaps /\ read \in 0..N
  /\ partPc \in {"idle", "start", "single", "send", "cleanup", "stored", "rejected",
                 "discarded"}
  /\ partTries \in 0..Attempts /\ lost \in 0..Mishaps /\ partMishaps \in 0..Mishaps
PartsFlags == small \in BOOLEAN /\ open \in BOOLEAN /\ refused \in BOOLEAN

\* What an attempt has hashed and sent.
Sending == partPc = "send" => partHash = Prefix(read) /\ parts = Prefix(read)

\* A cleanup is prevented only by a mishap.
LostByMishap == lost <= partMishaps

Committed == blob \in {<<>>, Parting!Whole}

PartsInv ==
  /\ Parting!TypeOK /\ Sending /\ LostByMishap /\ Committed
  /\ Parting!AbortedOnGiveUp /\ Parting!IntactIsAccepted
-----------------------------------------------------------------------------
\* The prefixes of the bundle, from nothing to all of it.
LEMMA SentFacts ==
  ASSUME NEW n \in 0..N
  PROVE  /\ Prefix(n) \in Seq(1..N) /\ Len(Prefix(n)) = n
         /\ n < N => Append(Prefix(n), n + 1) = Prefix(n + 1)
         /\ Prefix(0) = <<>> /\ Prefix(N) = Parting!Whole /\ Parting!Whole # <<>>
<1>1. Prefix(n) \in Seq(1..N) /\ Len(Prefix(n)) = n
  BY ReliableAssumption DEF Prefix
<1>2. ASSUME n < N PROVE Append(Prefix(n), n + 1) = Prefix(n + 1)
  BY <1>2, ReliableAssumption DEF Prefix
<1>3. Prefix(0) = <<>>
  BY DEF Prefix
<1>4. Prefix(N) = Parting!Whole
  BY DEF Prefix, Parting!Whole
<1>5. Parting!Whole # <<>>
  BY ReliableAssumption DEF Parting!Whole
<1> QED
  BY <1>1, <1>2, <1>3, <1>4, <1>5

\* The flags are proved apart: the provers do not mix them with arithmetic.
LEMMA TypeInParts ==
  /\ Parting!TypeOK <=> PartsShape /\ PartsFlags
  /\ Parting!TypeOK' <=> PartsShape' /\ PartsFlags'
BY Zenon DEF Parting!TypeOK, PartsShape, PartsFlags

\* Nothing is sent, hashed or lost at the start.
LEMMA PartsStart == Parting!Init => PartsInv
<1> SUFFICES ASSUME Parting!Init PROVE PartsInv
  OBVIOUS
<1> USE ReliableAssumption DEF Parting!Init
<1>1. PartsShape
  BY DEF PartsShape
<1>2. PartsFlags
  BY Zenon DEF PartsFlags
<1>3. /\ Sending /\ LostByMishap /\ Committed
      /\ Parting!AbortedOnGiveUp /\ Parting!IntactIsAccepted
  BY DEF Sending, LostByMishap, Committed, Parting!AbortedOnGiveUp, Parting!IntactIsAccepted
<1> QED
  BY <1>1, <1>2, <1>3, TypeInParts DEF PartsInv

\* Once everything is read, what is put together is the whole bundle.
LEMMA AllRead ==
  ASSUME PartsInv, partPc = "send", read = N
  PROVE  partHash = Parting!Whole /\ parts = Parting!Whole
BY SentFacts, ReliableAssumption DEF PartsInv, Sending, Parting!TypeOK

\* A step sets a flag or keeps it.
LEMMA FlagsKept == PartsFlags /\ [Parting!Next]_(Parting!vars) => PartsFlags'
<1> SUFFICES ASSUME PartsFlags, [Parting!Next]_(Parting!vars) PROVE PartsFlags'
  OBVIOUS
<1>1. CASE Parting!Next
  <2>1. /\ UNCHANGED small /\ open' \in {open, TRUE, FALSE}
        /\ refused' \in {refused, TRUE, FALSE}
    BY <1>1
       DEF Parting!Next, Parting!Step, Parting!Begin, Parting!Start, Parting!Single,
           Parting!Send, Parting!Complete, Parting!Cleanup, Parting!DropStart,
           Parting!DropSingle, Parting!DropSend, Parting!DropComplete, Parting!SidecarFails,
           Parting!Crash, Parting!Discard, Parting!Commit, Parting!Abandon, Parting!Forget,
           Parting!config, Parting!server, Parting!attempt
  <2> QED
    BY <2>1, Zenon DEF PartsFlags
<1>2. CASE UNCHANGED Parting!vars
  BY <1>2, Zenon DEF PartsFlags, Parting!vars, Parting!config, Parting!server, Parting!attempt
<1> QED
  BY <1>1, <1>2

\* Each step keeps the invariant.
LEMMA PartsKeep == PartsInv /\ [Parting!Next]_(Parting!vars) => PartsInv'
<1> SUFFICES ASSUME PartsInv, [Parting!Next]_(Parting!vars) PROVE PartsInv'
  OBVIOUS
<1>0. /\ PartsFlags' /\ PartsShape /\ Sending /\ LostByMishap /\ Committed
      /\ Parting!AbortedOnGiveUp /\ Parting!IntactIsAccepted
  BY FlagsKept, TypeInParts DEF PartsInv
<1> DEFINE Kept == /\ PartsShape' /\ Sending' /\ LostByMishap' /\ Committed'
                   /\ Parting!AbortedOnGiveUp' /\ Parting!IntactIsAccepted'
<1> SUFFICES Kept
  BY <1>0, TypeInParts DEF PartsInv
<1> USE <1>0, ReliableAssumption
        DEF PartsShape, Sending, LostByMishap, Committed, Parting!AbortedOnGiveUp,
            Parting!IntactIsAccepted
<1>1. CASE Parting!Begin /\ UNCHANGED Parting!config
  BY <1>1 DEF Parting!Begin, Parting!Goto, Parting!config, Parting!server, Parting!attempt
<1>2. CASE Parting!Start /\ UNCHANGED Parting!config
  <2>1. 0 \in 0..N /\ Prefix(0) = <<>>
    BY SentFacts, SMTT(30)
  <2> QED
    BY <1>2, <2>1 DEF Parting!Start, Parting!config
<1>3. CASE Parting!Single /\ UNCHANGED Parting!config
  <2>1. Parting!Whole \in Seq(1..N)
    BY SentFacts
  <2> QED
    BY <1>3, <2>1 DEF Parting!Single, Parting!Goto, Parting!config, Parting!attempt
<1>4. CASE Parting!Send /\ UNCHANGED Parting!config
  <2>1. read < N /\ partHash = Prefix(read) /\ parts = Prefix(read)
    BY <1>4 DEF Parting!Send, Parting!ReadPart
  <2>2. read' = read + 1 /\ read' \in 0..N
    BY <1>4, <2>1 DEF Parting!Send, Parting!ReadPart
  <2>3. Append(Prefix(read), read + 1) = Prefix(read + 1)
    BY <2>1, SentFacts
  <2>4. partHash' = Prefix(read') /\ parts' = Prefix(read')
    BY <1>4, <2>1, <2>2, <2>3 DEF Parting!Send, Parting!ReadPart
  <2>5. partHash' \in Seq(1..N) /\ Len(partHash') <= N
    BY <2>2, <2>4, SentFacts
  <2> QED
    BY <1>4, <2>2, <2>4, <2>5 DEF Parting!Send, Parting!config, Parting!server
<1>5. CASE Parting!Complete /\ UNCHANGED Parting!config
  BY <1>5, AllRead DEF Parting!Complete, Parting!Commit, Parting!config
<1>6. CASE Parting!Cleanup /\ UNCHANGED Parting!config
  <2>1. /\ partPc' \in {"rejected", "start", "idle"} /\ partTries' \in 0..Attempts
        /\ UNCHANGED <<server, read, partHash, parts, refused>>
    BY <1>6 DEF Parting!Cleanup, Parting!Return, Parting!config, Parting!attempt
  <2>2. CASE Parting!Abandon /\ UNCHANGED <<held, lost, partMishaps>>
    <3>1. blob' \in {<<>>, blob}
      BY <2>2 DEF Parting!Abandon
    <3>2. CASE blob' = blob
      BY <2>1, <2>2, <3>2
    <3>3. CASE blob' = <<>>
      BY <2>1, <2>2, <3>3
    <3> QED
      BY <3>1, <3>2, <3>3
  <2>3. CASE /\ Parting!Mishap /\ lost' = lost + 1 /\ UNCHANGED blob
             /\ IF server = "s3" THEN Parting!Forget ELSE UNCHANGED <<held, open>>
    <3>1. held' \in {held, held + 1}
      BY <2>3 DEF Parting!Forget
    <3> QED
      BY <2>1, <2>3, <3>1 DEF Parting!Mishap
  <2> QED
    BY <1>6, <2>2, <2>3 DEF Parting!Cleanup
<1>7. CASE Parting!DropStart /\ UNCHANGED Parting!config
  BY <1>7 DEF Parting!DropStart, Parting!Return, Parting!Mishap, Parting!config, Parting!server
<1>8. CASE Parting!DropSingle /\ UNCHANGED Parting!config
  <2>1. Parting!Whole \in Seq(1..N)
    BY SentFacts
  <2> QED
    BY <1>8, <2>1
       DEF Parting!DropSingle, Parting!Return, Parting!Mishap, Parting!config, Parting!attempt
<1>9. CASE Parting!DropSend /\ UNCHANGED Parting!config
  <2>1. read < N /\ partHash = Prefix(read)
    BY <1>9 DEF Parting!DropSend, Parting!Goto, Parting!ReadPart
  <2>2. read' = read + 1 /\ read' \in 0..N
    BY <1>9, <2>1 DEF Parting!DropSend, Parting!ReadPart
  <2>3. partHash' = Prefix(read')
    BY <1>9, <2>1, <2>2, SentFacts DEF Parting!DropSend, Parting!ReadPart
  <2>4. partHash' \in Seq(1..N) /\ Len(partHash') <= N
    BY <2>2, <2>3, SentFacts
  <2> QED
    BY <1>9, <2>2, <2>4
       DEF Parting!DropSend, Parting!Goto, Parting!Mishap, Parting!config, Parting!server
<1>10. CASE Parting!DropComplete /\ UNCHANGED Parting!config
  BY <1>10, AllRead
     DEF Parting!DropComplete, Parting!Goto, Parting!Commit, Parting!Mishap, Parting!config,
         Parting!attempt
<1>11. CASE Parting!SidecarFails /\ UNCHANGED Parting!config
  BY <1>11
     DEF Parting!SidecarFails, Parting!Goto, Parting!Mishap, Parting!config, Parting!server,
         Parting!attempt
<1>12. CASE Parting!Crash /\ UNCHANGED Parting!config
  BY <1>12 DEF Parting!Crash, Parting!Forget, Parting!Mishap, Parting!config, Parting!attempt
<1>13. CASE Parting!Discard /\ UNCHANGED Parting!config
  BY <1>13 DEF Parting!Discard, Parting!Goto, Parting!config, Parting!server, Parting!attempt
<1>14. CASE UNCHANGED Parting!vars
  BY <1>14 DEF Parting!vars, Parting!config, Parting!server, Parting!attempt
<1> QED
  BY <1>1, <1>2, <1>3, <1>4, <1>5, <1>6, <1>7, <1>8, <1>9, <1>10, <1>11,
     <1>12, <1>13, <1>14 DEF Parting!Next, Parting!Step

\* Every step is one of the upload in parts, or leaves it alone.
LEMMA PartsSteps == [Next]_vars => [Parting!Next]_(Parting!vars)
BY DEF Next, vars, partVars, Parting!vars, Parting!config, Parting!server, Parting!attempt

LEMMA PartsHold == Spec => []PartsInv
<1>1. Init => PartsInv
  <2>1. Init => Parting!Init
    BY DEF Init
  <2> QED
    BY <2>1, PartsStart
<1> QED
  BY <1>1, PartsSteps, PartsKeep, PTL DEF Spec

\* The variables keep their types: no upload has more parts than the bundle.
THEOREM PartsTypes == Spec => []Parting!TypeOK
<1>1. PartsInv => Parting!TypeOK
  BY DEF PartsInv
<1> QED
  BY <1>1, PartsHold, PTL

\* s3.go:458 and reliable.go:100: an upload that gives up is aborted unless a
\* mishap prevents it, and no attempt finds the digest of an intact bundle wrong,
\* for any number of parts, attempts and mishaps.
THEOREM UploadsAreAborted == Spec => [](AbortedOnGiveUp /\ Parting!IntactIsAccepted)
<1>1. PartsInv => AbortedOnGiveUp /\ Parting!IntactIsAccepted
  BY DEF PartsInv, AbortedOnGiveUp
<1> QED
  BY <1>1, PartsHold, PTL

\* Nothing is stored at the start.
LEMMA InitRefines == Parting!Init => Parting!Atomic!Init
BY ReliableAssumption DEF Parting!Init, Parting!Atomic!Init, Parting!stored

\* A commit puts the whole bundle, and every other step leaves the object alone or loses
\* it as the abstract put may.
LEMMA NextRefines ==
  ASSUME PartsInv, [Parting!Next]_(Parting!vars)
  PROVE  [Parting!Atomic!Next]_(Parting!Atomic!vars)
<1>1. Parting!Whole # <<>> /\ (blob = <<>> \/ blob = Parting!Whole)
  BY SentFacts, ReliableAssumption DEF PartsInv, Committed
<1>2. server' = server
  BY DEF Parting!Next, Parting!vars, Parting!config
<1>3. \/ blob' = blob \/ blob' = Parting!Whole
      \/ server = "azure" /\ blob' = <<>>
  <2>1. CASE Parting!Complete \/ Parting!DropComplete
    BY <2>1, AllRead DEF Parting!Complete, Parting!DropComplete, Parting!Goto, Parting!Commit
  <2>2. CASE Parting!Cleanup
    BY <2>2 DEF Parting!Cleanup, Parting!Abandon
  <2>3. CASE Parting!Single \/ Parting!DropSingle
    BY <2>3 DEF Parting!Single, Parting!DropSingle
  <2>4. CASE \/ Parting!Begin \/ Parting!Start \/ Parting!Send \/ Parting!DropStart
             \/ Parting!DropSend \/ Parting!SidecarFails \/ Parting!Crash \/ Parting!Discard
    BY <2>4
       DEF Parting!Begin, Parting!Start, Parting!Send, Parting!DropStart, Parting!DropSend,
           Parting!SidecarFails, Parting!Crash, Parting!Discard, Parting!server
  <2>5. CASE UNCHANGED Parting!vars
    BY <2>5 DEF Parting!vars, Parting!server
  <2> QED
    BY <2>1, <2>2, <2>3, <2>4, <2>5 DEF Parting!Next, Parting!Step
<1>4. \/ Parting!stored' = Parting!stored \/ Parting!stored' = "whole"
      \/ server # "s3" /\ Parting!stored' = "none"
  BY <1>1, <1>3 DEF Parting!stored, Parting!Whole
<1> QED
  BY <1>2, <1>4
     DEF Parting!Atomic!Next, Parting!Atomic!Store, Parting!Atomic!Lose, Parting!Atomic!vars

\* Storing a bundle in parts is atomic (s3.go, azure.go): nothing or the whole bundle
\* is under the key, and on S3 a bundle that is stored stays, for any number of
\* parts, attempts and mishaps.
THEOREM UploadsAreAtomic == Spec => ImplementsAtomic
<1>1. Init => Parting!Atomic!Init
  <2>1. Init => Parting!Init
    BY DEF Init
  <2> QED
    BY <2>1, InitRefines
<1> QED
  BY <1>1, PartsSteps, NextRefines, PartsHold, PTL
     DEF Spec, ImplementsAtomic, Parting!ImplementsAtomic, Parting!Atomic!Spec
=============================================================================
