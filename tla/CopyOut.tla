------------------------------- MODULE CopyOut -------------------------------
(***************************************************************************)
(* Collecting a directory out of an execution context: FetchDir.           *)
(*                                                                         *)
(* A pod has no tar, so a shell loop sends each file as a header with its  *)
(* length and then its bytes.  The Docker engine sends a tar, and a host   *)
(* is read file by file.  The transport is a stream of pieces: a header,   *)
(* or a byte of a file.  It may break off anywhere, and a cat in the pod   *)
(* may fail halfway, which the loop around it does not notice unless it    *)
(* was the last.                                                           *)
(***************************************************************************)
EXTENDS Naturals, Sequences, FiniteSets, SequencesExt

CONSTANTS
  File,       \* the names an export may hold
  MaxSize,    \* bound: the bytes of a file
  MaxFaults   \* bound: cats that fail, streams that break, sinks that fail

VARIABLES
  transport,  \* "framed", "tar" or "files"
  size,       \* size[f]: the directory, while it is read
  left,       \* the files the far side has yet to send
  stream,     \* what it sent and the near side has not read
  ended,      \* how the far side ended: "open", "clean", "exit", "dropped"
  reading,    \* the file whose body is being handed to the sink, and what it got
  sunk,       \* sunk[f]: what the sink was given whole
  result,     \* "open", "done", "fatal", "retry", or "raw": an error as it came
  failed,     \* the files whose cat failed in a pod
  faults

vars == <<transport, size, left, stream, ended, reading, sunk, result, failed, faults>>

Header(f) == [file |-> f, byte |-> 0]
Byte(f, i) == [file |-> f, byte |-> i]
Bytes(f, n) == [i \in 1..n |-> Byte(f, i)]
NotReading == [file |-> "none", got |-> <<>>]

TypeOK ==
  /\ transport \in {"framed", "tar", "files"}
  /\ DOMAIN size \subseteq File /\ left \subseteq DOMAIN size
  /\ ended \in {"open", "clean", "exit", "dropped"}
  /\ reading.file \in File \cup {"none"} /\ DOMAIN sunk \subseteq File
  /\ result \in {"open", "done", "fatal", "retry", "raw"} /\ failed \subseteq DOMAIN size /\ faults \in 0..MaxFaults

Starts(how, files) ==
  /\ transport = how /\ left = files
  /\ stream = <<>> /\ ended = "open" /\ reading = NotReading /\ sunk = <<>>
  /\ result = "open" /\ failed = {} /\ faults = 0

Init ==
  \E how \in {"framed", "tar", "files"}, files \in SUBSET File :
    Starts(how, files) /\ size \in [files -> 0..MaxSize]

Fault == faults < MaxFaults /\ faults' = faults + 1
-----------------------------------------------------------------------------
(* The far side.                                                           *)

\* One turn of the loop of copyOutScript, or one file of the engine's tar: the
\* header names the length, then come the bytes.
Send(f) ==
  /\ ended = "open" /\ f \in left
  /\ left' = left \ {f}
  /\ stream' = stream \o <<Header(f)>> \o Bytes(f, size[f])
  /\ UNCHANGED <<transport, size, ended, reading, sunk, result, failed, faults>>

\* The cat of one file fails after n of its bytes.  The loop goes on, and its
\* status is its last command's.  A tar or a file read short is an error.
CatFails(f, n) ==
  /\ ended = "open" /\ f \in left /\ n < size[f] /\ Fault
  /\ left' = left \ {f}
  /\ stream' = stream \o <<Header(f)>> \o Bytes(f, n)
  /\ ended' = IF transport # "framed" THEN "dropped"
              ELSE IF left' = {} THEN "exit" ELSE "open"
  /\ failed' = IF transport = "framed" THEN failed \cup {f} ELSE failed
  /\ UNCHANGED <<transport, size, reading, sunk, result>>

Finish ==
  /\ ended = "open" /\ left = {}
  /\ ended' = "clean"
  /\ UNCHANGED <<transport, size, left, stream, reading, sunk, result, failed, faults>>

\* The directory is not there, or not for us to read.
Refuse ==
  /\ ended = "open" /\ stream = <<>> /\ left = DOMAIN size /\ Fault
  /\ ended' = "exit" /\ left' = {}
  /\ UNCHANGED <<transport, size, stream, reading, sunk, result, failed>>

\* The channel drops; what was not read yet may be lost with it.
Drop ==
  /\ ended = "open" /\ Fault
  /\ ended' = "dropped" /\ left' = {}
  /\ \E n \in 0..Len(stream) : stream' = SubSeq(stream, 1, n)
  /\ UNCHANGED <<transport, size, reading, sunk, result, failed>>
-----------------------------------------------------------------------------
(* The near side.                                                          *)

Ends(with) == result' = with /\ UNCHANGED <<stream, reading, sunk>>

\* Mutant: a stream that ended is a transfer that ended.
EndIsEnd == "done"

\* collectFailure: a status is a decision, a stream without one is a drop.
CollectFailure == IF ended = "exit" THEN "fatal" ELSE "retry"

AtEnd == IF ended = "clean" THEN "done" ELSE CollectFailure

\* Between files: a header, the end, or something that is neither.
ReadHeader ==
  /\ result = "open" /\ reading = NotReading
  /\ \/ /\ stream # <<>> /\ Head(stream).byte = 0
        /\ reading' = [file |-> Head(stream).file, got |-> <<>>] /\ stream' = Tail(stream)
        /\ UNCHANGED <<sunk, result, failed>>
     \/ stream # <<>> /\ Head(stream).byte # 0 /\ Ends(CollectFailure)
     \/ stream = <<>> /\ ended # "open" /\ Ends(AtEnd)
  /\ UNCHANGED <<transport, size, left, ended, failed, faults>>

\* The sink reads as many pieces as the header said, whatever they are.
ReadBody ==
  /\ result = "open" /\ reading # NotReading /\ stream # <<>>
  /\ Len(reading.got) < size[reading.file]
  /\ reading' = [reading EXCEPT !.got = Append(@, Head(stream))] /\ stream' = Tail(stream)
  /\ UNCHANGED <<transport, size, left, ended, sunk, result, failed, faults>>

\* The sink has its file: the length is reached, or the stream ended well before
\* it, which a reader with a limit reports as the end of the file.
BodyIsRead ==
  Len(reading.got) = size[reading.file] \/ (stream = <<>> /\ ended = "clean")

HandOver ==
  /\ result = "open" /\ reading # NotReading /\ BodyIsRead
  /\ sunk' = [f \in DOMAIN sunk \cup {reading.file} |->
                IF f = reading.file THEN reading.got ELSE sunk[f]]
  /\ reading' = NotReading
  /\ UNCHANGED <<transport, size, left, stream, ended, result, failed, faults>>

\* The stream failed under the sink, or the sink did: its error is the answer.
SinkFails ==
  /\ result = "open" /\ reading # NotReading
  /\ \/ stream = <<>> /\ ended \in {"exit", "dropped"} /\ ~BodyIsRead /\ UNCHANGED faults
     \/ Fault
  /\ Ends("raw")
  /\ UNCHANGED <<transport, size, left, ended, failed>>

Next ==
  \/ \E f \in File : Send(f) \/ \E n \in 0..(MaxSize - 1) : CatFails(f, n)
  \/ Finish \/ Refuse \/ Drop
  \/ ReadHeader \/ ReadBody \/ HandOver \/ SinkFails

Spec == Init /\ [][Next]_vars
-----------------------------------------------------------------------------
\* A transfer that reports no error gave the sink every file of the directory,
\* whole and once, if every cat in a pod came to its end (CopyOut, FetchDir).
FetchedIsWhole ==
  result = "done" /\ failed = {} => sunk = [f \in DOMAIN size |-> Bytes(f, size[f])]
-----------------------------------------------------------------------------
(* What the sources say and the code does not keep: see the README.        *)

\* "Each file arrives as PCF <size> <name> and exactly size bytes" (k8s.go): a
\* body that is short is not noticed.
ExactlySizeBytes ==
  \A f \in DOMAIN sunk : Len(sunk[f]) = size[f]
NoFileIsSwallowed == result = "done" => DOMAIN sunk = DOMAIN size

\* "A stream that ends without one is the exec channel dropping, which is exactly
\* what retrying is for" (k8s.go, collectFailure): not when it drops inside a file.
DropIsRetryable == ended = "dropped" /\ transport = "framed" => result # "raw"
=============================================================================
