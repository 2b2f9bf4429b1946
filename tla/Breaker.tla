------------------------------- MODULE Breaker ------------------------------
(***************************************************************************)
(* The circuit breaker of one endpoint, and the operations that share it:  *)
(* every storage and target call is a Do, which asks the breaker before    *)
(* its first attempt and again after each failed one, then backs off.      *)
(*                                                                         *)
(* The breaker's mutex covers one question or one report, never an         *)
(* attempt: the operations of several jobs interleave between any two.     *)
(*                                                                         *)
(* Sources: engine/resil/doer.go, engine/reliable/reliable.go.             *)
(***************************************************************************)
EXTENDS ReliableBounds

CONSTANT Caller  \* the goroutines that use the endpoint, one Do each at a time

VARIABLES
  breaker,    \* "closed", "open", or "cooled": open, its cooldown elapsed
  halfOpen,   \* Breaker.halfOpen
  failures,   \* Breaker.failures, which nothing compares above Threshold
  up,         \* TRUE while the endpoint answers
  op,         \* op[c]: what the Do of c performs
  pc,         \* pc[c]: where it has got to
  attempt,    \* attempt[c]: how many attempts it has begun
  cancelled,  \* the callers whose context is cancelled
  strays,     \* strays[c]: attempts of c begun since the breaker opened
  mishaps

calls == <<op, pc, attempt, cancelled>>
vars  == <<breaker, halfOpen, failures, up, calls, strays, mishaps>>

TypeOK ==
  /\ breaker \in {"closed", "open", "cooled"} /\ halfOpen \in BOOLEAN
  /\ failures \in 0..Threshold /\ up \in BOOLEAN
  /\ op \in [Caller -> {"transfer", "teardown"}]
  /\ pc \in [Caller -> {"idle", "ready", "trying", "recheck", "sleeping", "refused"}]
  /\ attempt \in [Caller -> 0..Attempts]
  /\ cancelled \subseteq Caller
  /\ strays \in [Caller -> Nat]
  /\ mishaps \in 0..Mishaps

Init ==
  /\ breaker = "closed" /\ halfOpen = FALSE /\ failures = 0 /\ up = TRUE
  /\ op = [c \in Caller |-> "transfer"] /\ pc = [c \in Caller |-> "idle"]
  /\ attempt = [c \in Caller |-> 0] /\ cancelled = {}
  /\ strays = [c \in Caller |-> 0] /\ mishaps = 0
-----------------------------------------------------------------------------
Goto(c, to) == pc' = [pc EXCEPT ![c] = to]

\* A Do ends, and what it returned is its caller's business.
Return(c) == Goto(c, "idle") /\ cancelled' = cancelled \ {c} /\ UNCHANGED <<op, attempt>>

\* Mutant: one probe at a time, and a probe that never reports is waited for.
AllowOnce(c, to) ==
  IF breaker = "closed" THEN Goto(c, to) /\ UNCHANGED halfOpen
  ELSE IF breaker = "open" \/ halfOpen THEN Goto(c, "refused") /\ UNCHANGED halfOpen
  ELSE Goto(c, to) /\ halfOpen' = TRUE

\* Allow: refused while the cooldown runs; once it has elapsed every caller
\* passes, and the next failure is taken for a probe's.
Allow(c, to) ==
  /\ Goto(c, IF breaker = "open" THEN "refused" ELSE to)
  /\ halfOpen' = (halfOpen \/ breaker = "cooled")

Success ==
  breaker' = "closed" /\ halfOpen' = FALSE /\ failures' = 0 /\ UNCHANGED strays

\* Failure: a probe's sends the breaker back to a whole cooldown.
Failure ==
  /\ failures' = IF halfOpen \/ failures = Threshold THEN failures ELSE failures + 1
  /\ breaker' = IF halfOpen \/ (breaker = "closed" /\ failures' = Threshold)
                THEN "open" ELSE breaker
  /\ strays' = IF breaker # "open" /\ breaker' = "open"
               THEN [c \in Caller |-> 0] ELSE strays
  /\ halfOpen' = FALSE
-----------------------------------------------------------------------------
\* Do begins: the breaker is asked before anything is tried.
Begin(c) ==
  /\ pc[c] = "idle" /\ Allow(c, "ready")
  /\ \E o \in {"transfer", "teardown"} : op' = [op EXCEPT ![c] = o]
  /\ attempt' = [attempt EXCEPT ![c] = 0]
  /\ UNCHANGED <<breaker, failures, up, cancelled, strays, mishaps>>

Refused(c) ==
  /\ pc[c] = "refused" /\ Return(c)
  /\ UNCHANGED <<breaker, halfOpen, failures, up, strays, mishaps>>

\* The head of the loop looks at the context, and not at the breaker.
Try(c) ==
  /\ pc[c] = "ready"
  /\ IF c \in cancelled THEN Return(c) /\ UNCHANGED strays
     ELSE /\ Goto(c, "trying") /\ UNCHANGED <<op, cancelled>>
          /\ attempt' = [attempt EXCEPT ![c] = @ + 1]
          /\ strays' = IF breaker = "open" THEN [strays EXCEPT ![c] = @ + 1] ELSE strays
  /\ UNCHANGED <<breaker, halfOpen, failures, up, mishaps>>

Succeed(c) ==
  /\ pc[c] = "trying" /\ up /\ Success /\ Return(c)
  /\ UNCHANGED <<up, mishaps>>

\* A cancelled context, or a rejected request, is nobody's outage: the breaker
\* hears nothing of it.
FailTerminal(c) ==
  /\ pc[c] = "trying" /\ Return(c)
  /\ IF c \in cancelled THEN UNCHANGED mishaps
     ELSE mishaps < Mishaps /\ mishaps' = mishaps + 1
  /\ UNCHANGED <<breaker, halfOpen, failures, up, strays>>

FailRetryable(c) ==
  /\ pc[c] = "trying" /\ ~up /\ Failure
  /\ IF attempt[c] = Attempts THEN Return(c)
     ELSE Goto(c, "recheck") /\ UNCHANGED <<op, attempt, cancelled>>
  /\ UNCHANGED <<up, mishaps>>

\* Mutant: a retry does not ask the breaker again.
RecheckSkipped(c) ==
  /\ pc[c] = "recheck" /\ Goto(c, "sleeping")
  /\ UNCHANGED <<breaker, halfOpen, failures, up, op, attempt, cancelled, strays, mishaps>>

Recheck(c) ==
  /\ pc[c] = "recheck" /\ Allow(c, "sleeping")
  /\ UNCHANGED <<breaker, failures, up, op, attempt, cancelled, strays, mishaps>>

Wake(c) ==
  /\ pc[c] = "sleeping"
  /\ IF c \in cancelled THEN Return(c)
     ELSE Goto(c, "ready") /\ UNCHANGED <<op, attempt, cancelled>>
  /\ UNCHANGED <<breaker, halfOpen, failures, up, strays, mishaps>>
-----------------------------------------------------------------------------
CoolDown ==
  /\ breaker = "open" /\ breaker' = "cooled"
  /\ UNCHANGED <<halfOpen, failures, up, calls, strays, mishaps>>

Endpoint ==
  /\ up' = ~up
  /\ UNCHANGED <<breaker, halfOpen, failures, calls, strays, mishaps>>

Cancel(c) ==
  /\ pc[c] # "idle" /\ c \notin cancelled /\ mishaps < Mishaps
  /\ cancelled' = cancelled \cup {c} /\ mishaps' = mishaps + 1
  /\ UNCHANGED <<breaker, halfOpen, failures, up, op, pc, attempt, strays>>

Step(c) ==
  \/ Begin(c) \/ Refused(c) \/ Try(c) \/ Succeed(c) \/ FailTerminal(c)
  \/ FailRetryable(c) \/ Recheck(c) \/ Wake(c)

Next == CoolDown \/ Endpoint \/ \E c \in Caller : Step(c) \/ Cancel(c)

Spec == Init /\ [][Next]_vars

\* Attempts end, timers fire, and the operator's jobs go on asking.
LiveSpec == Spec /\ WF_vars(CoolDown) /\ \A c \in Caller : WF_vars(Step(c))
-----------------------------------------------------------------------------
\* A probe is what the breaker waits for only once its cooldown has elapsed:
\* nothing leaves halfOpen behind in a breaker that is closed, whose next
\* failure would open it at once, or in one that has just opened.
HalfOpenIsCooled == halfOpen => breaker = "cooled"

\* After the breaker opened, a caller that was already past its Allow makes
\* one more attempt at most before the cooldown has elapsed.
OneStray == \A c \in Caller : strays[c] <= 1

\* Fewer failures than the threshold are all a closed breaker remembers, so an
\* outage opens it after Threshold failures and never later.
ClosedBelowThreshold == breaker = "closed" => failures < Threshold

\* An endpoint that stays reachable is back in service for good, whoever's
\* probe was cancelled or rejected on the way.
Recovers == <>[]up => <>[](breaker = "closed")
-----------------------------------------------------------------------------
\* What the sources say and the code does not keep: see the README.

\* "Let exactly one attempt through to decide" (doer.go:286).
LetThrough(c) == pc[c] \in {"idle", "recheck"} /\ pc'[c] \in {"ready", "sleeping"}
OneProbe == [][\A c \in Caller : LetThrough(c) => ~halfOpen]_vars

\* "Teardown is retried, because leaving a clone behind is the worst outcome"
\* (reliable.go:193): a teardown that gives up has been tried.
TeardownIsTried ==
  \A c \in Caller : op[c] = "teardown" /\ pc[c] = "refused" => attempt[c] > 0
=============================================================================
