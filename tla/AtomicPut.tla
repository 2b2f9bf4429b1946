------------------------------ MODULE AtomicPut -----------------------------
(***************************************************************************)
(* What storing one object promises, whichever backend it is stored on:    *)
(* under its key there is nothing, or the whole object, and never a part   *)
(* of it.  Where the backend can replace an object in one step, an object  *)
(* that is stored stays stored, and storing it again is invisible.         *)
(***************************************************************************)
VARIABLES
  object,     \* "none", or "whole"
  replaces    \* TRUE if the backend replaces an object in one step

vars == <<object, replaces>>

Init  == object = "none" /\ replaces \in BOOLEAN
Store == object' = "whole"
Lose  == ~replaces /\ object' = "none"
Next  == (Store \/ Lose) /\ UNCHANGED replaces
Spec  == Init /\ [][Next]_vars
=============================================================================
