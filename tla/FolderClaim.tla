---------------------------- MODULE FolderClaim ----------------------------
(***************************************************************************)
(* The advisory lock on a PortCloak home folder: what                      *)
(* internal/engine/config/lock.go promises the processes that share it.    *)
(*                                                                         *)
(* A claim is a flock taken without blocking on an open file description,  *)
(* so it conflicts with every other description, and the kernel drops it   *)
(* when the process dies.  Any number of processes may hold the folder     *)
(* shared; one that holds it exclusively is alone.                         *)
(***************************************************************************)
CONSTANT Proc     \* the processes that may use the folder

VARIABLE claim    \* claim[p]: the mode process p holds the folder in

Mode == {"shared", "exclusive"}

TypeOK == claim \in [Proc -> Mode \cup {"none"}]

Init == claim = [p \in Proc |-> "none"]

(***************************************************************************)
(* LOCK_SH is refused while another description holds LOCK_EX, LOCK_EX     *)
(* while another holds anything.                                           *)
(***************************************************************************)
Free(p, m) == \A q \in Proc \ {p} :
                 claim[q] \in IF m = "exclusive" THEN {"none"}
                                                 ELSE {"none", "shared"}

Acquire(p, m) == /\ claim[p] = "none"
                 /\ Free(p, m)
                 /\ claim' = [claim EXCEPT ![p] = m]

(***************************************************************************)
(* Release, and equally the kernel closing a dead process's descriptors.   *)
(***************************************************************************)
Release(p) == claim' = [claim EXCEPT ![p] = "none"]

Next == \E p \in Proc : Release(p) \/ \E m \in Mode : Acquire(p, m)

Spec == Init /\ [][Next]_claim
-----------------------------------------------------------------------------
(***************************************************************************)
(* A process that holds the folder exclusively is the only one holding it. *)
(***************************************************************************)
Exclusion == \A p, q \in Proc :
                p # q /\ claim[p] = "exclusive" => claim[q] = "none"
=============================================================================
