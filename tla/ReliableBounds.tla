---------------------------- MODULE ReliableBounds ----------------------------
(***************************************************************************)
(* What the models of package reliable share: its settings and a bound.    *)
(***************************************************************************)
EXTENDS Naturals

CONSTANTS
  Attempts,   \* Policy.MaxAttempts
  Threshold,  \* BreakerConfig.Threshold
  N,          \* the pieces a bundle is sent in: chunks, or parts
  Mishaps     \* bound: lost calls, crashes, cancels and failed sidecars

ASSUME ReliableAssumption ==
  /\ Attempts \in Nat \ {0} /\ Threshold \in Nat \ {0} /\ N \in Nat \ {0} /\ Mishaps \in Nat
=============================================================================
