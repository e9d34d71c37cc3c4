---------------------------- MODULE MCDurableRun ----------------------------
(***************************************************************************)
(* Small systems of durable runs for TLC.                                  *)
(***************************************************************************)
EXTENDS DurableRun, TLC

CONSTANT t1

\* Every request is for the one thread.
OneThread == [r \in Runs |-> t1]

Symmetry ==
    Permutations(Runs) \cup Permutations(Workers) \cup Permutations(Callers)
=============================================================================
