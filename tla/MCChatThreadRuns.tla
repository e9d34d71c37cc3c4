-------------------------- MODULE MCChatThreadRuns --------------------------
(***************************************************************************)
(* The run table on its own, under callers that issue any transaction in   *)
(* any order.                                                              *)
(***************************************************************************)
EXTENDS ChatThreadRuns, TLC

Symmetry == Permutations(Runs) \cup Permutations(Confs) \cup Permutations(OpKeys)

-----------------------------------------------------------------------------
\* A claim of the repository's texts that this model refutes.  No run checks it;
\* a .cfg that adds it shows the behaviour.

\* Every terminal transition reports the run finished exactly once.
ReportedExactlyOnce ==
    \A r \in Runs : Terminal(r) => finishedLog[r] = 1
=============================================================================
