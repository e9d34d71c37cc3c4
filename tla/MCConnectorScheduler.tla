------------------------ MODULE MCConnectorScheduler ------------------------
(***************************************************************************)
(* Small instances of one connector's periodic sync for TLC.               *)
(***************************************************************************)
EXTENDS ConnectorScheduler, TLC

Symmetry == Permutations(Runs) \cup Permutations(Workers) \cup Permutations(Occurrences)

-----------------------------------------------------------------------------
\* Claims of the repository's texts that this model refutes.  No run checks
\* them; a .cfg that adds one shows the behaviour.

\* scheduler/README.md: an occurrence left by a scheduler that died is retried
\* from the database rather than lost.
OccurrenceSettles ==
    \A o \in Occurrences :
        occurrences[o].status # "none" ~> Settled(o) \/ ~schedule.enabled

\* scheduler/README.md: the scheduled path holds at most one pending occurrence.
OnePendingOccurrence == Cardinality(InStatus("pending")) <= 1

\* scheduler/schedules/connectors.ts: replaying a run id is safe, so a run that
\* succeeded keeps its occurrence succeeded.
SuccessSurvivesReplay ==
    [][\A o \in Occurrences :
         occurrences[o].status = "succeeded" => occurrences'[o].status = "succeeded"]_vars
=============================================================================
