--------------------------- MODULE MCSourceParsing ---------------------------
(***************************************************************************)
(* A source with a few requests for TLC.                                   *)
(***************************************************************************)
EXTENDS SourceParsing, TLC

Symmetry == Permutations(Calls)

-----------------------------------------------------------------------------
\* Claims of the repository's texts that this model refutes.  No run checks
\* them; a .cfg that adds one shows the behaviour.

\* Any object the sweep deletes can only be a partial or orphaned write: nothing
\* queued a parse for it.
SweepDeletesOnlyOrphans == [][object /\ ~object' => revs = 0]_vars

\* An old or revision-less index job does not delete the index of a newer
\* revision: what a revision's own parse indexed stays.
OwnIndexSurvives ==
    [][\A r \in Revs :
         [text |-> r, chunks |-> r] \in docs[r] => docs'[r] = docs[r]]_vars

\* Completing twice does not queue a second parse.
CompletedOnce == revs <= 1

\* A task that was saved for a revision is not submitted again.
SavedTaskNotResubmitted ==
    [][\A r \in Revs :
         JobAt(ParseJob(r), "fetch") /\ jobs'[ParseJob(r)].pc = "save"
         => r \notin saved]_vars
=============================================================================
