--------------------------- MODULE MCConnectorSync ---------------------------
(***************************************************************************)
(* Small mailboxes for TLC.                                                *)
(***************************************************************************)
EXTENDS ConnectorSync, TLC

Symmetry == Permutations(Messages)

-----------------------------------------------------------------------------
\* Claims of the repository's texts that this model refutes.  No run checks
\* them; a .cfg that adds one shows the behaviour.

\* With indexing off no source of the connector can be retrieved.
HiddenWhileOff ==
    scope = Off => \A m \in Messages : sources[m] # "indexed"
=============================================================================
