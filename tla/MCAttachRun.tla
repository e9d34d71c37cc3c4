---------------------------- MODULE MCAttachRun ----------------------------
(***************************************************************************)
(* One run with its clients for TLC.                                       *)
(***************************************************************************)
EXTENDS AttachRun, TLC

CONSTANT t1

\* Every request is for the one thread.
OneThread == [r \in Runs |-> t1]
=============================================================================
