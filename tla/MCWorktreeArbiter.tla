-------------------------- MODULE MCWorktreeArbiter --------------------------
(***************************************************************************)
(* TLC instance of WorktreeArbiter: agents whose names are spelled alike.  *)
(***************************************************************************)
EXTENDS WorktreeArbiter

CONSTANT Name
OneSpelling == [a \in Agent |-> Name]
=============================================================================
