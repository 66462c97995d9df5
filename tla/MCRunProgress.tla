---------------------------- MODULE MCRunProgress ----------------------------
(****************************************************************************)
(* Small instances of RunProgress for TLC.                                  *)
(****************************************************************************)
EXTENDS RunProgress

CONSTANTS w1, w2, n1, n2

\* A node in each of two workflows.
TwoWorkflows == [w \in Workflow |-> IF w = w1 THEN <<n1>> ELSE <<n2>>]
============================================================================
