------------------------- MODULE MCWorkflowEditing -------------------------
(****************************************************************************)
(* Small instances of WorkflowEditing for TLC.                              *)
(****************************************************************************)
EXTENDS WorkflowEditing, TLC

CONSTANTS a, b, c, t, e1, e2

\* A branch a with one arm b, whose content was edited twice.
BranchWithArm ==
    [nodes |-> {a, b}, edges |-> {[src |-> a, dst |-> b, handle |-> "true"]},
     content |-> [k \in Key |-> IF k = b THEN {e1, e2} ELSE {}]]

\* The agents are interchangeable.
EditingSymmetry == Permutations(Agent)
============================================================================
