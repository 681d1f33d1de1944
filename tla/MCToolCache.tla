----------------------------- MODULE MCToolCache -----------------------------
(* ToolCache on a few tasks; the tasks are interchangeable.                 *)
EXTENDS ToolCache, TLC

Symmetry == Permutations(Tasks)
=============================================================================
