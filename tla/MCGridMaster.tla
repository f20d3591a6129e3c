------------------------------ MODULE MCGridMaster ------------------------------
(* GridMaster on small instances: tasks and callers are interchangeable. *)
EXTENDS GridMaster, TLC
Symmetry == Permutations(Tasks) \cup Permutations(Callers)
================================================================================
