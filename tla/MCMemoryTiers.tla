------------------------------ MODULE MCMemoryTiers ------------------------------
(* MemoryTiers on a small instance: routine entries, results, and a log entry that an
   agent found important. *)
EXTENDS MemoryTiers, TLC
MCKinds == {<<"log", 3>>, <<"result", 3>>, <<"log", 5>>}
Symmetry == Permutations(Jobs) \cup Permutations(Tags) \cup Permutations(Tasks)
================================================================================
