-------------------------------- MODULE MCOutbox --------------------------------
(* Outbox on small instances: threads and keys are interchangeable. *)
EXTENDS Outbox, TLC
Symmetry == Permutations(Threads) \cup Permutations(Keys)
================================================================================
