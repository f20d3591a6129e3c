-------------------------------- MODULE MCKernel --------------------------------
(* Kernel on small instances.  Calls are interchangeable: nothing in Kernel orders    *)
(* the members of Planners, nor those of Drivers.                                     *)
EXTENDS Kernel, TLC

Symmetry == Permutations(Planners) \cup Permutations(Drivers)
================================================================================
