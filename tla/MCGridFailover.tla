----------------------------- MODULE MCGridFailover -----------------------------
(* GridFailover in two surroundings: one where errors come at any time and        *)
(* nothing is prompt, one where nodes and the master go away.                     *)
EXTENDS GridFailover
MCRegimes ==
  {[huggingface |-> Nodes, prompt |-> FALSE, paced |-> FALSE, late |-> TRUE,
    faults |-> 1, restarts |-> 0, departures |-> 0],
   [huggingface |-> {}, prompt |-> TRUE, paced |-> TRUE, late |-> FALSE,
    faults |-> 0, restarts |-> 1, departures |-> 2]}
================================================================================
