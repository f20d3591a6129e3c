---------------------------- MODULE MCClusterRegistry ----------------------------
(* ClusterRegistry on a small instance: workers with and without a GPU, tasks that need one. *)
EXTENDS ClusterRegistry
MCOffers == {{}, {"gpu"}}
MCNeeds == [t \in Tasks |-> {"gpu"}]
================================================================================
