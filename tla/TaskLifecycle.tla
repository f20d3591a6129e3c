----------------------------- MODULE TaskLifecycle -----------------------------
(***************************************************************************)
(* What the kernel promises about one task, whatever runs it: the          *)
(* "approved lifecycle" that coordinator.py states and that planner.py,    *)
(* worker.py and reviewer.py each own one part of,                         *)
(*                                                                         *)
(*   absent -> pending -> planned -> review_pending -> completed | rejected *)
(*                          |                                              *)
(*                          +-> failed | abandoned                         *)
(*                                                                         *)
(* Kernel.tla is shown to implement it when runs do not overlap.           *)
(***************************************************************************)
CONSTANT Task              \* the tasks there can be

VARIABLE stage             \* stage[t]: the value of tasks.status for t

Stage == {"absent", "pending", "planned", "review_pending",
          "completed", "rejected", "failed", "abandoned"}

TypeOK == stage \in [Task -> Stage]

Init == stage = [t \in Task |-> "absent"]

Move(t, from, to) == stage[t] = from /\ stage' = [stage EXCEPT ![t] = to]

Create(t)  == Move(t, "absent", "pending")
Plan(t)    == Move(t, "pending", "planned")
Submit(t)  == Move(t, "planned", "review_pending")
Fail(t)    == \E to \in {"failed", "abandoned"} : Move(t, "planned", to)
Approve(t) == Move(t, "review_pending", "completed")
Refuse(t)  == Move(t, "review_pending", "rejected")

Next == \E t \in Task : \/ Create(t) \/ Plan(t) \/ Submit(t)
                        \/ Fail(t) \/ Approve(t) \/ Refuse(t)

Spec == Init /\ [][Next]_stage
================================================================================
