---------------------------- MODULE SharedLifecycle ----------------------------
(***************************************************************************)
(* What is left of the approved lifecycle of a task (TaskLifecycle) when   *)
(* runs overlap.  The worker and the reviewer check a task's status before *)
(* they write, and another run may have written in between: a task with a  *)
(* verdict may be submitted and judged again, and a failed task may fail   *)
(* again.                                                                  *)
(*                                                                         *)
(*   absent -> pending -> planned -> review_pending <-> completed          *)
(*                          |                       or  rejected           *)
(*                          +-> failed <-> abandoned                       *)
(*                                                                         *)
(* But the way through it is settled when the task is created: no task is  *)
(* completed and rejected, none is planned again, and none that failed is  *)
(* reviewed.  Kernel.tla is shown to implement it however runs overlap.    *)
(***************************************************************************)
CONSTANT Task

VARIABLES
  stage,     \* stage[t]: the value of tasks.status for t
  verdict    \* verdict[t]: what the work on t deserves

vars == <<stage, verdict>>

Verdict == {"completed", "rejected", "failed"}

Init == /\ stage = [t \in Task |-> "absent"]
        /\ verdict = [t \in Task |-> "none"]

Create(t) ==
  /\ stage[t] = "absent" /\ stage' = [stage EXCEPT ![t] = "pending"]
  /\ \E v \in Verdict : verdict' = [verdict EXCEPT ![t] = v]

Move(t, from, to) ==
  /\ stage[t] \in from /\ stage' = [stage EXCEPT ![t] = to]
  /\ UNCHANGED verdict

Plan(t) == Move(t, {"pending"}, "planned")

Submit(t) == /\ verdict[t] \in {"completed", "rejected"}
             /\ Move(t, {"planned", verdict[t]}, "review_pending")

Judge(t) == /\ verdict[t] \in {"completed", "rejected"}
            /\ Move(t, {"review_pending"}, verdict[t])

Fail(t) == /\ verdict[t] = "failed"
           /\ \E to \in {"failed", "abandoned"} :
                Move(t, {"planned", "failed", "abandoned"}, to)

Next == \E t \in Task : Create(t) \/ Plan(t) \/ Submit(t) \/ Judge(t) \/ Fail(t)

Spec == Init /\ [][Next]_vars
================================================================================
