---------------------------- MODULE JobLifecycle ----------------------------
(***************************************************************************)
(* What a backend thread may rely on about one job id in the worker queue, *)
(* whoever submits, claims, reports, cancels or deletes: the lifecycle of  *)
(* the id, and that its taker is fixed once it is taken.  Several ids may  *)
(* move in one step (an enqueue prunes, a cancel or a worker deletion hits *)
(* many), so a step moves every id by its own lifecycle or not at all.     *)
(***************************************************************************)
CONSTANTS Worker, Job, None

VARIABLES
  phase, \* Job -> where the id stands
  taker  \* Job -> the worker that took it, or None

lvars == <<phase, taker>>

Answered == {"answered", "refused"}

Init == phase = [j \in Job |-> "absent"] /\ taker = [j \in Job |-> None]

Becomes(j, p, w) == phase'[j] = p /\ taker'[j] = w

(* A fresh submission, over nothing or over what is left of an earlier one. *)
Submit(j) == phase[j] \notin {"open", "taken"} /\ Becomes(j, "open", None)

Take(j) == phase[j] = "open" /\ \E w \in Worker : Becomes(j, "taken", w)

(* A report; a later report may replace an earlier one. *)
Settle(j) ==
  /\ phase[j] \in {"open", "taken"} \cup Answered
  /\ \E p \in Answered : Becomes(j, p, taker[j])

Withdraw(j) == phase[j] \in {"open", "taken"} /\ Becomes(j, "withdrawn", taker[j])

Remove(j) == phase[j] # "absent" /\ Becomes(j, "absent", None)

Keep(j) == Becomes(j, phase[j], taker[j])

Next ==
  \A j \in Job : Submit(j) \/ Take(j) \/ Settle(j) \/ Withdraw(j) \/ Remove(j) \/ Keep(j)

Spec == Init /\ [][Next]_lvars
=============================================================================
