---------------------------- MODULE AtomicStore ----------------------------
(***************************************************************************)
(* What the users of WorkerStateStore count on: an update happens at one   *)
(* instant or not at all, stays, and has happened once its call returned.  *)
(* WorkerQueue takes each of its actions to be such an update.             *)
(***************************************************************************)
CONSTANT Update

VARIABLES
  applied, \* updates the document reflects
  acked    \* updates whose call returned normally

avars == <<applied, acked>>

Init == applied = {} /\ acked = {}

Apply(u) == u \notin applied /\ applied' = applied \cup {u} /\ UNCHANGED acked

Acknowledge(u) == u \in applied /\ acked' = acked \cup {u} /\ UNCHANGED applied

Next == \E u \in Update : Apply(u) \/ Acknowledge(u)

Spec == Init /\ [][Next]_avars
=============================================================================
