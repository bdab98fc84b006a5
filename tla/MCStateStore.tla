--------------------------- MODULE MCStateStore ---------------------------
(* Small instances of StateStore for TLC. *)
EXTENDS StateStore

CONSTANTS backend, redeem

\* Tables are tokens, workers, jobs, enrollments.  A redemption writes the
\* first and the last, the other updates workers and jobs, as a claim does.
MCTouches == [u \in Update |-> IF u = redeem THEN {1, 4} ELSE {2, 3}]
OneProcess == [th \in Thread |-> backend]
=============================================================================
