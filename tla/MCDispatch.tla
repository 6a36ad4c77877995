------------------------------- MODULE MCDispatch -------------------------------
(***************************************************************************)
(* Dispatch for TLC: one pull node, one push node, two tasks.              *)
(***************************************************************************)
EXTENDS Dispatch

CONSTANTS t1, t2, p1, q1, m1

TwoTasks == {t1, t2}
PullNodes == {p1}
PushNodes == {q1}
OneModel == {m1}
=============================================================================
