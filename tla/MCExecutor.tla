----------------------------- MODULE MCExecutor -----------------------------
(* Instances of Executor for TLC *)
EXTENDS Executor

CONSTANTS h1, p1, p2, p3, t1, t2
MCHosts == {h1}
MCTasks == {p1, p2, p3}
MCTimers == {t1, t2}
=============================================================================
