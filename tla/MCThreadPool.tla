---------------------------- MODULE MCThreadPool ----------------------------
(* Two workers and two tasks for TLC.                                        *)
EXTENDS ThreadPool

CONSTANTS w1, w2, t1, t2

MCTwoWorkers == {w1, w2}
MCTwoTasks == {t1, t2}
=============================================================================
