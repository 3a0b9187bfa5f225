---------------------------- MODULE MCExecutor ----------------------------
(* An executor of two threads, two calls that await their job and two     *)
(* that do not; a third thread name, so that one too many could start.     *)
EXTENDS Executor

CONSTANTS j1, j2, j3, j4, w1, w2, w3

MCAwaited == {j1, j2}
MCJobs == MCAwaited \union {j3, j4}
MCWorkers == {w1, w2, w3}
=============================================================================
