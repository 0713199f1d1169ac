----------------------------- MODULE MCShutdown -----------------------------
(* Model-checking instance of Shutdown: two shutdown callers and one other *)
(* threadGroup thread besides the import thread.                           *)
EXTENDS Shutdown

CONSTANTS c1, c2, w1

MCCallers == {c1, c2}
MCWorkers == {w1}

=============================================================================
