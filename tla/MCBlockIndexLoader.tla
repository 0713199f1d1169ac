------------------------- MODULE MCBlockIndexLoader -------------------------
(* Model-checking instance of BlockIndexLoader: every combination of the  *)
(* options and disk facts the loop reads, every outcome of its calls.     *)
EXTENDS BlockIndexLoader

\* Three iterations: one more than the loop can make, so that a retry the
\* code does not make would be reached.
MCMaxAttempts == 3
=============================================================================
