---------------------------- MODULE StoreLoading ----------------------------
(***************************************************************************)
(* What the block-index loader promises the start-up, as the lifecycle of *)
(* the node states it (LifecyclePhase): the node stays in StoreLoading     *)
(* until the store is loaded or start-up gives up; StoreLoading restarts   *)
(* itself only through the one recovery choice offered to the user, and a *)
(* failure after that choice was taken is fatal.  The phases after         *)
(* StoreLoaded (wallet, services, import, running) are one phase here,     *)
(* Running; start-up that gives up goes through ShuttingDown to Stopped.   *)
(*                                                                         *)
(* This module has no counterpart in the code: it is the abstract         *)
(* specification that BlockIndexLoader is shown to implement.             *)
(***************************************************************************)

VARIABLES
    phase,    \* the lifecycle phase
    offers    \* times the recovery choice (reindex or abort) was offered

Phases == {"StoreLoading", "StoreLoaded", "Running", "ShuttingDown", "Stopped"}

Init == phase = "StoreLoading" /\ offers = 0

\* The block index is loaded and checked.
Load ==
    /\ phase = "StoreLoading"
    /\ phase' = "StoreLoaded"
    /\ UNCHANGED offers

\* The one recovery choice, answered with a reindex: loading starts again.
Reindex ==
    /\ phase = "StoreLoading"
    /\ offers = 0
    /\ offers' = 1
    /\ UNCHANGED phase

\* The one recovery choice, declined: start-up gives up.
Decline ==
    /\ phase = "StoreLoading"
    /\ offers = 0
    /\ offers' = 1
    /\ phase' = "ShuttingDown"

\* A fatal failure, or a stop requested before the node runs.
Abort ==
    /\ phase \in {"StoreLoading", "StoreLoaded"}
    /\ phase' = "ShuttingDown"
    /\ UNCHANGED offers

\* The rest of the start-up.
Start ==
    /\ phase = "StoreLoaded"
    /\ phase' = "Running"
    /\ UNCHANGED offers

\* The store is torn down and the process ends.
Stop ==
    /\ phase \in {"Running", "ShuttingDown"}
    /\ phase' = "Stopped"
    /\ UNCHANGED offers

Next == Load \/ Reindex \/ Decline \/ Abort \/ Start \/ Stop

Spec == Init /\ [][Next]_<<phase, offers>>
=============================================================================
