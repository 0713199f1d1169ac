---------------------------- MODULE TeardownOrder ----------------------------
(***************************************************************************)
(* What the shutdown sequence promises the rest of the node, as the       *)
(* lifecycle states it: interrupt is signalled to the network engine and  *)
(* to every worker; the network engine is stopped only once interrupted;  *)
(* it is deleted, and the chain-state store torn down, only after every   *)
(* worker has been joined, so no inbound update or worker can touch the   *)
(* state while it is closed; the chain data is erased only after that.    *)
(* Nothing comes back: an interrupted engine does not run again, a joined *)
(* group stays empty, a closed store is not reopened.                     *)
(*                                                                         *)
(* This module has no counterpart in the code: it is the abstract         *)
(* specification that Shutdown is shown to implement.                     *)
(***************************************************************************)

VARIABLES
    net,      \* the network engine: "running", "interrupted", "stopped", "deleted"
    threads,  \* the worker group: "running", "interrupted", "joined"
    stores,   \* the chain-state store: "open", "closed"
    chain     \* the chain data on disk: "kept", "erased"

absVars == <<net, threads, stores, chain>>

Init ==
    /\ net = "running"
    /\ threads = "running"
    /\ stores = "open"
    /\ chain = "kept"

\* Cooperative interrupt of the network engine and of the workers.
Interrupt ==
    /\ net' = IF net = "running" THEN "interrupted" ELSE net
    /\ threads' = IF threads = "running" THEN "interrupted" ELSE threads
    /\ UNCHANGED <<stores, chain>>

\* The last worker has left.
Joined ==
    /\ threads # "joined"
    /\ threads' = "joined"
    /\ UNCHANGED <<net, stores, chain>>

\* The network engine stops its threads; it was interrupted first.
StopNet ==
    /\ net # "running"
    /\ net' = IF net = "deleted" THEN "deleted" ELSE "stopped"
    /\ UNCHANGED <<threads, stores, chain>>

\* The network engine is deleted once every worker is joined.
DeleteNet ==
    /\ threads = "joined"
    /\ net' = "deleted"
    /\ UNCHANGED <<threads, stores, chain>>

\* The store is torn down once the workers are joined and the network
\* engine is gone.
Close ==
    /\ threads = "joined" /\ net = "deleted"
    /\ stores' = "closed"
    /\ UNCHANGED <<net, threads, chain>>

\* The chain data is erased once the store is closed.
Erase ==
    /\ threads = "joined" /\ stores = "closed"
    /\ chain' = "erased"
    /\ UNCHANGED <<net, threads, stores>>

Next == Interrupt \/ Joined \/ StopNet \/ DeleteNet \/ Close \/ Erase

Spec == Init /\ [][Next]_absVars
==============================================================================
