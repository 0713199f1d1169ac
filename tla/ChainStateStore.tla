--------------------------- MODULE ChainStateStore ---------------------------
(***************************************************************************)
(* The chain-state store of init.cpp: the seven process-wide pointers that *)
(* AppInitMain allocates in its block-index load loop and CoreShutdown     *)
(* releases.                                                               *)
(*                                                                         *)
(*   pblocktree     CBlockTreeDB            (block-index database)         *)
(*   pcoinsdbview   CCoinsViewDB            (main chain-state database)    *)
(*   pcoinscatcher  CCoinsViewErrorCatcher  (read-fault containment)       *)
(*   pcoinsTip      CCoinsViewCache         (main in-memory view)          *)
(*   ppow2witdbview CWitViewDB              (witness chain-state database) *)
(*   ppow2witcatcher CCoinsViewErrorCatcher                                *)
(*   ppow2witTip    shared_ptr<CCoinsViewCache> (witness view)             *)
(*                                                                         *)
(* Each pointer is abstracted to the state of the object it designates:   *)
(* "null", "live", or "dangling" (the object was deleted and the pointer   *)
(* was not reset).  The module defines no variables: it gives the         *)
(* operations on a value mem \in [Handles -> Slot] that the load loop and  *)
(* the shutdown sequence perform, and the undefined behaviour (a second    *)
(* delete, a use of a deleted object) that an operation can commit.        *)
(***************************************************************************)

Handles == {"blocktree", "coinsdb", "coinscatcher", "coinstip",
            "witdb", "witcatcher", "wittip"}

Slot == {"null", "live", "dangling"}

\* Kinds of undefined behaviour an operation on the pointers can commit.
UBKind == {"double_free", "use_after_free"}

\* The database constructors that can throw while the load loop opens the
\* stores (CDBWrapper throws dbwrapper_error when LevelDB cannot open or
\* wipe a database); "none" is the run in which none of them throws.
OpenFailure == {"none", "blocktree", "coinsdb", "witdb"}

\* No pointer set: the state before the first load attempt.
NoStores == [h \in Handles |-> "null"]

\* `delete p;` without `p = NULL;`: a live object becomes dangling, a null
\* pointer stays null, and a dangling pointer is deleted a second time.
DeleteKeep(mem, S) ==
    [h \in Handles |-> IF h \in S /\ mem[h] = "live" THEN "dangling" ELSE mem[h]]

\* `delete p; p = NULL;` (and, for the shared_ptr ppow2witTip, `= nullptr`).
DeleteReset(mem, S) ==
    [h \in Handles |-> IF h \in S THEN "null" ELSE mem[h]]

\* `p = new T(...)` for every p in S.
Allocate(mem, S) ==
    [h \in Handles |-> IF h \in S THEN "live" ELSE mem[h]]

\* Deleting the objects in S deletes an already deleted object.
DoubleFree(mem, S) == \E h \in S : mem[h] = "dangling"

\* The pointers the main-view half of the load loop deletes and re-creates
\* (pblocktree, pcoinsdbview, pcoinscatcher, pcoinsTip), and those of the
\* witness half (ppow2witdbview, ppow2witcatcher; ppow2witTip is reset).
MainHandles    == {"blocktree", "coinsdb", "coinscatcher", "coinstip"}
WitnessRaw     == {"witdb", "witcatcher"}
WitnessHandles == WitnessRaw \cup {"wittip"}

(***************************************************************************)
(* OpenStores(mem, f): the pointers after the allocation block of the load *)
(* loop (label loadblockindex) when constructor f throws ("none": none     *)
(* does).  The four main pointers are deleted without being reset; then    *)
(* CBlockTreeDB, CCoinsViewDB and its catcher and cache are created; then  *)
(* the two raw witness pointers are deleted, the witness cache is reset,   *)
(* and CWitViewDB, its catcher and cache are created.  A throw leaves      *)
(* every pointer not yet re-assigned as the deletes left it.               *)
(***************************************************************************)
OpenMain(mem)     == DeleteKeep(mem, MainHandles)
OpenWitness(mem)  ==
    DeleteReset(DeleteKeep(Allocate(OpenMain(mem), MainHandles), WitnessRaw),
                {"wittip"})

OpenStores(mem, f) ==
    CASE f = "blocktree" -> OpenMain(mem)
      [] f = "coinsdb"   -> Allocate(OpenMain(mem), {"blocktree"})
      [] f = "witdb"     -> OpenWitness(mem)
      [] f = "none"      -> Allocate(OpenWitness(mem), WitnessHandles)

\* The undefined behaviour OpenStores(mem, f) commits: a delete of a pointer
\* that an earlier, interrupted, open left dangling.
OpenUB(mem, f) ==
    IF \/ DoubleFree(mem, MainHandles)
       \/ f \in {"witdb", "none"} /\ DoubleFree(mem, WitnessRaw)
    THEN {"double_free"} ELSE {}

(***************************************************************************)
(* The "close coin databases" block of CoreShutdown: under cs_main, flush  *)
(* the state to disk when pcoinsTip is set (FlushStateToDisk writes        *)
(* through pcoinsTip and pblocktree), close the block files, then delete  *)
(* and reset pcoinsTip, pcoinscatcher, pcoinsdbview, ppow2witTip,          *)
(* ppow2witcatcher, ppow2witdbview and pblocktree in that order.           *)
(***************************************************************************)
TeardownStores(mem) == NoStores

TeardownUB(mem) ==
    (IF mem["coinstip"] # "null" /\ \E h \in {"coinstip", "blocktree"} : mem[h] = "dangling"
     THEN {"use_after_free"} ELSE {})
    \cup (IF DoubleFree(mem, Handles \ {"wittip"}) THEN {"double_free"} ELSE {})

\* Every store is open and the main view links to the witness view: the
\* ChainStateHandle the rest of the node reads through.
StoresOpen(mem) == \A h \in Handles : mem[h] = "live"
=============================================================================
