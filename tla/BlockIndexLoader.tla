-------------------------- MODULE BlockIndexLoader --------------------------
(***************************************************************************)
(* Step 7 of AppInitMain (init.cpp): the `while (!fLoaded)` loop that      *)
(* opens the chain-state store, upgrades or wipes it, loads and checks the *)
(* block index, and on failure offers the user one reindex; followed by   *)
(* the ShutdownRequested() check after the loop and, when the process     *)
(* stops, the store teardown of CoreShutdown.                              *)
(*                                                                         *)
(* Control is kept statement for statement: pc names the point of the     *)
(* loop body the init thread is at (the labels follow the code's          *)
(* sections and its `goto loadblockindex`).  The results of the calls    *)
(* into the validation and database layers (Upgrade, LoadBlockIndex,      *)
(* UpgradeBlockIndex, InitBlockIndex, RewindBlockIndex, VerifyDB, the     *)
(* database constructors) are nondeterministic: each may fail or throw.   *)
(* The on-disk facts the loop's checks read are state: the txindex flag   *)
(* stored in the block index, the "have pruned" flag, and whether the     *)
(* chain-state database has the pre-2.0 schema (nPreviousVersion < 1).    *)
(***************************************************************************)
EXTENDS Naturals, ChainStateStore

CONSTANT MaxAttempts   \* bound on iterations of the while loop (the code makes at most 2)

ASSUME MaxAttemptsAssumption == MaxAttempts \in Nat \ {0}

VARIABLES
    pc,                \* where the init thread is in the load loop
    args,              \* the command line and the on-disk facts fixed at start
    fReindex,          \* global fReindex
    fReset,            \* local fReset = fReindex at the top of the iteration
    upgradeOnceOnly,   \* the function-static upgradeOnceOnly
    mem,               \* the seven store pointers (ChainStateStore)
    sibling,           \* pcoinsTip->SetSiblingView(ppow2witTip) done on the current tip
    ub,                \* undefined behaviour committed so far
    txIndexFlag,       \* the "txindex" flag stored in the block index (fTxIndex)
    havePruned,        \* fHavePruned, stored in the block index
    indexUpgraded,     \* the block index was converted by UpgradeBlockIndex
    prompts,           \* recovery questions asked so far
    attempts,          \* iterations of the while loop begun
    shutdownRequested  \* ShutdownRequested(): set by HandleSIGTERM

vars == <<pc, args, fReindex, fReset, upgradeOnceOnly, mem, sibling, ub,
          txIndexFlag, havePruned, indexUpgraded, prompts, attempts,
          shutdownRequested>>

Labels == {"Begin", "Open", "AfterOpen", "ResyncCheck", "LoadIndex",
           "UpgradeIndex", "Checks", "Failed", "Loaded", "Started",
           "Exit", "Stopped"}

(***************************************************************************)
(* The options and disk facts the loop reads.  -prune together with       *)
(* -txindex is refused by AppInitParameterInteraction before step 7.      *)
(***************************************************************************)
Args == { a \in [reindex: BOOLEAN, reindexChainState: BOOLEAN,
                 txindex: BOOLEAN, prune: BOOLEAN, resync: BOOLEAN,
                 oldSchema: BOOLEAN, wrongNetwork: BOOLEAN,
                 futureTip: BOOLEAN] : ~(a.prune /\ a.txindex) }

Init ==
    /\ pc = "Begin"
    /\ args \in Args
    /\ fReindex = args.reindex
    /\ fReset = FALSE
    /\ upgradeOnceOnly = TRUE
    /\ mem = NoStores
    /\ sibling = FALSE
    /\ ub = {}
    /\ txIndexFlag \in BOOLEAN
    /\ havePruned \in BOOLEAN
    /\ indexUpgraded = FALSE
    /\ prompts = 0
    /\ attempts = 0
    /\ shutdownRequested = FALSE

\* The chain-state view is empty when checked: the block index or the
\* chain state was wiped by this open, so InitBlockIndex starts afresh.
ChainEmpty == fReindex \/ args.reindexChainState

-----------------------------------------------------------------------------
\* Mutant of Begin: fReset taken once from -reindex, before the loop.
BeginResetOnce ==
    /\ pc = "Begin"
    /\ attempts < MaxAttempts
    /\ fReset' = args.reindex
    /\ attempts' = attempts + 1
    /\ pc' = "Open"
    /\ UNCHANGED <<args, fReindex, upgradeOnceOnly, mem, sibling, ub,
                   txIndexFlag, havePruned, indexUpgraded, prompts,
                   shutdownRequested>>

\* Top of the while loop: fReset = fReindex; UnloadBlockIndex().
Begin ==
    /\ pc = "Begin"
    /\ attempts < MaxAttempts
    /\ fReset' = fReindex
    /\ attempts' = attempts + 1
    /\ pc' = "Open"
    /\ UNCHANGED <<args, fReindex, upgradeOnceOnly, mem, sibling, ub,
                   txIndexFlag, havePruned, indexUpgraded, prompts,
                   shutdownRequested>>

\* Label loadblockindex: delete and re-create the seven stores.  A database
\* constructor that throws is caught at the bottom of the loop body
\* ("Error opening block database").  Opening CBlockTreeDB with
\* fReindex wipes the block index, and with it the pruned flag.
Open ==
    /\ pc = "Open"
    /\ \E f \in OpenFailure :
         /\ mem' = OpenStores(mem, f)
         /\ ub' = ub \cup OpenUB(mem, f)
         /\ sibling' = (f = "none")
         /\ havePruned' = (havePruned /\ ~(fReindex /\ f # "blocktree"))
         /\ pc' = IF f = "none" THEN "AfterOpen" ELSE "Failed"
    /\ UNCHANGED <<args, fReindex, fReset, upgradeOnceOnly, txIndexFlag,
                   indexUpgraded, prompts, attempts, shutdownRequested>>

\* With fReindex: WriteReindexing(true) and, in prune mode,
\* CleanupBlockRevFiles().  Otherwise pcoinsdbview->Upgrade(), whose
\* failure ends the attempt ("Error upgrading chainstate database").
AfterOpen ==
    /\ pc = "AfterOpen"
    /\ \/ fReindex /\ pc' = "ResyncCheck"
       \/ ~fReindex /\ pc' \in {"ResyncCheck", "Failed"}
    /\ UNCHANGED <<args, fReindex, fReset, upgradeOnceOnly, mem, sibling, ub,
                   txIndexFlag, havePruned, indexUpgraded, prompts, attempts,
                   shutdownRequested>>

\* First 2.0-upgrade check: with -resyncforblockindexupgrade on a pre-2.0
\* store, erase the block store, set fReindex and goto loadblockindex.
ResyncCheck ==
    /\ pc = "ResyncCheck"
    /\ IF upgradeOnceOnly /\ args.oldSchema /\ args.resync
       THEN /\ upgradeOnceOnly' = FALSE
            /\ fReindex' = TRUE
            /\ pc' = "Open"
       ELSE /\ pc' = "LoadIndex"
            /\ UNCHANGED <<upgradeOnceOnly, fReindex>>
    /\ UNCHANGED <<args, fReset, mem, sibling, ub, txIndexFlag, havePruned,
                   indexUpgraded, prompts, attempts, shutdownRequested>>

\* LoadBlockIndex(chainparams); failure: "Error loading block database".
LoadIndex ==
    /\ pc = "LoadIndex"
    /\ pc' \in {"UpgradeIndex", "Failed"}
    /\ UNCHANGED <<args, fReindex, fReset, upgradeOnceOnly, mem, sibling, ub,
                   txIndexFlag, havePruned, indexUpgraded, prompts, attempts,
                   shutdownRequested>>

\* Mutant of UpgradeIndex: upgradeOnceOnly is not cleared before the goto.
UpgradeIndexAgain ==
    /\ pc = "UpgradeIndex"
    /\ IF upgradeOnceOnly /\ args.oldSchema
       THEN /\ pc' = "Open"
            /\ \/ ~args.resync /\ indexUpgraded' = TRUE /\ UNCHANGED fReindex
               \/ fReindex' = TRUE /\ UNCHANGED indexUpgraded
            /\ UNCHANGED upgradeOnceOnly
       ELSE /\ pc' = "Checks"
            /\ UNCHANGED <<upgradeOnceOnly, fReindex, indexUpgraded>>
    /\ UNCHANGED <<args, fReset, mem, sibling, ub, txIndexFlag, havePruned,
                   prompts, attempts, shutdownRequested>>

\* Second 2.0-upgrade check: convert the block index in place; on success
\* flush, unload and goto loadblockindex; on failure (or with the resync
\* option) erase the block store, set fReindex and goto loadblockindex.
UpgradeIndex ==
    /\ pc = "UpgradeIndex"
    /\ IF upgradeOnceOnly /\ args.oldSchema
       THEN /\ upgradeOnceOnly' = FALSE
            /\ pc' = "Open"
            /\ \/ ~args.resync /\ indexUpgraded' = TRUE /\ UNCHANGED fReindex
               \/ fReindex' = TRUE /\ UNCHANGED indexUpgraded
       ELSE /\ pc' = "Checks"
            /\ UNCHANGED <<upgradeOnceOnly, fReindex, indexUpgraded>>
    /\ UNCHANGED <<args, fReset, mem, sibling, ub, txIndexFlag, havePruned,
                   prompts, attempts, shutdownRequested>>

(***************************************************************************)
(* The checks after the block index is loaded, in the code's order: a     *)
(* non-empty index without this network's genesis returns InitError at    *)
(* once; InitBlockIndex (which, on an empty chain, writes the -txindex    *)
(* option as the stored flag) may fail; a stored txindex flag differing   *)
(* from -txindex, a pruned store run unpruned, a tip more than two hours  *)
(* in the future fail the attempt; RewindBlockIndex (only when not        *)
(* reindexing and a tip exists) and VerifyDB may fail.                    *)
(***************************************************************************)
\* Mutant of CheckFailures: the changed -txindex check is missing.
CheckFailuresNoTxIndex(txi) ==
    {r \in {"pruned", "future"} :
        \/ r = "pruned"  /\ havePruned /\ ~args.prune
        \/ r = "future"  /\ args.futureTip /\ ~ChainEmpty}

CheckFailures(txi) ==
    {r \in {"txindex", "pruned", "future"} :
        \/ r = "txindex" /\ txi # args.txindex
        \/ r = "pruned"  /\ havePruned /\ ~args.prune
        \/ r = "future"  /\ args.futureTip /\ ~ChainEmpty}

\* The calls of the checks that can fail by themselves.
CallFailures ==
    {"InitBlockIndex", "VerifyDB"} \cup (IF fReindex \/ ChainEmpty THEN {} ELSE {"RewindBlockIndex"})

Checks ==
    /\ pc = "Checks"
    /\ IF args.wrongNetwork /\ ~fReindex
       THEN pc' = "Exit" /\ UNCHANGED txIndexFlag
       ELSE LET txi == IF ChainEmpty THEN args.txindex ELSE txIndexFlag IN
            /\ txIndexFlag' = txi
            /\ \E failed \in CallFailures \cup {"none"} :
                 pc' = IF failed = "none" /\ CheckFailures(txi) = {}
                       THEN "Loaded" ELSE "Failed"
    /\ UNCHANGED <<args, fReindex, fReset, upgradeOnceOnly, mem, sibling, ub,
                   havePruned, indexUpgraded, prompts, attempts,
                   shutdownRequested>>

\* Mutant of Failed: the question is asked whether or not the iteration
\* began with fReindex.
FailedAskAlways ==
    /\ pc = "Failed"
    /\ prompts' = prompts + 1
    /\ \/ fReindex' = TRUE /\ pc' = "Begin"
       \/ pc' = "Exit" /\ UNCHANGED fReindex
    /\ UNCHANGED <<args, fReset, upgradeOnceOnly, mem, sibling, ub,
                   txIndexFlag, havePruned, indexUpgraded, attempts,
                   shutdownRequested>>

\* !fLoaded after the body: ask once ("Do you want to rebuild the block
\* database now?") unless this iteration began with fReindex; a yes sets
\* fReindex and loops, a no or a failure after a reset returns false.
Failed ==
    /\ pc = "Failed"
    /\ IF ~fReset
       THEN /\ prompts' = prompts + 1
            /\ \/ fReindex' = TRUE /\ pc' = "Begin"
               \/ pc' = "Exit" /\ UNCHANGED fReindex
       ELSE /\ pc' = "Exit"
            /\ UNCHANGED <<prompts, fReindex>>
    /\ UNCHANGED <<args, fReset, upgradeOnceOnly, mem, sibling, ub,
                   txIndexFlag, havePruned, indexUpgraded, attempts,
                   shutdownRequested>>

\* After the loop: `if (ShutdownRequested()) return false;`, else go on
\* with the rest of the start-up.
AfterLoop ==
    /\ pc = "Loaded"
    /\ pc' = IF shutdownRequested THEN "Exit" ELSE "Started"
    /\ UNCHANGED <<args, fReindex, fReset, upgradeOnceOnly, mem, sibling, ub,
                   txIndexFlag, havePruned, indexUpgraded, prompts, attempts,
                   shutdownRequested>>

\* SIGTERM/SIGINT (HandleSIGTERM) or the UI asks the application to stop.
RequestShutdown ==
    /\ ~shutdownRequested
    /\ pc # "Stopped"
    /\ shutdownRequested' = TRUE
    /\ UNCHANGED <<pc, args, fReindex, fReset, upgradeOnceOnly, mem, sibling,
                   ub, txIndexFlag, havePruned, indexUpgraded, prompts,
                   attempts>>

\* CoreShutdown's "close coin databases" block, run when start-up failed or
\* when a running node is asked to stop.
Teardown ==
    /\ \/ pc = "Exit"
       \/ pc = "Started" /\ shutdownRequested
    /\ mem' = TeardownStores(mem)
    /\ ub' = ub \cup TeardownUB(mem)
    /\ sibling' = FALSE
    /\ pc' = "Stopped"
    /\ UNCHANGED <<args, fReindex, fReset, upgradeOnceOnly, txIndexFlag,
                   havePruned, indexUpgraded, prompts, attempts,
                   shutdownRequested>>

\* The process has exited.
Terminated == pc = "Stopped" /\ UNCHANGED vars

LoaderStep == Begin \/ Open \/ AfterOpen \/ ResyncCheck \/ LoadIndex
              \/ UpgradeIndex \/ Checks \/ Failed \/ AfterLoop

Next == LoaderStep \/ RequestShutdown \/ Teardown \/ Terminated

\* The init thread runs the loop without waiting on anything: every step
\* that is enabled is eventually taken.  A stop request is an outside
\* event and gets no fairness.
Spec == Init /\ [][Next]_vars /\ WF_vars(LoaderStep) /\ WF_vars(Teardown)

-----------------------------------------------------------------------------
TypeOK ==
    /\ pc \in Labels
    /\ args \in Args
    /\ fReindex \in BOOLEAN /\ fReset \in BOOLEAN
    /\ upgradeOnceOnly \in BOOLEAN
    /\ mem \in [Handles -> Slot]
    /\ sibling \in BOOLEAN
    /\ ub \subseteq UBKind
    /\ txIndexFlag \in BOOLEAN /\ havePruned \in BOOLEAN
    /\ indexUpgraded \in BOOLEAN
    /\ prompts \in Nat /\ attempts \in Nat
    /\ shutdownRequested \in BOOLEAN

\* A loaded store is the one the options ask for: every store is open and
\* the main view links to the witness view, the txindex flag in use is the
\* -txindex option, a pruned store is never used unpruned, and a pre-2.0
\* store was converted or rebuilt.  The code reaches this only through
\* the checks at the end of the loop body, after gotos and a reindex retry.
LoadedConsistent ==
    pc = "Loaded" =>
        /\ StoresOpen(mem) /\ sibling
        /\ txIndexFlag = args.txindex
        /\ ~(havePruned /\ ~args.prune)
        /\ args.oldSchema => (indexUpgraded \/ fReindex)

\* The user is asked to rebuild the block database at most once per start:
\* after a user-approved reindex a second failure is fatal.
RecoveryOfferedOnce == prompts <= 1

\* No pointer of the store is deleted twice nor used after its deletion,
\* in the load loop or in the teardown that follows a failed start.
MemorySafe == ub = {}

(***************************************************************************)
(* The lifecycle phase the loop is in: every point of the loop body is    *)
(* StoreLoading (a goto loadblockindex restarts nothing the lifecycle     *)
(* sees), a loaded store is StoreLoaded, the rest of the start-up is      *)
(* Running, a start-up that returned false is ShuttingDown.  The recovery *)
(* choice is offered each time the question is asked.                     *)
(***************************************************************************)
LoadingLabels == {"Begin", "Open", "AfterOpen", "ResyncCheck", "LoadIndex",
                  "UpgradeIndex", "Checks", "Failed"}

LifecyclePhase ==
    CASE pc \in LoadingLabels -> "StoreLoading"
      [] pc = "Loaded"         -> "StoreLoaded"
      [] pc = "Started"        -> "Running"
      [] pc = "Exit"           -> "ShuttingDown"
      [] pc = "Stopped"        -> "Stopped"

SL == INSTANCE StoreLoading WITH phase <- LifecyclePhase, offers <- prompts

\* The load loop implements the lifecycle the spec gives it: loading ends
\* in a loaded store or in shutting down, and restarts (the reindex retry
\* of the loop) only through the one recovery question, which a failure
\* after the retry can no longer reach.
ImplementsStoreLoading == SL!Spec

\* The load loop always ends: the node starts, or init returns false.
LoaderTerminates == <>(pc \in {"Started", "Exit", "Stopped"})
=============================================================================
