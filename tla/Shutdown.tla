------------------------------ MODULE Shutdown ------------------------------
(***************************************************************************)
(* CoreInterrupt and CoreShutdown (init.cpp) run against the threads that *)
(* are still alive when the node is asked to stop: the worker threads of  *)
(* threadGroup (scheduler, script checkers, ...), the block-import thread *)
(* (the tail of ThreadImport: best-chain activation, -stopafterblockimport*)
(* and the mempool reload), and the network engine g_connman.            *)
(*                                                                         *)
(* Callers is the set of threads that call CoreInterrupt and then         *)
(* CoreShutdown once shutdown was requested (the application manager's    *)
(* shutdown thread; a second one models a second invocation).  cs_Shutdown*)
(* is taken with TRY_LOCK: a caller that finds it held returns at once,   *)
(* and the lock is released when CoreShutdown returns.                    *)
(***************************************************************************)
EXTENDS Naturals, ChainStateStore

CONSTANTS
    Callers,   \* threads that run the shutdown sequence
    Workers    \* threadGroup threads other than the import thread

ASSUME CallersAssumption == Callers # {} /\ "none" \notin Callers
ASSUME WorkersAssumption == "import" \notin Workers

VARIABLES
    args,              \* -persistmempool, -stopafterblockimport, erase directive
    shutdownRequested, \* ShutdownRequested()
    interrupted,       \* threadGroup.interrupt_all() has been called
    connman,           \* g_connman: "running", "interrupted", "stopped", "deleted"
    spc,               \* spc[c]: where caller c is in the shutdown sequence
    lockHolder,        \* the caller holding cs_Shutdown, or "none"
    entered,           \* calls of CoreShutdown that got past TRY_LOCK
    running,           \* threadGroup threads that have not exited
    ipc,               \* where the import thread is
    mempoolLoaded,     \* in-memory mempool: "empty", "partial", "full"
    fDumpMempoolLater, \* the global of the same name
    feeInit,           \* fFeeEstimatesInitialized
    mempoolFile,       \* mempool.dat: "absent", or the mempool it holds
    feeFile,           \* fee_estimates.dat exists
    peersFile,         \* banlist.dat/peers.dat/autocheckpoints exist
    chainFiles,        \* blocks/chainstate/witstate/database exist
    mem                \* the chain-state store pointers (ChainStateStore)

vars == <<args, shutdownRequested, interrupted, connman, spc, lockHolder,
          entered, running, ipc, mempoolLoaded, fDumpMempoolLater, feeInit,
          mempoolFile, feeFile, peersFile, chainFiles, mem>>

ShutdownLabels == {"idle", "try", "stopnet", "join", "netdelete", "dump",
                   "fee", "close", "final", "erase", "done"}
ImportLabels == {"import", "loadmempool", "setflag", "exited"}
\* The labels between a successful TRY_LOCK and the return.
InTeardown == ShutdownLabels \ {"idle", "try", "done"}
EraseMode == {"none", "partial", "full"}
MempoolState == {"empty", "partial", "full"}

Args == [persistmempool: BOOLEAN, stopafterblockimport: BOOLEAN,
         erase: EraseMode]

\* The node has finished AppInitMain: every thread runs, the stores are
\* open, fee estimates were read, and the import thread is still busy.
Init ==
    /\ args \in Args
    /\ shutdownRequested = FALSE
    /\ interrupted = FALSE
    /\ connman = "running"
    /\ spc = [c \in Callers |-> "idle"]
    /\ lockHolder = "none"
    /\ entered = 0
    /\ running = Workers \cup {"import"}
    /\ ipc = "import"
    /\ mempoolLoaded = "empty"
    /\ fDumpMempoolLater = FALSE
    /\ feeInit = TRUE
    /\ mempoolFile \in {"absent", "full"}
    /\ feeFile \in BOOLEAN
    /\ peersFile = TRUE
    /\ chainFiles = TRUE
    /\ mem = [h \in Handles |-> "live"]

-----------------------------------------------------------------------------
(* The import thread (ThreadImport, after the block files are read).      *)

\* ActivateBestChain; on failure, or with -stopafterblockimport, ask the
\* application to stop.  An interrupt raised while blocks are imported
\* ends the thread (boost::thread_interrupted) before the mempool reload.
ImportFinish ==
    /\ ipc = "import"
    /\ \/ /\ interrupted
          /\ ipc' = "exited"
          /\ running' = running \ {"import"}
          /\ UNCHANGED shutdownRequested
       \/ /\ \E activated \in BOOLEAN :
                shutdownRequested' = (shutdownRequested \/ ~activated
                                      \/ args.stopafterblockimport)
          /\ ipc' = IF args.persistmempool THEN "loadmempool" ELSE "exited"
          /\ running' = IF args.persistmempool THEN running ELSE running \ {"import"}
    /\ UNCHANGED <<args, interrupted, connman, spc, lockHolder, entered,
                   mempoolLoaded, fDumpMempoolLater, feeInit, mempoolFile,
                   feeFile, peersFile, chainFiles, mem>>

\* LoadMempool() reads mempool.dat and stops early once shutdown has been
\* requested, leaving the mempool partly loaded.
LoadMempool ==
    /\ ipc = "loadmempool"
    /\ mempoolLoaded' = CASE mempoolFile = "absent" -> "empty"
                          [] shutdownRequested      -> "partial"
                          [] OTHER                  -> mempoolFile
    /\ ipc' = "setflag"
    /\ UNCHANGED <<args, shutdownRequested, interrupted, connman, spc,
                   lockHolder, entered, running, fDumpMempoolLater, feeInit,
                   mempoolFile, feeFile, peersFile, chainFiles, mem>>

\* Mutant of SetDumpFlag: the mempool is always dumped at shutdown.
SetDumpFlagAlways ==
    /\ ipc = "setflag"
    /\ fDumpMempoolLater' = TRUE
    /\ ipc' = "exited"
    /\ running' = running \ {"import"}
    /\ UNCHANGED <<args, shutdownRequested, interrupted, connman, spc,
                   lockHolder, entered, mempoolLoaded, feeInit, mempoolFile,
                   feeFile, peersFile, chainFiles, mem>>

\* fDumpMempoolLater = !ShutdownRequested(); the thread then exits.
SetDumpFlag ==
    /\ ipc = "setflag"
    /\ fDumpMempoolLater' = ~shutdownRequested
    /\ ipc' = "exited"
    /\ running' = running \ {"import"}
    /\ UNCHANGED <<args, shutdownRequested, interrupted, connman, spc,
                   lockHolder, entered, mempoolLoaded, feeInit, mempoolFile,
                   feeFile, peersFile, chainFiles, mem>>

\* Any other threadGroup thread leaves at its next interruption point once
\* interrupt_all() has been called.
WorkerExit(w) ==
    /\ interrupted
    /\ w \in running
    /\ running' = running \ {w}
    /\ UNCHANGED <<args, shutdownRequested, interrupted, connman, spc,
                   lockHolder, entered, ipc, mempoolLoaded, fDumpMempoolLater,
                   feeInit, mempoolFile, feeFile, peersFile, chainFiles, mem>>

\* SIGTERM/SIGINT, the UI or an RPC `stop` ask the application to stop.
RequestShutdown ==
    /\ ~shutdownRequested
    /\ shutdownRequested' = TRUE
    /\ UNCHANGED <<args, interrupted, connman, spc, lockHolder, entered,
                   running, ipc, mempoolLoaded, fDumpMempoolLater, feeInit,
                   mempoolFile, feeFile, peersFile, chainFiles, mem>>

\* A threadGroup thread doing work that changes nothing modelled here.
Serve(w) ==
    /\ w \in running
    /\ UNCHANGED vars

-----------------------------------------------------------------------------
(* A caller of the shutdown sequence: CoreInterrupt, then CoreShutdown.  *)

\* Shorthand: caller c moves from label a to label b.
Goto(c, a, b) == spc[c] = a /\ spc' = [spc EXCEPT ![c] = b]

\* Mutant of CoreInterrupt: the thread group is not interrupted.
CoreInterruptNoThreads(c) ==
    /\ shutdownRequested
    /\ Goto(c, "idle", "try")
    /\ connman' = IF connman = "running" THEN "interrupted" ELSE connman
    /\ UNCHANGED <<args, shutdownRequested, interrupted, lockHolder, entered,
                   running, ipc, mempoolLoaded, fDumpMempoolLater, feeInit,
                   mempoolFile, feeFile, peersFile, chainFiles, mem>>

\* Stop mining, g_connman->Interrupt(), interrupt the HTTP, RPC, REST and
\* Tor services, threadGroup.interrupt_all().
CoreInterrupt(c) ==
    /\ shutdownRequested
    /\ Goto(c, "idle", "try")
    /\ interrupted' = TRUE
    /\ connman' = IF connman = "running" THEN "interrupted" ELSE connman
    /\ UNCHANGED <<args, shutdownRequested, lockHolder, entered, running, ipc,
                   mempoolLoaded, fDumpMempoolLater, feeInit, mempoolFile,
                   feeFile, peersFile, chainFiles, mem>>

\* Mutant of TryLock: the result of TRY_LOCK is not checked.
TryLockUnchecked(c) ==
    /\ spc[c] = "try"
    /\ lockHolder' = c
    /\ entered' = entered + 1
    /\ spc' = [spc EXCEPT ![c] = "stopnet"]
    /\ UNCHANGED <<args, shutdownRequested, interrupted, connman, running, ipc,
                   mempoolLoaded, fDumpMempoolLater, feeInit, mempoolFile,
                   feeFile, peersFile, chainFiles, mem>>

\* TRY_LOCK(cs_Shutdown, lockShutdown); if (!lockShutdown) return;
TryLock(c) ==
    /\ spc[c] = "try"
    /\ IF lockHolder = "none"
       THEN /\ lockHolder' = c
            /\ entered' = entered + 1
            /\ spc' = [spc EXCEPT ![c] = "stopnet"]
       ELSE /\ spc' = [spc EXCEPT ![c] = "done"]
            /\ UNCHANGED <<lockHolder, entered>>
    /\ UNCHANGED <<args, shutdownRequested, interrupted, connman, running, ipc,
                   mempoolLoaded, fDumpMempoolLater, feeInit, mempoolFile,
                   feeFile, peersFile, chainFiles, mem>>

\* mempool.AddTransactionsUpdated(1); if (g_connman) g_connman->Stop();
StopNetwork(c) ==
    /\ Goto(c, "stopnet", "join")
    /\ connman' = IF connman = "deleted" THEN "deleted" ELSE "stopped"
    /\ UNCHANGED <<args, shutdownRequested, interrupted, lockHolder, entered,
                   running, ipc, mempoolLoaded, fDumpMempoolLater, feeInit,
                   mempoolFile, feeFile, peersFile, chainFiles, mem>>

\* Mutant of JoinAll: join_all() does not wait for the import thread.
JoinAllButImport(c) ==
    /\ running \subseteq {"import"}
    /\ Goto(c, "join", "netdelete")
    /\ UNCHANGED <<args, shutdownRequested, interrupted, connman, lockHolder,
                   entered, running, ipc, mempoolLoaded, fDumpMempoolLater,
                   feeInit, mempoolFile, feeFile, peersFile, chainFiles, mem>>

\* Stop the HTTP, RPC, REST and Tor services; threadGroup.join_all()
\* blocks until every thread of the group has exited; then the wallets
\* are flushed (Flush(false)).
JoinAll(c) ==
    /\ running = {}
    /\ Goto(c, "join", "netdelete")
    /\ UNCHANGED <<args, shutdownRequested, interrupted, connman, lockHolder,
                   entered, running, ipc, mempoolLoaded, fDumpMempoolLater,
                   feeInit, mempoolFile, feeFile, peersFile, chainFiles, mem>>

\* MapPort(false); unregister and delete peerLogic; g_connman.reset().
DeleteNetwork(c) ==
    /\ Goto(c, "netdelete", "dump")
    /\ connman' = "deleted"
    /\ UNCHANGED <<args, shutdownRequested, interrupted, lockHolder, entered,
                   running, ipc, mempoolLoaded, fDumpMempoolLater, feeInit,
                   mempoolFile, feeFile, peersFile, chainFiles, mem>>

\* UnregisterNodeSignals; if (fDumpMempoolLater && -persistmempool)
\* DumpMempool() writes the in-memory mempool to mempool.dat.
DumpMempool(c) ==
    /\ Goto(c, "dump", "fee")
    /\ mempoolFile' = IF fDumpMempoolLater /\ args.persistmempool
                       THEN mempoolLoaded ELSE mempoolFile
    /\ UNCHANGED <<args, shutdownRequested, interrupted, connman, lockHolder,
                   entered, running, ipc, mempoolLoaded, fDumpMempoolLater,
                   feeInit, feeFile, peersFile, chainFiles, mem>>

\* if (fFeeEstimatesInitialized): write fee_estimates.dat, clear the flag.
WriteFeeEstimates(c) ==
    /\ Goto(c, "fee", "close")
    /\ feeFile' = (feeFile \/ feeInit)
    /\ feeInit' = FALSE
    /\ UNCHANGED <<args, shutdownRequested, interrupted, connman, lockHolder,
                   entered, running, ipc, mempoolLoaded, fDumpMempoolLater,
                   mempoolFile, peersFile, chainFiles, mem>>

\* Under cs_main: flush, close block files, delete the seven store pointers.
CloseStores(c) ==
    /\ Goto(c, "close", "final")
    /\ mem' = TeardownStores(mem)
    /\ UNCHANGED <<args, shutdownRequested, interrupted, connman, lockHolder,
                   entered, running, ipc, mempoolLoaded, fDumpMempoolLater,
                   feeInit, mempoolFile, feeFile, peersFile, chainFiles>>

\* Final wallet flush, ZMQ, pid file, validation interfaces, wallets
\* deleted, ECC_Stop(): nothing this model reads afterwards.
FinalCleanup(c) ==
    /\ Goto(c, "final", "erase")
    /\ UNCHANGED <<args, shutdownRequested, interrupted, connman, lockHolder,
                   entered, running, ipc, mempoolLoaded, fDumpMempoolLater,
                   feeInit, mempoolFile, feeFile, peersFile, chainFiles, mem>>

\* The erase directive: a partial erase removes autocheckpoints, banlist
\* and peers; a full one also mempool.dat, fee estimates and the chain
\* data.  CoreShutdown returns and lockShutdown releases cs_Shutdown.
EraseDatadir(c) ==
    /\ Goto(c, "erase", "done")
    /\ peersFile' = (peersFile /\ args.erase = "none")
    /\ mempoolFile' = IF args.erase = "full" THEN "absent" ELSE mempoolFile
    /\ feeFile' = (feeFile /\ args.erase # "full")
    /\ chainFiles' = (chainFiles /\ args.erase # "full")
    /\ lockHolder' = "none"
    /\ UNCHANGED <<args, shutdownRequested, interrupted, connman, entered,
                   running, ipc, mempoolLoaded, fDumpMempoolLater, feeInit, mem>>

\* Every caller has returned: the process exits.
Terminated ==
    /\ \A c \in Callers : spc[c] = "done"
    /\ UNCHANGED vars

CallerStep(c) ==
    \/ CoreInterrupt(c) \/ TryLock(c) \/ StopNetwork(c) \/ JoinAll(c)
    \/ DeleteNetwork(c) \/ DumpMempool(c) \/ WriteFeeEstimates(c)
    \/ CloseStores(c) \/ FinalCleanup(c) \/ EraseDatadir(c)

ImportStep == ImportFinish \/ LoadMempool \/ SetDumpFlag

Next ==
    \/ \E c \in Callers : CallerStep(c)
    \/ ImportStep
    \/ \E w \in Workers : WorkerExit(w) \/ Serve(w)
    \/ RequestShutdown
    \/ Terminated

\* Every thread runs when it can; a stop request is an outside event.
Spec == /\ Init /\ [][Next]_vars
        /\ \A c \in Callers : WF_vars(CallerStep(c))
        /\ WF_vars(ImportStep)
        /\ \A w \in Workers : WF_vars(WorkerExit(w))

-----------------------------------------------------------------------------
TypeOK ==
    /\ args \in Args
    /\ shutdownRequested \in BOOLEAN /\ interrupted \in BOOLEAN
    /\ connman \in {"running", "interrupted", "stopped", "deleted"}
    /\ spc \in [Callers -> ShutdownLabels]
    /\ lockHolder \in Callers \cup {"none"}
    /\ entered \in Nat
    /\ running \subseteq Workers \cup {"import"}
    /\ ipc \in ImportLabels
    /\ mempoolLoaded \in MempoolState
    /\ fDumpMempoolLater \in BOOLEAN /\ feeInit \in BOOLEAN
    /\ mempoolFile \in MempoolState \cup {"absent"}
    /\ feeFile \in BOOLEAN /\ peersFile \in BOOLEAN /\ chainFiles \in BOOLEAN
    /\ mem \in [Handles -> Slot]

\* mempool.dat is never overwritten with a mempool whose reload was cut
\* short by a shutdown request: the import thread reads ShutdownRequested
\* after LoadMempool, and CoreShutdown dumps only if it read false.
MempoolSnapshotComplete == mempoolFile # "partial"

\* While any threadGroup thread (the import thread included) is alive, the
\* chain-state store it reads is open: CoreShutdown deletes the store
\* pointers only after join_all().
StoresOpenWhileThreadsRun == running # {} => StoresOpen(mem)

\* A stop request always completes: every caller of the shutdown sequence
\* returns, and every thread of the group has exited, which needs each
\* thread to observe the interrupt.
ShutdownCompletes ==
    shutdownRequested ~> (running = {} /\ \A c \in Callers : spc[c] = "done")

\* Two concurrent calls of CoreShutdown never run its teardown steps at
\* the same time: while one caller is between TRY_LOCK and its return,
\* any other caller is outside (the spec: the second of two concurrent
\* calls returns at once).
TeardownExclusive ==
    \A c, d \in Callers :
        c # d => ~(spc[c] \in InTeardown /\ spc[d] \in InTeardown)

\* The teardown steps of CoreShutdown run at most once, however many
\* threads call it (the spec: a second call is a no-op).
TeardownRunsOnce == entered <= 1

\* The worker group as the lifecycle sees it: joined once every thread has
\* left, interrupted once interrupt_all() was called.
ThreadsPhase ==
    IF running = {} THEN "joined" ELSE IF interrupted THEN "interrupted" ELSE "running"

\* The store is closed once CoreShutdown has deleted the seven pointers.
StoresPhase == IF mem = NoStores THEN "closed" ELSE "open"

\* The chain data is erased once a full erase has removed it.
ChainPhase == IF chainFiles THEN "kept" ELSE "erased"

TO == INSTANCE TeardownOrder
        WITH net <- connman, threads <- ThreadsPhase,
             stores <- StoresPhase, chain <- ChainPhase

\* CoreInterrupt and CoreShutdown, run by any number of callers against the
\* import thread and the workers, implement the teardown order the spec
\* gives: g_connman is stopped only after its Interrupt(), deleted only
\* after join_all(), the seven stores are deleted only after that, and
\* the chain data is removed last; a second call repeats only steps that
\* change nothing.
ImplementsTeardownOrder == TO!Spec
=============================================================================
