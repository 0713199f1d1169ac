--------------------------- MODULE ImportPipeline ---------------------------
(***************************************************************************)
(* The end of AppInitMain (steps 10 and 11 of init.cpp) and the block     *)
(* import thread it starts:                                                *)
(*                                                                         *)
(*  - CleanupBlockRevFiles, run by the load loop when -reindex meets       *)
(*    -prune: delete every rev file and every blk file after the first gap;*)
(*  - the init thread installs BlockNotifyGenesisWait (or sets            *)
(*    fHaveGenesis when a tip exists), starts ThreadImport, and waits on  *)
(*    condvar_GenesisWait under cs_GenesisWait until fHaveGenesis;        *)
(*  - ThreadImport feeds LoadExternalBlockFile with the numbered block     *)
(*    files from 0 up to the first missing or unopenable one (-reindex),  *)
(*    then bootstrap.dat (renamed to bootstrap.dat.old), then the         *)
(*    -loadblock files in order, and calls ActivateBestChain;             *)
(*  - BlockNotifyGenesisWait runs on the import thread whenever a tip is  *)
(*    connected: it sets fHaveGenesis under the lock, then notify_all.    *)
(*                                                                         *)
(* The shutdown thread appears only through the interrupt it raises: it   *)
(* sets ShutdownRequested and interrupts the thread group, which ends the *)
(* import thread at its next interruption point.  What a block file holds *)
(* is abstracted to whether feeding it connects a tip.                     *)
(***************************************************************************)
EXTENDS Naturals, Sequences

CONSTANTS
    NFiles,   \* block files blk00000.dat .. that may be on disk: indices 0..NFiles-1
    NLoad     \* number of -loadblock files

ASSUME FilesAssumption == NFiles \in Nat \ {0} /\ NLoad \in Nat

FileIndex == 0..(NFiles - 1)

VARIABLES
    args,             \* -reindex, -prune, bootstrap.dat present, -stopafterblockimport
    blkDisk,          \* indices of the blk?????.dat files on disk
    revDisk,          \* indices of the rev?????.dat files on disk
    reindexFlag,      \* the block tree's "reindexing" flag (WriteReindexing)
    bootstrap,        \* bootstrap.dat: "absent", "present", "renamed"
    tip,              \* chainActive.Tip() != NULL
    shutdownRequested,
    interrupted,      \* interrupt_all() reached the import thread
    gpc,              \* where the init thread is
    ipc,              \* where the import thread is
    nFile,            \* the reindex loop's nFile
    nLoad,            \* the -loadblock files fed or skipped so far
    fed,              \* the sources given to LoadExternalBlockFile, in order
    scanBroken,       \* the reindex loop left through a failed open
    lockOwner,        \* holder of cs_GenesisWait: "none" or "init"
    fHaveGenesis,
    handlerConnected, \* BlockNotifyGenesisWait is connected to NotifyBlockTip
    handler           \* the import thread is in BlockNotifyGenesisWait: "none", "set", "notify"

vars == <<args, blkDisk, revDisk, reindexFlag, bootstrap, tip,
          shutdownRequested, interrupted, gpc, ipc, nFile, nLoad, fed,
          scanBroken, lockOwner, fHaveGenesis, handlerConnected, handler>>

\* The options, and the block files found on disk at start (blocks).
Args == [reindex: BOOLEAN, prune: BOOLEAN, bootstrap: BOOLEAN,
         stopafterblockimport: BOOLEAN, blocks: SUBSET FileIndex]

\* A source of blocks: a numbered block file, bootstrap.dat, a -loadblock file.
Source == [kind: {"blk"}, idx: FileIndex] \cup [kind: {"bootstrap"}, idx: {0}]
          \cup [kind: {"load"}, idx: 1..NLoad]

InitLabels   == {"cleanup", "stopcheck", "register", "spawn", "lock", "check",
                 "wait", "waiting", "passed", "exit"}
\* The labels of the init thread before it starts ThreadImport.
PreSpawn     == {"cleanup", "stopcheck", "register", "spawn", "exit"}
ImportLabels == {"none", "start", "scan", "scanend", "bootstrap", "loadblock",
                 "done", "exited"}

-----------------------------------------------------------------------------
(***************************************************************************)
(* CleanupBlockRevFiles: the blk files, keyed by their five-digit index,  *)
(* are walked in key order with nContigCounter; a file whose index equals *)
(* the counter is kept and the counter moves on, any other is removed.    *)
(* step[i] is the walk after the entries with index < i.                  *)
(***************************************************************************)
CleanupKeptOffByOne(S) ==
    LET step[i \in 0..NFiles] ==
          IF i = 0 THEN [counter |-> 1, kept |-> {}]
          ELSE LET prev == step[i - 1] IN
               IF (i - 1) \in S /\ (i - 1) = prev.counter
               THEN [counter |-> prev.counter + 1, kept |-> prev.kept \cup {i - 1}]
               ELSE prev
    IN step[NFiles].kept

CleanupKept(S) ==
    LET step[i \in 0..NFiles] ==
          IF i = 0 THEN [counter |-> 0, kept |-> {}]
          ELSE LET prev == step[i - 1] IN
               IF (i - 1) \in S /\ (i - 1) = prev.counter
               THEN [counter |-> prev.counter + 1, kept |-> prev.kept \cup {i - 1}]
               ELSE prev
    IN step[NFiles].kept

\* What the cleanup must leave: the run of files contiguous from index 0.
ContiguousFromZero(S) == {i \in S : \A j \in 0..i : j \in S}

Init ==
    /\ args \in Args
    /\ blkDisk = args.blocks
    /\ revDisk \in SUBSET FileIndex
    /\ reindexFlag = args.reindex
    /\ bootstrap = IF args.bootstrap THEN "present" ELSE "absent"
    /\ tip \in BOOLEAN
    /\ ~(args.reindex /\ tip)      \* a reindex starts from an empty chain
    /\ shutdownRequested = FALSE
    /\ interrupted = FALSE
    /\ gpc = "cleanup"
    /\ ipc = "none"
    /\ nFile = 0
    /\ nLoad = 0
    /\ fed = <<>>
    /\ scanBroken = FALSE
    /\ lockOwner = "none"
    /\ fHaveGenesis = FALSE
    /\ handlerConnected = FALSE
    /\ handler = "none"

-----------------------------------------------------------------------------
(* The init thread.                                                        *)

\* In the load loop, with -reindex and -prune: CleanupBlockRevFiles().
Cleanup ==
    /\ gpc = "cleanup"
    /\ gpc' = "stopcheck"
    /\ IF args.reindex /\ args.prune
       THEN blkDisk' = CleanupKept(blkDisk) /\ revDisk' = {}
       ELSE UNCHANGED <<blkDisk, revDisk>>
    /\ UNCHANGED <<args, reindexFlag, bootstrap, tip, shutdownRequested,
                   interrupted, ipc, nFile, nLoad, fed, scanBroken, lockOwner,
                   fHaveGenesis, handlerConnected, handler>>

\* After the load loop: if (ShutdownRequested()) return false; (AppInitMain
\* fails and the import thread is never started).
StopCheck ==
    /\ gpc = "stopcheck"
    /\ gpc' = IF shutdownRequested THEN "exit" ELSE "register"
    /\ UNCHANGED <<args, blkDisk, revDisk, reindexFlag, bootstrap, tip,
                   shutdownRequested, interrupted, ipc, nFile, nLoad, fed,
                   scanBroken, lockOwner, fHaveGenesis, handlerConnected, handler>>

\* if (chainActive.Tip() == NULL) connect BlockNotifyGenesisWait;
\* else fHaveGenesis = true;  (no lock: no import thread yet)
Register ==
    /\ gpc = "register"
    /\ gpc' = "spawn"
    /\ IF tip THEN fHaveGenesis' = TRUE /\ UNCHANGED handlerConnected
              ELSE handlerConnected' = TRUE /\ UNCHANGED fHaveGenesis
    /\ UNCHANGED <<args, blkDisk, revDisk, reindexFlag, bootstrap, tip,
                   shutdownRequested, interrupted, ipc, nFile, nLoad, fed,
                   scanBroken, lockOwner, handler>>

\* threadGroup.create_thread(boost::bind(&ThreadImport, vImportFiles));
Spawn ==
    /\ gpc = "spawn"
    /\ gpc' = "lock"
    /\ ipc' = "start"
    /\ UNCHANGED <<args, blkDisk, revDisk, reindexFlag, bootstrap, tip,
                   shutdownRequested, interrupted, nFile, nLoad, fed,
                   scanBroken, lockOwner, fHaveGenesis, handlerConnected,
                   handler>>

\* boost::unique_lock<boost::mutex> lock(cs_GenesisWait), and the
\* re-acquisition of the mutex when wait() returns.
Lock ==
    /\ gpc = "lock"
    /\ lockOwner = "none"
    /\ lockOwner' = "init"
    /\ gpc' = "check"
    /\ UNCHANGED <<args, blkDisk, revDisk, reindexFlag, bootstrap, tip,
                   shutdownRequested, interrupted, ipc, nFile, nLoad, fed,
                   scanBroken, fHaveGenesis, handlerConnected, handler>>

\* while (!fHaveGenesis) ...; once it holds: disconnect the handler and
\* leave the scope, releasing the lock.
Check ==
    /\ gpc = "check"
    /\ IF fHaveGenesis
       THEN /\ gpc' = "passed"
            /\ lockOwner' = "none"
            /\ handlerConnected' = FALSE
       ELSE /\ gpc' = "wait"
            /\ UNCHANGED <<lockOwner, handlerConnected>>
    /\ UNCHANGED <<args, blkDisk, revDisk, reindexFlag, bootstrap, tip,
                   shutdownRequested, interrupted, ipc, nFile, nLoad, fed,
                   scanBroken, fHaveGenesis, handler>>

\* condvar_GenesisWait.wait(lock): release the mutex and block, atomically.
Wait ==
    /\ gpc = "wait"
    /\ gpc' = "waiting"
    /\ lockOwner' = "none"
    /\ UNCHANGED <<args, blkDisk, revDisk, reindexFlag, bootstrap, tip,
                   shutdownRequested, interrupted, ipc, nFile, nLoad, fed,
                   scanBroken, fHaveGenesis, handlerConnected, handler>>

\* A spurious wake-up of the condition variable.
SpuriousWakeup ==
    /\ gpc = "waiting"
    /\ gpc' = "lock"
    /\ UNCHANGED <<args, blkDisk, revDisk, reindexFlag, bootstrap, tip,
                   shutdownRequested, interrupted, ipc, nFile, nLoad, fed,
                   scanBroken, lockOwner, fHaveGenesis, handlerConnected,
                   handler>>

-----------------------------------------------------------------------------
(* The import thread.                                                      *)

Blk(i)        == [kind |-> "blk", idx |-> i]
BootstrapFile == [kind |-> "bootstrap", idx |-> 0]
LoadFile(i)   == [kind |-> "load", idx |-> i]

\* The import thread is not inside the genesis callback.
InThread == handler = "none"

\* LoadExternalBlockFile(src): the blocks it holds may connect a new tip,
\* which (synchronously, on this thread) runs BlockNotifyGenesisWait.
FeedSource(src) ==
    \E connects \in BOOLEAN :
        /\ fed' = Append(fed, src)
        /\ tip' = (tip \/ connects)
        /\ handler' = IF ~tip /\ connects /\ handlerConnected THEN "set" ELSE "none"

\* Mutant of Start: the reindexing flag is cleared before the scan.
StartClearsFlag ==
    /\ ipc = "start"
    /\ ipc' = IF args.reindex THEN "scan" ELSE "bootstrap"
    /\ reindexFlag' = FALSE
    /\ UNCHANGED <<args, blkDisk, revDisk, bootstrap, tip, shutdownRequested,
                   interrupted, gpc, nFile, nLoad, fed, scanBroken, lockOwner,
                   fHaveGenesis, handlerConnected, handler>>

\* CImportingNow; if (fReindex) start the scan at nFile = 0.
Start ==
    /\ ipc = "start"
    /\ ipc' = IF args.reindex THEN "scan" ELSE "bootstrap"
    /\ UNCHANGED <<args, blkDisk, revDisk, reindexFlag, bootstrap, tip,
                   shutdownRequested, interrupted, gpc, nFile, nLoad, fed,
                   scanBroken, lockOwner, fHaveGenesis, handlerConnected,
                   handler>>

\* Mutant of Scan: a missing block file is skipped instead of ending the scan.
ScanSkipMissing ==
    /\ ipc = "scan" /\ InThread
    /\ IF nFile \notin blkDisk
       THEN IF nFile < NFiles
            THEN nFile' = nFile + 1 /\ UNCHANGED <<ipc, scanBroken, fed, tip, handler>>
            ELSE ipc' = "scanend" /\ UNCHANGED <<nFile, scanBroken, fed, tip, handler>>
       ELSE \/ ipc' = "scanend" /\ scanBroken' = TRUE
               /\ UNCHANGED <<nFile, fed, tip, handler>>
            \/ FeedSource(Blk(nFile)) /\ nFile' = nFile + 1
               /\ UNCHANGED <<ipc, scanBroken>>
    /\ UNCHANGED <<args, blkDisk, revDisk, reindexFlag, bootstrap,
                   shutdownRequested, interrupted, gpc, nLoad, lockOwner,
                   fHaveGenesis, handlerConnected>>

\* Mutant of Scan: a block file that exists but does not open is skipped
\* instead of ending the scan.
ScanSkipUnopenable ==
    /\ ipc = "scan" /\ InThread
    /\ IF nFile \notin blkDisk
       THEN ipc' = "scanend" /\ UNCHANGED <<nFile, scanBroken, fed, tip, handler>>
       ELSE \/ nFile' = nFile + 1 /\ scanBroken' = TRUE
               /\ UNCHANGED <<ipc, fed, tip, handler>>
            \/ FeedSource(Blk(nFile)) /\ nFile' = nFile + 1
               /\ UNCHANGED <<ipc, scanBroken>>
    /\ UNCHANGED <<args, blkDisk, revDisk, reindexFlag, bootstrap,
                   shutdownRequested, interrupted, gpc, nLoad, lockOwner,
                   fHaveGenesis, handlerConnected>>

\* One turn of the reindex loop: under cs_main, break when blk<nFile>.dat
\* does not exist or cannot be opened; else feed it and go to nFile + 1.
Scan ==
    /\ ipc = "scan" /\ InThread
    /\ IF nFile \notin blkDisk
       THEN ipc' = "scanend" /\ UNCHANGED <<nFile, scanBroken, fed, tip, handler>>
       ELSE \/ ipc' = "scanend" /\ scanBroken' = TRUE
               /\ UNCHANGED <<nFile, fed, tip, handler>>
            \/ FeedSource(Blk(nFile)) /\ nFile' = nFile + 1
               /\ UNCHANGED <<ipc, scanBroken>>
    /\ UNCHANGED <<args, blkDisk, revDisk, reindexFlag, bootstrap,
                   shutdownRequested, interrupted, gpc, nLoad, lockOwner,
                   fHaveGenesis, handlerConnected>>

\* pblocktree->WriteReindexing(false); fReindex = false; InitBlockIndex.
ScanEnd ==
    /\ ipc = "scanend"
    /\ ipc' = "bootstrap"
    /\ reindexFlag' = FALSE
    /\ UNCHANGED <<args, blkDisk, revDisk, bootstrap, tip, shutdownRequested,
                   interrupted, gpc, nFile, nLoad, fed, scanBroken, lockOwner,
                   fHaveGenesis, handlerConnected, handler>>

\* $DATADIR/bootstrap.dat: when it exists and opens, feed it and rename it
\* to bootstrap.dat.old; when it does not open, log a warning.
ImportBootstrap ==
    /\ ipc = "bootstrap" /\ InThread
    /\ ipc' = "loadblock"
    /\ IF bootstrap = "present"
       THEN \/ FeedSource(BootstrapFile) /\ bootstrap' = "renamed"
            \/ UNCHANGED <<fed, tip, handler, bootstrap>>
       ELSE UNCHANGED <<fed, tip, handler, bootstrap>>
    /\ UNCHANGED <<args, blkDisk, revDisk, reindexFlag, shutdownRequested,
                   interrupted, gpc, nFile, nLoad, scanBroken, lockOwner,
                   fHaveGenesis, handlerConnected>>

\* Mutant of ImportLoadFile: the loop bound is off by one.
ImportLoadFileOffByOne ==
    /\ ipc = "loadblock" /\ InThread
    /\ nLoad <= NLoad
    /\ nLoad' = nLoad + 1
    /\ \/ FeedSource(LoadFile(nLoad + 1))
       \/ UNCHANGED <<fed, tip, handler>>
    /\ UNCHANGED <<args, blkDisk, revDisk, reindexFlag, bootstrap,
                   shutdownRequested, interrupted, gpc, ipc, nFile, scanBroken,
                   lockOwner, fHaveGenesis, handlerConnected>>

\* One -loadblock file, in the order given: feed it, or warn when it does
\* not open.
ImportLoadFile ==
    /\ ipc = "loadblock" /\ InThread
    /\ nLoad < NLoad
    /\ nLoad' = nLoad + 1
    /\ \/ FeedSource(LoadFile(nLoad + 1))
       \/ UNCHANGED <<fed, tip, handler>>
    /\ UNCHANGED <<args, blkDisk, revDisk, reindexFlag, bootstrap,
                   shutdownRequested, interrupted, gpc, ipc, nFile, scanBroken,
                   lockOwner, fHaveGenesis, handlerConnected>>

\* ActivateBestChain: on success a tip exists (InitBlockIndex put genesis
\* in the index); on failure, and with -stopafterblockimport, ask the
\* application to stop.  ~CImportingNow.
Activate ==
    /\ ipc = "loadblock" /\ InThread
    /\ nLoad = NLoad
    /\ ipc' = "done"
    /\ \E ok \in BOOLEAN :
         /\ tip' = (tip \/ ok)
         /\ handler' = IF ~tip /\ ok /\ handlerConnected THEN "set" ELSE "none"
         /\ shutdownRequested' = (shutdownRequested \/ ~ok \/ args.stopafterblockimport)
    /\ UNCHANGED <<args, blkDisk, revDisk, reindexFlag, bootstrap, interrupted,
                   gpc, nFile, nLoad, fed, scanBroken, lockOwner, fHaveGenesis,
                   handlerConnected>>

\* An interruption point in LoadExternalBlockFile or ActivateBestChain
\* throws boost::thread_interrupted: the thread ends where it is.
ImportInterrupted ==
    /\ ipc \in {"scan", "bootstrap", "loadblock"} /\ InThread
    /\ interrupted
    /\ ipc' = "exited"
    /\ UNCHANGED <<args, blkDisk, revDisk, reindexFlag, bootstrap, tip,
                   shutdownRequested, interrupted, gpc, nFile, nLoad, fed,
                   scanBroken, lockOwner, fHaveGenesis, handlerConnected,
                   handler>>

\* Mutant of HandlerSet: fHaveGenesis is set without taking cs_GenesisWait.
HandlerSetUnlocked ==
    /\ handler = "set"
    /\ fHaveGenesis' = TRUE
    /\ handler' = "notify"
    /\ UNCHANGED <<args, blkDisk, revDisk, reindexFlag, bootstrap, tip,
                   shutdownRequested, interrupted, gpc, ipc, nFile, nLoad, fed,
                   scanBroken, lockOwner, handlerConnected>>

\* BlockNotifyGenesisWait: { lock cs_GenesisWait; fHaveGenesis = true; }
HandlerSet ==
    /\ handler = "set"
    /\ lockOwner = "none"
    /\ fHaveGenesis' = TRUE
    /\ handler' = "notify"
    /\ UNCHANGED <<args, blkDisk, revDisk, reindexFlag, bootstrap, tip,
                   shutdownRequested, interrupted, gpc, ipc, nFile, nLoad, fed,
                   scanBroken, lockOwner, handlerConnected>>

\* condvar_GenesisWait.notify_all(): a waiting init thread wakes and goes
\* to re-acquire the mutex.
HandlerNotify ==
    /\ handler = "notify"
    /\ handler' = "none"
    /\ gpc' = IF gpc = "waiting" THEN "lock" ELSE gpc
    /\ UNCHANGED <<args, blkDisk, revDisk, reindexFlag, bootstrap, tip,
                   shutdownRequested, interrupted, ipc, nFile, nLoad, fed,
                   scanBroken, lockOwner, fHaveGenesis, handlerConnected>>

\* The shutdown thread: ShutdownRequested() becomes true and CoreInterrupt
\* interrupts the thread group.  boost's interrupt_all() reaches only the
\* threads already in the group: an import thread created afterwards runs
\* uninterrupted.  (A stop asked by ActivateBestChain comes after the last
\* interruption point of the import thread, so its interrupt changes
\* nothing modelled here.)
Interrupt ==
    /\ ~shutdownRequested
    /\ interrupted' = (ipc # "none")
    /\ shutdownRequested' = TRUE
    /\ UNCHANGED <<args, blkDisk, revDisk, reindexFlag, bootstrap, tip, gpc,
                   ipc, nFile, nLoad, fed, scanBroken, lockOwner, fHaveGenesis,
                   handlerConnected, handler>>

\* Both threads are past the code modelled here, or AppInitMain returned
\* before it started the import thread.
Terminated ==
    /\ \/ gpc = "passed" /\ ipc \in {"done", "exited"}
       \/ gpc = "exit"
    /\ UNCHANGED vars

InitThreadStep == Cleanup \/ StopCheck \/ Register \/ Spawn \/ Lock \/ Check \/ Wait
ImportStep == Start \/ Scan \/ ScanEnd \/ ImportBootstrap \/ ImportLoadFile
              \/ Activate \/ ImportInterrupted \/ HandlerSet \/ HandlerNotify

Next == InitThreadStep \/ ImportStep \/ SpuriousWakeup \/ Interrupt \/ Terminated

\* Both threads run whenever they can; nothing obliges a spurious wake-up
\* or a shutdown request to happen.  The handler's lock of cs_GenesisWait
\* is strongly fair: a mutex that is free again and again is eventually
\* granted to the thread blocked on it (only spurious wake-ups of the init
\* thread take it back in between).
Spec == Init /\ [][Next]_vars /\ WF_vars(InitThreadStep) /\ WF_vars(ImportStep)
        /\ SF_vars(HandlerSet)

-----------------------------------------------------------------------------
TypeOK ==
    /\ args \in Args
    /\ blkDisk \subseteq FileIndex /\ revDisk \subseteq FileIndex
    /\ reindexFlag \in BOOLEAN
    /\ bootstrap \in {"absent", "present", "renamed"}
    /\ tip \in BOOLEAN /\ shutdownRequested \in BOOLEAN /\ interrupted \in BOOLEAN
    /\ gpc \in InitLabels /\ ipc \in ImportLabels
    /\ nFile \in 0..NFiles /\ nLoad \in 0..NLoad
    /\ fed \in Seq(Source)
    /\ scanBroken \in BOOLEAN
    /\ lockOwner \in {"none", "init"}
    /\ fHaveGenesis \in BOOLEAN /\ handlerConnected \in BOOLEAN
    /\ handler \in {"none", "set", "notify"}

\* Position of a source in the import order: block files, then bootstrap,
\* then -loadblock files, each group by index.
Rank(src) == (CASE src.kind = "blk" -> 0 [] src.kind = "bootstrap" -> 1
                [] src.kind = "load" -> 2) * (NFiles + NLoad + 1) + src.idx

\* The import thread feeds the sources in the order of the ImportJob: the
\* block files contiguous from blk00000.dat (the i-th source fed, when a
\* block file, is blk<i-1>), then bootstrap.dat, then the -loadblock files
\* in the order given; none twice.
FedInOrder ==
    /\ \A i, j \in 1..Len(fed) : i < j => Rank(fed[i]) < Rank(fed[j])
    /\ \A i \in 1..Len(fed) : fed[i].kind = "blk" => fed[i].idx = i - 1

\* The "reindexing" flag in the block tree is cleared only after the scan
\* has reached its end (a missing or unopenable block file): an interrupt
\* during the scan leaves it set, so the next start resumes the reindex.
ReindexFlagHonest ==
    args.reindex /\ ~reindexFlag => (nFile \notin blkDisk \/ scanBroken)

\* The indices of the block files fed so far.
FedBlocks == {fed[i].idx : i \in {j \in 1..Len(fed) : fed[j].kind = "blk"}}

\* Once the reindex has cleared its flag, the block files it indexed are
\* blk00000 .. blk<nFile - 1>, all on disk and contiguous from 0; they are
\* all of the contiguous run exactly when no file of the run failed to
\* open: a file that exists but does not open ends the scan like a gap,
\* and it and the files after it stay on disk unindexed.
ReindexScanExtent ==
    args.reindex /\ ~reindexFlag =>
        /\ FedBlocks = 0..(nFile - 1)
        /\ FedBlocks \subseteq ContiguousFromZero(blkDisk)
        /\ (FedBlocks = ContiguousFromZero(blkDisk)) <=> ~scanBroken

\* After CleanupBlockRevFiles has run for a reindex in prune mode, the
\* block files on disk are exactly those of the run contiguous from
\* index 0 among the files found at start: no file the reindex will read
\* is deleted, none it will ignore is kept.
CleanupMatchesReference ==
    (gpc # "cleanup" /\ args.reindex /\ args.prune)
        => blkDisk = ContiguousFromZero(args.blocks)

\* Once a tip has been connected and the init thread is past the
\* ShutdownRequested() check of the load loop, it leaves the genesis wait
\* (no lost wake-up between BlockNotifyGenesisWait and the wait loop).
GenesisWaitEnds ==
    (tip /\ gpc \notin {"cleanup", "stopcheck", "exit"}) ~> (gpc = "passed")

\* A shutdown requested during start-up lets the init thread out of it:
\* AppInitMain returns at the ShutdownRequested() check, or leaves the
\* genesis wait (the spec: the lifecycle worker waits for the import
\* worker's signal; interrupts are cooperative and always observed).
ShutdownEndsGenesisWait == shutdownRequested ~> (gpc \in {"passed", "exit"})
=============================================================================
