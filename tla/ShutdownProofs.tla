---------------------------- MODULE ShutdownProofs ----------------------------
(***************************************************************************)
(* Proofs about the shutdown sequence, for every set of callers and of     *)
(* worker threads.                                                         *)
(***************************************************************************)
EXTENDS Shutdown, TLAPS

\* The labels of a caller after it has joined the thread group.
AfterJoin == {"netdelete", "dump", "fee", "close", "final", "erase"}

(***************************************************************************)
(* The inductive invariant.  cs_Shutdown is held by exactly the caller in *)
(* the teardown; a caller past join_all() saw every thread gone, and no   *)
(* thread comes back, so the store is open or no thread runs; a mempool   *)
(* cut short by a stop request belongs to a run where shutdown was asked, *)
(* so the dump flag the import thread sets afterwards is false, and the   *)
(* flag is false until the import thread sets it.  A caller that reached  *)
(* the final flush has closed the stores, and nothing opens them again.   *)
(***************************************************************************)
IInv ==
    /\ TypeOK
    /\ \A c \in Callers : spc[c] \in InTeardown <=> lockHolder = c
    /\ \A c \in Callers : spc[c] \in AfterJoin => running = {}
    /\ StoresOpen(mem) \/ running = {}
    /\ mempoolFile # "partial"
    /\ mempoolLoaded = "partial" => shutdownRequested
    /\ fDumpMempoolLater => mempoolLoaded # "partial"
    /\ ipc # "exited" => ~fDumpMempoolLater
    /\ \A c \in Callers : spc[c] \in {"final", "erase"} => mem = NoStores

\* The facts about the shutdown labels the steps below need.
LEMMA LabelFacts ==
    /\ "stopnet" \in InTeardown /\ "erase" \in InTeardown
    /\ "idle" \notin InTeardown /\ "try" \notin InTeardown /\ "done" \notin InTeardown
    /\ "join" \notin AfterJoin /\ "idle" \notin AfterJoin /\ "try" \notin AfterJoin
    /\ "stopnet" \notin AfterJoin /\ "done" \notin AfterJoin
    /\ AfterJoin \subseteq InTeardown
  BY DEF InTeardown, ShutdownLabels, AfterJoin

LEMMA InitIInv == Init => IInv
  <1> SUFFICES ASSUME Init PROVE IInv
    OBVIOUS
  <1>1. TypeOK
    BY DEF Init, TypeOK, Args, ShutdownLabels, ImportLabels, MempoolState,
           Slot, EraseMode
  <1>2. \A c \in Callers : spc[c] \in InTeardown <=> lockHolder = c
    BY LabelFacts, CallersAssumption DEF Init
  <1>3. QED
    BY <1>1, <1>2, LabelFacts DEF Init, IInv, StoresOpen

\* One step of a caller keeps the invariant.
LEMMA CallerIInv ==
    ASSUME IInv, NEW c \in Callers, CallerStep(c)
    PROVE  IInv'
  <1> USE DEF IInv, StoresOpen
  <1>1. CASE CoreInterrupt(c)
    <2>1. TypeOK'
      BY <1>1 DEF CoreInterrupt, Goto, TypeOK, ShutdownLabels
    <2>2. lockHolder # c
      BY <1>1, LabelFacts DEF CoreInterrupt, Goto
    <2>3. \A d \in Callers : spc'[d] \in InTeardown <=> lockHolder' = d
      BY <1>1, <2>2, LabelFacts DEF CoreInterrupt, Goto, TypeOK
    <2>4. QED
      BY <1>1, <2>1, <2>3, LabelFacts DEF CoreInterrupt, Goto, TypeOK
  <1>2. CASE TryLock(c)
    <2>1. CASE lockHolder = "none"
      <3>1. TypeOK'
        BY <1>2, <2>1 DEF TryLock, TypeOK, ShutdownLabels
      <3>2. \A d \in Callers : spc'[d] \in InTeardown <=> lockHolder' = d
        BY <1>2, <2>1, LabelFacts, CallersAssumption DEF TryLock, TypeOK
      <3>3. \A d \in Callers : spc'[d] \in AfterJoin => running' = {}
        BY <1>2, <2>1, LabelFacts DEF TryLock, TypeOK
      <3>4. \A d \in Callers : spc'[d] \in {"final", "erase"} => mem' = NoStores
        BY <1>2, <2>1 DEF TryLock, TypeOK
      <3>5. QED
        BY <1>2, <3>1, <3>2, <3>3, <3>4 DEF TryLock
    <2>2. CASE lockHolder # "none"
      <3>1. lockHolder # c
        BY <1>2, LabelFacts DEF TryLock
      <3>2. QED
        BY <1>2, <2>2, <3>1, LabelFacts DEF TryLock, TypeOK, ShutdownLabels
    <2>3. QED
      BY <2>1, <2>2
  <1>3. CASE StopNetwork(c)
    BY <1>3, LabelFacts DEF StopNetwork, Goto, TypeOK, InTeardown, ShutdownLabels
  <1>4. CASE JoinAll(c)
    BY <1>4, LabelFacts DEF JoinAll, Goto, TypeOK, InTeardown, ShutdownLabels
  <1>5. CASE DeleteNetwork(c)
    BY <1>5, LabelFacts DEF DeleteNetwork, Goto, TypeOK, InTeardown,
       ShutdownLabels, AfterJoin
  <1>6. CASE DumpMempool(c)
    <2>1. mempoolFile' # "partial"
      BY <1>6 DEF DumpMempool
    <2>2. mempoolFile' \in MempoolState \cup {"absent"}
      BY <1>6 DEF DumpMempool, TypeOK
    <2>3. QED
      BY <1>6, <2>1, <2>2, LabelFacts DEF DumpMempool, Goto, TypeOK,
         InTeardown, ShutdownLabels, AfterJoin
  <1>7. CASE WriteFeeEstimates(c)
    BY <1>7, LabelFacts DEF WriteFeeEstimates, Goto, TypeOK, InTeardown,
       ShutdownLabels, AfterJoin
  <1>8. CASE CloseStores(c)
    <2>1. running = {}
      BY <1>8, LabelFacts DEF CloseStores, Goto, AfterJoin
    <2>2. mem' \in [Handles -> Slot]
      BY <1>8 DEF CloseStores, TeardownStores, NoStores, Slot
    <2>3. mem' = NoStores
      BY <1>8 DEF CloseStores, TeardownStores
    <2>4. QED
      BY <1>8, <2>1, <2>2, <2>3, LabelFacts DEF CloseStores, Goto, TypeOK,
         InTeardown, ShutdownLabels, AfterJoin
  <1>9. CASE FinalCleanup(c)
    BY <1>9, LabelFacts DEF FinalCleanup, Goto, TypeOK, InTeardown,
       ShutdownLabels, AfterJoin
  <1>10. CASE EraseDatadir(c)
    <2>1. lockHolder = c
      BY <1>10, LabelFacts DEF EraseDatadir, Goto
    <2>2. \A d \in Callers : d # c => spc[d] \notin InTeardown
      BY <2>1
    <2>3. QED
      BY <1>10, <2>1, <2>2, LabelFacts, CallersAssumption
      DEF EraseDatadir, Goto, TypeOK, ShutdownLabels, EraseMode
  <1>11. QED
    BY <1>1, <1>2, <1>3, <1>4, <1>5, <1>6, <1>7, <1>8, <1>9, <1>10
    DEF CallerStep

\* A step of the import thread keeps the invariant.
LEMMA ImportIInv ==
    ASSUME IInv, ImportStep
    PROVE  IInv'
  <1> USE DEF IInv, StoresOpen
  <1>1. CASE ImportFinish
    <2>1. /\ ipc = "import" /\ ipc' \in {"exited", "loadmempool"}
          /\ running' \subseteq running
          /\ shutdownRequested' \in BOOLEAN
          /\ (shutdownRequested => shutdownRequested')
      <3>1. CASE interrupted /\ ipc' = "exited" /\ running' = running \ {"import"}
                 /\ UNCHANGED shutdownRequested
        BY <1>1, <3>1, Zenon DEF ImportFinish, TypeOK
      <3>2. CASE /\ \E activated \in BOOLEAN :
                      shutdownRequested' = (shutdownRequested \/ ~activated
                                            \/ args.stopafterblockimport)
                 /\ ipc' = IF args.persistmempool THEN "loadmempool" ELSE "exited"
                 /\ running' = IF args.persistmempool THEN running ELSE running \ {"import"}
        <4>1. ipc = "import" /\ ipc' \in {"exited", "loadmempool"} /\ running' \subseteq running
          BY <1>1, <3>2 DEF ImportFinish
        <4>2. shutdownRequested' \in BOOLEAN /\ (shutdownRequested => shutdownRequested')
          BY <3>2, Zenon
        <4>3. QED
          BY <4>1, <4>2
      <3>3. QED
        BY <1>1, <3>1, <3>2 DEF ImportFinish
    <2>2. UNCHANGED <<args, interrupted, connman, spc, lockHolder, entered,
                      mempoolLoaded, fDumpMempoolLater, feeInit, mempoolFile,
                      feeFile, peersFile, chainFiles, mem>>
      BY <1>1 DEF ImportFinish
    <2>3. ~fDumpMempoolLater
      BY <2>1 DEF TypeOK
    <2>4. TypeOK'
      BY <2>1, <2>2 DEF TypeOK, ImportLabels
    <2>5. QED
      BY <2>1, <2>2, <2>3, <2>4
  <1>2. CASE LoadMempool
    <2>1. mempoolLoaded' \in MempoolState /\ (mempoolLoaded' = "partial" => shutdownRequested)
      <3>1. CASE mempoolFile = "absent"
        BY <1>2, <3>1 DEF LoadMempool, MempoolState
      <3>2. CASE mempoolFile # "absent" /\ shutdownRequested
        BY <1>2, <3>2 DEF LoadMempool, MempoolState
      <3>3. CASE mempoolFile # "absent" /\ ~shutdownRequested
        <4>1. mempoolLoaded' = mempoolFile
          BY <1>2, <3>3 DEF LoadMempool
        <4>2. QED
          BY <3>3, <4>1 DEF TypeOK
      <3>4. QED
        BY <3>1, <3>2, <3>3
    <2>2. ipc' = "setflag" /\ ~fDumpMempoolLater' /\ shutdownRequested' = shutdownRequested
      BY <1>2, Zenon DEF LoadMempool, TypeOK
    <2>3. TypeOK'
      BY <1>2, <2>1 DEF LoadMempool, TypeOK, ImportLabels
    <2>4. QED
      BY <1>2, <2>1, <2>2, <2>3 DEF LoadMempool
  <1>3. CASE SetDumpFlag
    BY <1>3 DEF SetDumpFlag, TypeOK, ImportLabels
  <1>4. QED
    BY <1>1, <1>2, <1>3 DEF ImportStep

LEMMA NextIInv == IInv /\ [Next]_vars => IInv'
  <1> SUFFICES ASSUME IInv, [Next]_vars PROVE IInv'
    OBVIOUS
  <1>1. CASE \E c \in Callers : CallerStep(c)
    BY <1>1, CallerIInv
  <1>2. CASE ImportStep
    BY <1>2, ImportIInv
  <1>3. CASE \E w \in Workers : WorkerExit(w)
    BY <1>3 DEF WorkerExit, IInv, TypeOK, StoresOpen
  <1>4. CASE \E w \in Workers : Serve(w)
    BY <1>4 DEF Serve, vars, IInv, TypeOK, StoresOpen
  <1>5. CASE RequestShutdown
    BY <1>5 DEF RequestShutdown, IInv, TypeOK, StoresOpen
  <1>6. CASE Terminated \/ UNCHANGED vars
    BY <1>6 DEF Terminated, vars, IInv, TypeOK, StoresOpen
  <1>7. QED
    BY <1>1, <1>2, <1>3, <1>4, <1>5, <1>6 DEF Next

THEOREM ShutdownInvariant == Spec => []IInv
  BY InitIInv, NextIInv, PTL DEF Spec

\* Two concurrent calls of CoreShutdown never run the teardown at once,
\* for any number of callers: TRY_LOCK admits one caller at a time.
THEOREM TeardownExclusiveThm == Spec => []TeardownExclusive
  <1>1. IInv => TeardownExclusive
    BY DEF IInv, TeardownExclusive
  <1>2. QED
    BY ShutdownInvariant, <1>1, PTL

\* The store is open while any thread of the group runs, for any set of
\* worker threads: CoreShutdown deletes it only after join_all().
THEOREM StoresOpenWhileThreadsRunThm == Spec => []StoresOpenWhileThreadsRun
  <1>1. IInv => StoresOpenWhileThreadsRun
    BY DEF IInv, StoresOpenWhileThreadsRun
  <1>2. QED
    BY ShutdownInvariant, <1>1, PTL

\* mempool.dat never holds a mempool whose reload a stop request cut short.
THEOREM MempoolSnapshotCompleteThm == Spec => []MempoolSnapshotComplete
  <1>1. IInv => MempoolSnapshotComplete
    BY DEF IInv, MempoolSnapshotComplete
  <1>2. QED
    BY ShutdownInvariant, <1>1, PTL

(***************************************************************************)
(* The refinement of TeardownOrder.  Besides IInv it needs the state of   *)
(* g_connman along a caller's path: a caller past CoreInterrupt has       *)
(* interrupted the thread group and g_connman, and one past the network   *)
(* teardown has deleted g_connman; neither is undone.                     *)
(***************************************************************************)
PastNetDelete == {"dump", "fee", "close", "final", "erase"}

NetOrderInv ==
    /\ \A c \in Callers : spc[c] # "idle" => interrupted /\ connman # "running"
    /\ \A c \in Callers : spc[c] \in PastNetDelete => connman = "deleted"

LEMMA InitNetOrderInv == Init => NetOrderInv
  BY DEF Init, NetOrderInv, PastNetDelete

LEMMA CallerNetOrder ==
    ASSUME IInv, NetOrderInv, NEW c \in Callers, CallerStep(c)
    PROVE  NetOrderInv'
  <1> USE DEF IInv, TypeOK, NetOrderInv, PastNetDelete, Goto
  <1>1. CASE CoreInterrupt(c)
    BY <1>1 DEF CoreInterrupt
  <1>2. CASE TryLock(c)
    <2>1. spc'[c] \in {"stopnet", "done"} /\ UNCHANGED <<interrupted, connman>>
      BY <1>2 DEF TryLock
    <2>2. \A d \in Callers \ {c} : spc'[d] = spc[d]
      BY <1>2 DEF TryLock
    <2>3. QED
      BY <1>2, <2>1, <2>2 DEF TryLock
  <1>3. CASE StopNetwork(c)
    BY <1>3 DEF StopNetwork
  <1>4. CASE JoinAll(c)
    BY <1>4 DEF JoinAll
  <1>5. CASE DeleteNetwork(c)
    BY <1>5 DEF DeleteNetwork
  <1>6. CASE DumpMempool(c)
    BY <1>6 DEF DumpMempool
  <1>7. CASE WriteFeeEstimates(c)
    BY <1>7 DEF WriteFeeEstimates
  <1>8. CASE CloseStores(c)
    BY <1>8 DEF CloseStores
  <1>9. CASE FinalCleanup(c)
    BY <1>9 DEF FinalCleanup
  <1>10. CASE EraseDatadir(c)
    BY <1>10 DEF EraseDatadir
  <1>11. QED
    BY <1>1, <1>2, <1>3, <1>4, <1>5, <1>6, <1>7, <1>8, <1>9, <1>10
    DEF CallerStep

LEMMA NextNetOrderInv == IInv /\ NetOrderInv /\ [Next]_vars => NetOrderInv'
  <1> SUFFICES ASSUME IInv, NetOrderInv, [Next]_vars PROVE NetOrderInv'
    OBVIOUS
  <1>1. CASE \E c \in Callers : CallerStep(c)
    BY <1>1, CallerNetOrder
  <1>2. CASE ~\E c \in Callers : CallerStep(c)
    <2>1. UNCHANGED <<spc, interrupted, connman>>
      BY <1>2 DEF Next, ImportStep, ImportFinish, LoadMempool, SetDumpFlag,
         WorkerExit, Serve, RequestShutdown, Terminated, vars
    <2>2. QED
      BY <2>1 DEF NetOrderInv
  <1>3. QED
    BY <1>1, <1>2

THEOREM NetOrderInvariant == Spec => [](IInv /\ NetOrderInv)
  BY InitIInv, NextIInv, InitNetOrderInv, NextNetOrderInv, PTL DEF Spec


\* A step that keeps g_connman, the interrupt, the stores and the chain
\* data, and at most lets threads leave, is a step of TeardownOrder or a
\* stutter: the group becomes joined when its last thread leaves.
LEMMA ThreadsLeave ==
    ASSUME running' \subseteq running,
           UNCHANGED <<interrupted, connman, mem, chainFiles>>
    PROVE  [TO!Next]_TO!absVars
  <1>1. CASE running # {} /\ running' = {}
    <2>1. TO!Joined
      BY <1>1 DEF TO!Joined, ThreadsPhase, StoresPhase, ChainPhase
    <2>2. QED
      BY <2>1 DEF TO!Next
  <1>2. CASE ~(running # {} /\ running' = {})
    <2>1. (running' = {}) <=> (running = {})
      BY <1>2
    <2>2. QED
      BY <2>1 DEF TO!absVars, ThreadsPhase, StoresPhase, ChainPhase
  <1>3. QED
    BY <1>1, <1>2

LEMMA CallerRefines ==
    ASSUME IInv, NetOrderInv, NEW c \in Callers, CallerStep(c)
    PROVE  [TO!Next]_TO!absVars
  <1>1. CASE CoreInterrupt(c)
    <2>1. TO!Interrupt
      BY <1>1 DEF CoreInterrupt, TO!Interrupt, ThreadsPhase, StoresPhase, ChainPhase
    <2>2. QED
      BY <2>1 DEF TO!Next
  <1>2. CASE TryLock(c) \/ JoinAll(c) \/ DumpMempool(c) \/ WriteFeeEstimates(c)
             \/ FinalCleanup(c)
    BY <1>2 DEF TryLock, JoinAll, DumpMempool, WriteFeeEstimates, FinalCleanup,
       TO!absVars, ThreadsPhase, StoresPhase, ChainPhase
  <1>3. CASE StopNetwork(c)
    <2>1. connman # "running"
      BY <1>3 DEF StopNetwork, Goto, NetOrderInv
    <2>2. TO!StopNet
      BY <1>3, <2>1 DEF StopNetwork, TO!StopNet, ThreadsPhase, StoresPhase, ChainPhase
    <2>3. QED
      BY <2>2 DEF TO!Next
  <1>4. CASE DeleteNetwork(c)
    <2>1. running = {}
      BY <1>4, LabelFacts DEF DeleteNetwork, Goto, IInv, AfterJoin
    <2>2. TO!DeleteNet
      BY <1>4, <2>1 DEF DeleteNetwork, TO!DeleteNet, ThreadsPhase, StoresPhase, ChainPhase
    <2>3. QED
      BY <2>2 DEF TO!Next
  <1>5. CASE CloseStores(c)
    <2>1. running = {} /\ connman = "deleted"
      BY <1>5, LabelFacts DEF CloseStores, Goto, IInv, AfterJoin, NetOrderInv, PastNetDelete
    <2>2. mem' = NoStores
      BY <1>5 DEF CloseStores, TeardownStores
    <2>3. TO!Close
      BY <1>5, <2>1, <2>2 DEF CloseStores, TO!Close, ThreadsPhase, StoresPhase, ChainPhase
    <2>4. QED
      BY <2>3 DEF TO!Next
  <1>6. CASE EraseDatadir(c)
    <2>1. running = {} /\ mem = NoStores
      BY <1>6, LabelFacts DEF EraseDatadir, Goto, IInv, AfterJoin
    <2>2. CASE chainFiles'
      <3>1. chainFiles
        BY <1>6, <2>2 DEF EraseDatadir
      <3>2. QED
        BY <1>6, <2>2, <3>1 DEF EraseDatadir, TO!absVars, ThreadsPhase,
           StoresPhase, ChainPhase
    <2>3. CASE ~chainFiles'
      <3>1. TO!Erase
        BY <1>6, <2>1, <2>3 DEF EraseDatadir, TO!Erase, ThreadsPhase,
           StoresPhase, ChainPhase
      <3>2. QED
        BY <3>1 DEF TO!Next
    <2>4. QED
      BY <2>2, <2>3
  <1>7. QED
    BY <1>1, <1>2, <1>3, <1>4, <1>5, <1>6 DEF CallerStep

LEMMA ImportRefines ==
    ASSUME ImportStep
    PROVE  [TO!Next]_TO!absVars
  <1>1. running' \subseteq running
    <2>1. CASE ImportFinish
      <3>1. CASE interrupted /\ ipc' = "exited" /\ running' = running \ {"import"}
                 /\ UNCHANGED shutdownRequested
        BY <3>1
      <3>2. CASE /\ \E activated \in BOOLEAN :
                      shutdownRequested' = (shutdownRequested \/ ~activated
                                            \/ args.stopafterblockimport)
                 /\ ipc' = IF args.persistmempool THEN "loadmempool" ELSE "exited"
                 /\ running' = IF args.persistmempool THEN running ELSE running \ {"import"}
        BY <3>2
      <3>3. QED
        BY <2>1, <3>1, <3>2 DEF ImportFinish
    <2>2. CASE LoadMempool \/ SetDumpFlag
      BY <2>2 DEF LoadMempool, SetDumpFlag
    <2>3. QED
      BY <2>1, <2>2 DEF ImportStep
  <1>2. UNCHANGED <<interrupted, connman, mem, chainFiles>>
    BY DEF ImportStep, ImportFinish, LoadMempool, SetDumpFlag
  <1>3. QED
    BY <1>1, <1>2, ThreadsLeave

LEMMA StepRefines == IInv /\ NetOrderInv /\ [Next]_vars => [TO!Next]_TO!absVars
  <1> SUFFICES ASSUME IInv, NetOrderInv, [Next]_vars PROVE [TO!Next]_TO!absVars
    OBVIOUS
  <1>1. CASE \E c \in Callers : CallerStep(c)
    BY <1>1, CallerRefines
  <1>2. CASE ImportStep
    BY <1>2, ImportRefines
  <1>3. CASE \/ \E w \in Workers : WorkerExit(w) \/ Serve(w)
             \/ RequestShutdown \/ Terminated \/ UNCHANGED vars
    <2>1. running' \subseteq running /\ UNCHANGED <<interrupted, connman, mem, chainFiles>>
      BY <1>3 DEF WorkerExit, Serve, RequestShutdown, Terminated, vars
    <2>2. QED
      BY <2>1, ThreadsLeave
  <1>4. QED
    BY <1>1, <1>2, <1>3 DEF Next

\* CoreInterrupt and CoreShutdown implement the teardown order of the
\* lifecycle for every set of callers and workers: g_connman stops after
\* its interrupt, is deleted after join_all(), the stores close after
\* that and the chain data is erased last, and none of it is undone.
THEOREM ImplementsTeardownOrderThm == Spec => ImplementsTeardownOrder
  <1>1. Init => TO!Init
    <2> SUFFICES ASSUME Init PROVE TO!Init
      OBVIOUS
    <2>1. running # {} /\ ~interrupted /\ connman = "running" /\ chainFiles
      BY DEF Init
    <2>2. mem # NoStores
      <3>1. mem["blocktree"] = "live" /\ NoStores["blocktree"] = "null"
        BY DEF Init, NoStores, Handles
      <3>2. QED
        BY <3>1
    <2>3. QED
      BY <2>1, <2>2 DEF TO!Init, ThreadsPhase, StoresPhase, ChainPhase
  <1>2. QED
    BY <1>1, StepRefines, NetOrderInvariant, PTL
    DEF Spec, ImplementsTeardownOrder, TO!Spec

=============================================================================
