------------------------- MODULE ImportPipelineProofs -------------------------
(***************************************************************************)
(* Proofs about the block import thread, for every number of block files  *)
(* and of -loadblock files.                                                *)
(***************************************************************************)
EXTENDS ImportPipeline, SequenceTheorems, WellFoundedInduction, TLAPS

\* The width of one group of sources in Rank.
K == NFiles + NLoad + 1

\* FedInOrder for any sequence of sources.
InOrder(s) ==
    /\ \A i, j \in 1..Len(s) : i < j => Rank(s[i]) < Rank(s[j])
    /\ \A i \in 1..Len(s) : s[i].kind = "blk" => s[i].idx = i - 1

(***************************************************************************)
(* The rank of the next source the import thread may feed: blk<nFile>     *)
(* while it scans, bootstrap.dat after the scan, the next -loadblock file *)
(* after that.  Every source fed so far ranks below it.                    *)
(***************************************************************************)
FrontierAt(p, nf, nl) ==
    CASE p \in {"none", "start", "scan"} -> nf
      [] p \in {"scanend", "bootstrap"}  -> K
      [] OTHER                           -> 2 * K + nl + 1

Frontier == FrontierAt(ipc, nFile, nLoad)

(***************************************************************************)
(* The inductive invariant of FedInOrder: the sources fed are in order and *)
(* below the frontier, and while the scan runs it has fed exactly the      *)
(* files blk0 .. blk<nFile - 1>.                                           *)
(***************************************************************************)
OrderInv ==
    /\ TypeOK
    /\ InOrder(fed)
    /\ ipc \in {"none", "start", "scan"} => Len(fed) = nFile
    /\ \A i \in 1..Len(fed) : Rank(fed[i]) < Frontier
    /\ gpc \in PreSpawn => ipc = "none"

\* Where each kind of source sits in the order.
LEMMA RankFacts ==
    /\ \A i \in FileIndex : Rank(Blk(i)) = i /\ i < K
    /\ Rank(BootstrapFile) = K
    /\ \A i \in 1..NLoad : Rank(LoadFile(i)) = 2 * K + i
    /\ \A src \in Source : Rank(src) \in Nat
  <1> USE FilesAssumption DEF K, FileIndex
  <1>1. \A i \in FileIndex : Rank(Blk(i)) = i /\ i < K
    BY DEF Rank, Blk
  <1>2. Rank(BootstrapFile) = K
    BY DEF Rank, BootstrapFile
  <1>3. \A i \in 1..NLoad : Rank(LoadFile(i)) = 2 * K + i
    BY DEF Rank, LoadFile
  <1>4. \A src \in Source : Rank(src) \in Nat
    BY DEF Rank, Source
  <1>5. QED
    BY <1>1, <1>2, <1>3, <1>4

\* The frontier at each place of the import thread.
LEMMA FrontierFacts ==
    ASSUME NEW p, NEW nf \in Nat, NEW nl \in Nat
    PROVE  /\ p \in {"none", "start", "scan"} => FrontierAt(p, nf, nl) = nf
           /\ p \in {"scanend", "bootstrap"} => FrontierAt(p, nf, nl) = K
           /\ p \notin {"none", "start", "scan", "scanend", "bootstrap"}
                => FrontierAt(p, nf, nl) = 2 * K + nl + 1
           /\ FrontierAt(p, nf, nl) \in Nat
  BY FilesAssumption DEF FrontierAt, K

\* Appending a source that ranks at the frontier, and that, when a block
\* file, is the next block file, keeps a sequence in order.
LEMMA AppendInOrder ==
    ASSUME NEW s \in Seq(Source), NEW src \in Source, NEW f \in Nat,
           InOrder(s),
           \A i \in 1..Len(s) : Rank(s[i]) < f,
           Rank(src) = f,
           src.kind = "blk" => src.idx = Len(s)
    PROVE  /\ InOrder(Append(s, src))
           /\ \A i \in 1..Len(Append(s, src)) : Rank(Append(s, src)[i]) < f + 1
  <1>1. /\ Append(s, src) \in Seq(Source)
        /\ Len(Append(s, src)) = Len(s) + 1
        /\ \A i \in 1..Len(s) : Append(s, src)[i] = s[i]
        /\ Append(s, src)[Len(s) + 1] = src
    BY AppendProperties
  <1>2. \A i \in 1..Len(s) : Rank(s[i]) \in Nat
    BY RankFacts, ElementOfSeq
  <1>3. QED
    BY <1>1, <1>2 DEF InOrder

LEMMA InitOrderInv == Init => OrderInv
  <1> SUFFICES ASSUME Init PROVE OrderInv
    OBVIOUS
  <1>1. fed \in Seq(Source)
    BY EmptySeq DEF Init
  <1>2. blkDisk \subseteq FileIndex /\ revDisk \subseteq FileIndex
    BY DEF Init, Args
  <1>3. nFile \in 0..NFiles /\ nLoad \in 0..NLoad
    BY FilesAssumption DEF Init
  <1>4. bootstrap \in {"absent", "present", "renamed"}
    BY DEF Init
  <1>5. gpc \in InitLabels /\ ipc \in ImportLabels
    BY DEF Init, InitLabels, ImportLabels
  <1>6. /\ args \in Args /\ reindexFlag \in BOOLEAN /\ tip \in BOOLEAN
        /\ shutdownRequested \in BOOLEAN /\ interrupted \in BOOLEAN
        /\ scanBroken \in BOOLEAN /\ lockOwner \in {"none", "init"}
        /\ fHaveGenesis \in BOOLEAN /\ handlerConnected \in BOOLEAN
        /\ handler \in {"none", "set", "notify"}
    BY DEF Init, Args
  <1>8. TypeOK
    BY <1>1, <1>2, <1>3, <1>4, <1>5, <1>6 DEF TypeOK
  <1>9. QED
    BY <1>8 DEF Init, OrderInv, InOrder

\* A step that feeds a source keeps the invariant, given what it appends.
LEMMA FeedOrderInv ==
    ASSUME OrderInv, NEW src \in Source,
           fed' = Append(fed, src),
           Rank(src) = Frontier,
           src.kind = "blk" => src.idx = Len(fed),
           Frontier' \in Nat, Frontier' >= Frontier + 1,
           TypeOK'
    PROVE  InOrder(fed)' /\ \A i \in 1..Len(fed') : Rank(fed'[i]) < Frontier'
  <1>1. Frontier \in Nat
    BY RankFacts
  <1>2. fed \in Seq(Source)
    BY DEF OrderInv, TypeOK
  <1>3. /\ InOrder(Append(fed, src))
        /\ \A i \in 1..Len(Append(fed, src)) : Rank(Append(fed, src)[i]) < Frontier + 1
    BY <1>1, <1>2, AppendInOrder DEF OrderInv
  <1>4. \A i \in 1..Len(fed') : Rank(fed'[i]) < Frontier'
    BY <1>1, <1>2, <1>3, RankFacts, AppendProperties
  <1>5. QED
    BY <1>3, <1>4 DEF InOrder

(***************************************************************************)
(* The walk of CleanupBlockRevFiles keeps only indices below NFiles.  The *)
(* walk is a function defined by recursion over 0..NFiles; it is unfolded *)
(* with FiniteNatInductiveDef and a least index where it would leave the   *)
(* type is ruled out with the well-foundedness of < on Nat.                *)
(***************************************************************************)
LEMMA CleanupKeptType ==
    ASSUME NEW B
    PROVE  CleanupKept(B) \subseteq FileIndex
  <1> DEFINE Def(prev, i) ==
               IF (i - 1) \in B /\ (i - 1) = prev.counter
               THEN [counter |-> prev.counter + 1, kept |-> prev.kept \cup {i - 1}]
               ELSE prev
             c == [counter |-> 0, kept |-> {}]
             f == CHOOSE g : g = [i \in 0..NFiles |-> IF i = 0 THEN c ELSE Def(g[i - 1], i)]
             T == [counter : Nat, kept : SUBSET FileIndex]
  <1> USE FilesAssumption
  <1>1. CleanupKept(B) = f[NFiles].kept
    BY DEF CleanupKept
  <1>2. \A v \in T, i \in (0 + 1)..NFiles : Def(v, i) \in T
    BY DEF FileIndex
  <1>3. c \in T
    OBVIOUS
  <1> HIDE DEF Def, c, T
  <1>4. FiniteNatInductiveDefConclusion(f, c, Def, 0, NFiles)
    <2>1. FiniteNatInductiveDefHypothesis(f, c, Def, 0, NFiles)
      BY DEF FiniteNatInductiveDefHypothesis
    <2> HIDE DEF f
    <2>2. QED
      BY <2>1, FiniteNatInductiveDef
  <1> HIDE DEF f
  <1>5. f = [i \in 0..NFiles |-> IF i = 0 THEN c ELSE Def(f[i - 1], i)]
    BY <1>4, Zenon DEF FiniteNatInductiveDefConclusion
  <1>6. \A k \in 0..NFiles : f[k] \in T
    <2> DEFINE Bad == {k \in 0..NFiles : f[k] \notin T}
    <2> SUFFICES ASSUME Bad # {} PROVE FALSE
      OBVIOUS
    <2>1. Bad \subseteq Nat
      OBVIOUS
    <2>2. PICK x \in Bad : \A y \in Bad : ~(<<y, x>> \in OpToRel(<, Nat))
      <3> HIDE DEF Bad
      <3>1. QED
        BY <2>1, NatLessThanWellFounded, WFMin, Zenon
    <2>3. x # 0
      BY <1>3, <1>5
    <2>4. x - 1 \notin Bad
      <3>1. x \in Nat /\ x - 1 \in Nat /\ x - 1 < x
        BY <2>3
      <3>2. <<x - 1, x>> \in OpToRel(<, Nat)
        BY <3>1 DEF OpToRel
      <3>3. QED
        BY <2>2, <3>2
    <2>5. f[x] = Def(f[x - 1], x)
      BY <2>3, <1>5
    <2>6. QED
      BY <1>2, <2>3, <2>4, <2>5
  <1>7. f[NFiles] \in T
    BY <1>6
  <1>8. QED
    BY <1>1, <1>7 DEF T

\* Every step keeps the types.
LEMMA NextTypeOK == TypeOK /\ [Next]_vars => TypeOK'
  <1> SUFFICES ASSUME TypeOK, [Next]_vars PROVE TypeOK'
    OBVIOUS
  <1> USE FilesAssumption DEF TypeOK, InitLabels, ImportLabels
  <1>1. CASE Cleanup
    <2>1. CleanupKept(blkDisk) \subseteq FileIndex
      BY CleanupKeptType
    <2>2. QED
      BY <1>1, <2>1 DEF Cleanup
  <1>2. CASE Register
    <2>1. fHaveGenesis' \in BOOLEAN /\ handlerConnected' \in BOOLEAN
      BY <1>2, Zenon DEF Register
    <2>2. QED
      BY <1>2, <2>1 DEF Register
  <1>3. CASE Spawn
    BY <1>3 DEF Spawn
  <1>4. CASE Lock
    BY <1>4 DEF Lock
  <1>11. CASE Check
    <2>1. handlerConnected' \in BOOLEAN
      BY <1>11, Zenon DEF Check
    <2>2. QED
      BY <1>11, <2>1 DEF Check
  <1>12. CASE Wait
    BY <1>12 DEF Wait
  <1>13. CASE SpuriousWakeup
    BY <1>13 DEF SpuriousWakeup
  <1>14. CASE Start
    BY <1>14 DEF Start
  <1>15. CASE ScanEnd
    <2>1. reindexFlag' \in BOOLEAN
      BY <1>15, Zenon DEF ScanEnd
    <2>2. QED
      BY <1>15, <2>1 DEF ScanEnd
  <1>16. CASE ImportInterrupted
    BY <1>16 DEF ImportInterrupted
  <1>17. CASE Interrupt
    BY <1>17 DEF Interrupt
  <1>18. CASE HandlerSet
    BY <1>18 DEF HandlerSet
  <1>19. CASE HandlerNotify
    BY <1>19 DEF HandlerNotify
  <1>20. CASE Activate
    BY <1>20 DEF Activate
  <1>5. ASSUME NEW src \in Source, FeedSource(src) PROVE fed' \in Seq(Source) /\ tip' \in BOOLEAN
                                     /\ handler' \in {"none", "set", "notify"}
    BY <1>5, AppendProperties DEF FeedSource
  <1>6. CASE Scan
    <2>1. CASE nFile \in blkDisk
      <3>1. nFile \in FileIndex /\ Blk(nFile) \in Source
        BY <2>1 DEF FileIndex, Blk, Source
      <3>2. CASE ipc' = "scanend" /\ scanBroken' = TRUE
                 /\ UNCHANGED <<nFile, fed, tip, handler>>
        BY <1>6, <3>2 DEF Scan
      <3>3. CASE FeedSource(Blk(nFile)) /\ nFile' = nFile + 1
                 /\ UNCHANGED <<ipc, scanBroken>>
        <4>1. nFile' \in 0..NFiles
          BY <3>1, <3>3 DEF FileIndex
        <4>2. QED
          BY <1>6, <3>1, <3>3, <4>1, <1>5 DEF Scan
      <3>4. QED
        BY <1>6, <2>1, <3>2, <3>3 DEF Scan
    <2>2. QED
      BY <1>6, <2>1 DEF Scan
  <1>7. CASE ImportBootstrap
    <2>1. BootstrapFile \in Source
      BY DEF BootstrapFile, Source
    <2>2. QED
      BY <1>7, <2>1, <1>5 DEF ImportBootstrap
  <1>8. CASE ImportLoadFile
    <2>1. LoadFile(nLoad + 1) \in Source /\ nLoad + 1 \in 0..NLoad
      BY <1>8 DEF ImportLoadFile, LoadFile, Source
    <2>2. QED
      BY <1>8, <2>1, <1>5 DEF ImportLoadFile
  <1>9. CASE Terminated \/ UNCHANGED vars
    BY <1>9 DEF Terminated, vars
  <1>21. CASE StopCheck
    BY <1>21 DEF StopCheck
  <1>10. QED
    BY <1>1, <1>2, <1>3, <1>4, <1>6, <1>7, <1>8, <1>9, <1>11, <1>12, <1>13,
       <1>14, <1>15, <1>16, <1>17, <1>18, <1>19, <1>20, <1>21
    DEF Next, InitThreadStep, ImportStep

\* The import thread exists only once the init thread has spawned it.
LEMMA NextSpawned ==
    ASSUME TypeOK, [Next]_vars, gpc \in PreSpawn => ipc = "none"
    PROVE  gpc' \in PreSpawn => ipc' = "none"
  <1>1. CASE ipc = "none"
    BY <1>1 DEF Next, InitThreadStep, ImportStep, Cleanup, StopCheck, Register, Spawn, Lock,
       Check, Wait, SpuriousWakeup, Interrupt, HandlerSet, HandlerNotify,
       Terminated, vars, PreSpawn, Start, Scan, ScanEnd, ImportBootstrap, ImportLoadFile,
       Activate, ImportInterrupted, InThread
  <1>2. CASE ipc # "none"
    <2>1. gpc \notin PreSpawn
      BY <1>2
    <2>2. gpc' \notin PreSpawn
      BY <2>1 DEF Next, InitThreadStep, ImportStep, Cleanup, StopCheck, Register, Spawn, Lock,
         Check, Wait, SpuriousWakeup, Interrupt, HandlerSet, HandlerNotify,
         Terminated, vars, PreSpawn, Start, Scan, ScanEnd, ImportBootstrap, ImportLoadFile,
         Activate, ImportInterrupted
    <2>3. QED
      BY <2>2
  <1>3. QED
    BY <1>1, <1>2

\* A step that feeds nothing keeps the order when the frontier does not
\* move back.
LEMMA KeepOrder ==
    ASSUME TypeOK, InOrder(fed), \A i \in 1..Len(fed) : Rank(fed[i]) < Frontier,
           fed' = fed, Frontier \in Nat, Frontier' \in Nat, Frontier' >= Frontier
    PROVE  InOrder(fed)' /\ \A i \in 1..Len(fed') : Rank(fed'[i]) < Frontier'
  <1>1. \A i \in 1..Len(fed) : Rank(fed[i]) \in Nat
    BY RankFacts, ElementOfSeq DEF TypeOK
  <1>2. InOrder(fed)'
    BY DEF InOrder
  <1>3. \A i \in 1..Len(fed') : Rank(fed'[i]) < Frontier'
    BY <1>1
  <1>4. QED
    BY <1>2, <1>3

LEMMA NextOrderInv == OrderInv /\ [Next]_vars => OrderInv'
  <1> SUFFICES ASSUME OrderInv, [Next]_vars PROVE OrderInv'
    OBVIOUS
  <1> USE FilesAssumption
  <1>0. TypeOK /\ TypeOK'
    BY NextTypeOK DEF OrderInv
  <1>1. gpc' \in PreSpawn => ipc' = "none"
    BY <1>0, NextSpawned DEF OrderInv
  <1>2. /\ Frontier \in Nat /\ Frontier' \in Nat
        /\ ipc \in {"none", "start", "scan"} => Frontier = nFile
        /\ ipc \in {"scanend", "bootstrap"} => Frontier = K
        /\ ipc \notin {"none", "start", "scan", "scanend", "bootstrap"}
             => Frontier = 2 * K + nLoad + 1
        /\ ipc' \in {"none", "start", "scan"} => Frontier' = nFile'
        /\ ipc' \in {"scanend", "bootstrap"} => Frontier' = K
        /\ ipc' \notin {"none", "start", "scan", "scanend", "bootstrap"}
             => Frontier' = 2 * K + nLoad' + 1
    <2>1. nFile \in Nat /\ nLoad \in Nat /\ nFile' \in Nat /\ nLoad' \in Nat
      BY <1>0 DEF TypeOK
    <2>2. QED
      BY <2>1, FrontierFacts DEF Frontier
  <1>3. nFile <= NFiles /\ nFile' <= NFiles /\ NFiles < K /\ K \in Nat
        /\ nLoad \in Nat
    BY <1>0 DEF TypeOK, K
  <1>4. SUFFICES /\ InOrder(fed)'
                 /\ ipc' \in {"none", "start", "scan"} => Len(fed') = nFile'
                 /\ \A i \in 1..Len(fed') : Rank(fed'[i]) < Frontier'
    BY <1>0, <1>1 DEF OrderInv
  <1>5. CASE Cleanup \/ StopCheck \/ Register \/ Lock \/ Check \/ Wait \/ SpuriousWakeup
             \/ Interrupt \/ HandlerSet \/ HandlerNotify \/ Terminated
             \/ UNCHANGED vars
    <2>1. UNCHANGED <<fed, ipc, nFile, nLoad>>
      BY <1>5 DEF Cleanup, StopCheck, Register, Lock, Check, Wait, SpuriousWakeup,
         Interrupt, HandlerSet, HandlerNotify, Terminated, vars
    <2>2. Frontier' = Frontier
      BY <2>1 DEF Frontier
    <2>3. QED
      BY <1>0, <1>2, <2>1, <2>2, KeepOrder DEF OrderInv
  <1>6. CASE Spawn
    <2>1. ipc = "none" /\ UNCHANGED <<fed, nFile, nLoad>> /\ ipc' = "start"
      BY <1>6 DEF Spawn, OrderInv, PreSpawn
    <2>2. QED
      BY <1>0, <1>2, <2>1, KeepOrder, Zenon DEF OrderInv
  <1>7. CASE Start
    <2>1. ipc = "start" /\ UNCHANGED <<fed, nFile, nLoad>>
          /\ ipc' \in {"scan", "bootstrap"}
      BY <1>7 DEF Start
    <2>2. Frontier' >= Frontier
      BY <1>2, <1>3, <2>1
    <2>3. QED
      BY <1>0, <1>2, <2>1, <2>2, KeepOrder DEF OrderInv
  <1>8. CASE ScanEnd \/ Activate \/ ImportInterrupted
    <2>1. ipc \in {"scan", "scanend", "bootstrap", "loadblock"}
          /\ ipc' \in {"bootstrap", "done", "exited"}
          /\ (ipc = "scanend" <=> ipc' = "bootstrap")
          /\ UNCHANGED <<fed, nFile, nLoad>>
      BY <1>8 DEF ScanEnd, Activate, ImportInterrupted
    <2>2. Frontier' >= Frontier
      <3>1. CASE ipc = "scanend"
        BY <1>2, <1>3, <2>1, <3>1
      <3>2. CASE ipc = "scan"
        BY <1>2, <1>3, <2>1, <3>2
      <3>3. CASE ipc \in {"bootstrap", "loadblock"}
        BY <1>2, <1>3, <2>1, <3>3
      <3>4. QED
        BY <2>1, <3>1, <3>2, <3>3
    <2>3. QED
      BY <1>0, <1>2, <2>1, <2>2, KeepOrder DEF OrderInv
  <1>9. CASE Scan
    <2>1. ipc = "scan" /\ Len(fed) = nFile
      BY <1>9 DEF Scan, OrderInv
    <2>2. CASE ipc' = "scanend" /\ UNCHANGED <<fed, nFile, nLoad>>
      <3>1. Frontier' >= Frontier
        BY <1>2, <1>3, <2>1, <2>2
      <3>2. QED
        BY <1>0, <1>2, <2>2, <3>1, KeepOrder DEF OrderInv
    <2>3. CASE nFile \in blkDisk /\ FeedSource(Blk(nFile)) /\ nFile' = nFile + 1
               /\ UNCHANGED <<ipc, nLoad>>
      <3>1. nFile \in FileIndex
        BY <1>0, <2>3 DEF TypeOK
      <3>2. Blk(nFile) \in Source /\ Rank(Blk(nFile)) = Frontier
        BY <1>2, <2>1, <3>1, RankFacts DEF Blk, Source
      <3>3. Frontier' = Frontier + 1
        BY <1>2, <2>1, <2>3
      <3>4. Len(fed') = nFile'
        BY <1>0, <2>1, <2>3, AppendProperties DEF FeedSource, TypeOK
      <3>5. QED
        BY <1>0, <1>2, <2>1, <2>3, <3>2, <3>3, <3>4, FeedOrderInv
        DEF FeedSource, Blk, OrderInv
    <2>4. QED
      BY <1>9, <2>2, <2>3 DEF Scan
  <1>10. CASE ImportBootstrap
    <2>1. ipc = "bootstrap" /\ ipc' = "loadblock" /\ UNCHANGED <<nFile, nLoad>>
      BY <1>10 DEF ImportBootstrap
    <2>2. Frontier' >= Frontier + 1
      BY <1>2, <1>3, <2>1
    <2>3. CASE FeedSource(BootstrapFile)
      <3>1. BootstrapFile \in Source /\ Rank(BootstrapFile) = Frontier
        BY <1>2, <2>1, RankFacts DEF BootstrapFile, Source
      <3>2. QED
        BY <1>0, <1>2, <2>1, <2>2, <2>3, <3>1, FeedOrderInv
        DEF FeedSource, BootstrapFile, OrderInv
    <2>4. CASE UNCHANGED fed
      BY <1>0, <1>2, <2>1, <2>2, <2>4, KeepOrder DEF OrderInv
    <2>5. QED
      BY <1>10, <2>3, <2>4 DEF ImportBootstrap
  <1>11. CASE ImportLoadFile
    <2>1. ipc = "loadblock" /\ UNCHANGED <<ipc, nFile>> /\ nLoad' = nLoad + 1
          /\ nLoad < NLoad
      BY <1>11 DEF ImportLoadFile
    <2>2. Frontier' = Frontier + 1
      BY <1>2, <1>3, <2>1
    <2>3. CASE FeedSource(LoadFile(nLoad + 1))
      <3>1. LoadFile(nLoad + 1) \in Source /\ Rank(LoadFile(nLoad + 1)) = Frontier
        BY <1>0, <1>2, <1>3, <2>1, RankFacts DEF LoadFile, Source, TypeOK
      <3>2. QED
        BY <1>0, <1>2, <2>1, <2>2, <2>3, <3>1, FeedOrderInv
        DEF FeedSource, LoadFile, OrderInv
    <2>4. CASE UNCHANGED fed
      BY <1>0, <1>2, <2>1, <2>2, <2>4, KeepOrder DEF OrderInv
    <2>5. QED
      BY <1>11, <2>3, <2>4 DEF ImportLoadFile
  <1>12. QED
    BY <1>5, <1>6, <1>7, <1>8, <1>9, <1>10, <1>11
    DEF Next, InitThreadStep, ImportStep

\* Every step of the init thread and of the import thread keeps the sources
\* fed in the import order, for every number of block and -loadblock files.
THEOREM OrderInvariant == Spec => []OrderInv
  BY InitOrderInv, NextOrderInv, PTL DEF Spec

\* Every reachable state of the cleanup, the genesis handshake and the
\* import thread is well typed, for every number of block and -loadblock
\* files: in particular the feed is a sequence of ranked sources.
THEOREM ImportTypeCorrect == Spec => []TypeOK
  <1>1. OrderInv => TypeOK
    BY DEF OrderInv
  <1>2. QED
    BY OrderInvariant, <1>1, PTL

\* The import thread feeds the block files from blk00000.dat with no gap,
\* then bootstrap.dat, then the -loadblock files in the order given, none
\* twice (ThreadImport's loops in init.cpp), whatever the number of files.
THEOREM FedInOrderThm == Spec => []FedInOrder
  <1>1. OrderInv => FedInOrder
    BY DEF OrderInv, InOrder, FedInOrder
  <1>2. QED
    BY OrderInvariant, <1>1, PTL

-----------------------------------------------------------------------------
(***************************************************************************)
(* The inductive invariant of ReindexFlagHonest.  Until the import thread *)
(* has left the scan, the flag in the block tree is the -reindex option;  *)
(* it reaches ScanEnd, the only step that clears it, only through a       *)
(* missing or unopenable block file; and CleanupBlockRevFiles, the only   *)
(* step that changes the files on disk, runs before the import thread    *)
(* exists.                                                                 *)
(***************************************************************************)
FlagInv ==
    /\ TypeOK
    /\ gpc \in PreSpawn => ipc = "none"
    /\ ipc \in {"none", "start", "scan"} => reindexFlag = args.reindex
    /\ ipc = "scanend" => (nFile \notin blkDisk \/ scanBroken)
    /\ reindexFlag = args.reindex \/ nFile \notin blkDisk \/ scanBroken

LEMMA InitFlagInv == Init => FlagInv
  <1> SUFFICES ASSUME Init PROVE FlagInv
    OBVIOUS
  <1>1. TypeOK
    BY InitOrderInv DEF OrderInv
  <1>2. QED
    BY <1>1 DEF Init, FlagInv

LEMMA NextFlagInv == FlagInv /\ [Next]_vars => FlagInv'
  <1> SUFFICES ASSUME FlagInv, [Next]_vars PROVE FlagInv'
    OBVIOUS
  <1>1. TypeOK'
    BY NextTypeOK DEF FlagInv
  <1>2. gpc' \in PreSpawn => ipc' = "none"
    BY NextSpawned DEF FlagInv
  <1>3. SUFFICES /\ ipc' \in {"none", "start", "scan"} => reindexFlag' = args'.reindex
                 /\ ipc' = "scanend" => (nFile' \notin blkDisk' \/ scanBroken')
                 /\ reindexFlag' = args'.reindex \/ nFile' \notin blkDisk' \/ scanBroken'
    BY <1>1, <1>2 DEF FlagInv
  <1>4. CASE Cleanup
    <2>1. ipc = "none"
      BY <1>4 DEF Cleanup, FlagInv, PreSpawn
    <2>2. QED
      BY <1>4, <2>1 DEF Cleanup, FlagInv
  <1>5. CASE Scan
    <2>1. ipc = "scan" /\ reindexFlag = args.reindex
      BY <1>5 DEF Scan, FlagInv
    <2>2. QED
      BY <1>5, <2>1 DEF Scan, FeedSource
  <1>6. CASE ScanEnd
    BY <1>6 DEF ScanEnd, FlagInv
  <1>7. CASE Spawn
    BY <1>7 DEF Spawn, FlagInv, PreSpawn
  <1>8. CASE Start
    BY <1>8 DEF Start, FlagInv
  <1>9. CASE ImportBootstrap \/ ImportLoadFile \/ Activate \/ ImportInterrupted
    <2>1. UNCHANGED <<args, reindexFlag, blkDisk, nFile, scanBroken>>
          /\ ipc' \notin {"none", "start", "scan", "scanend"}
      BY <1>9 DEF ImportBootstrap, ImportLoadFile, Activate, ImportInterrupted
    <2>2. QED
      BY <2>1 DEF FlagInv
  <1>10. CASE StopCheck \/ Register \/ Lock \/ Check \/ Wait \/ SpuriousWakeup \/ Interrupt
              \/ HandlerSet \/ HandlerNotify \/ Terminated \/ UNCHANGED vars
    <2>1. UNCHANGED <<args, reindexFlag, blkDisk, nFile, scanBroken, ipc>>
      BY <1>10 DEF StopCheck, Register, Lock, Check, Wait, SpuriousWakeup, Interrupt,
         HandlerSet, HandlerNotify, Terminated, vars
    <2>2. QED
      BY <2>1 DEF FlagInv
  <1>11. QED
    BY <1>4, <1>5, <1>6, <1>7, <1>8, <1>9, <1>10
    DEF Next, InitThreadStep, ImportStep

\* The "reindexing" flag of the block tree is cleared only once the scan
\* of ThreadImport has reached a missing or unopenable block file, for
\* every number of block files: a node stopped during the reindex resumes
\* it at the next start.
THEOREM ReindexFlagHonestThm == Spec => []ReindexFlagHonest
  <1>1. FlagInv => ReindexFlagHonest
    BY DEF FlagInv, ReindexFlagHonest
  <1>2. QED
    BY InitFlagInv, NextFlagInv, <1>1, PTL DEF Spec

-----------------------------------------------------------------------------
\* The indices of the block files in a sequence of sources (FedBlocks for
\* any sequence).
BlocksOf(s) == {s[i].idx : i \in {j \in 1..Len(s) : s[j].kind = "blk"}}

\* Feeding a source adds its index when it is a block file.
LEMMA BlocksOfAppend ==
    ASSUME NEW s \in Seq(Source), NEW src \in Source
    PROVE  BlocksOf(Append(s, src))
             = BlocksOf(s) \cup (IF src.kind = "blk" THEN {src.idx} ELSE {})
  <1>1. /\ Len(Append(s, src)) = Len(s) + 1
        /\ \A i \in 1..Len(s) : Append(s, src)[i] = s[i]
        /\ Append(s, src)[Len(s) + 1] = src
    BY AppendProperties
  <1>2. Len(s) \in Nat
    OBVIOUS
  <1>3. QED
    BY <1>1, <1>2 DEF BlocksOf

(***************************************************************************)
(* The inductive invariant of ReindexScanExtent: the block files fed are   *)
(* blk0 .. blk<nFile - 1>, all found on disk; the scan leaves through a   *)
(* failed open exactly when blk<nFile> is on disk, and the mark of it is   *)
(* clear while the scan runs.                                              *)
(***************************************************************************)
ExtentInv ==
    /\ FlagInv
    /\ BlocksOf(fed) = 0..(nFile - 1)
    /\ 0..(nFile - 1) \subseteq blkDisk
    /\ ipc \in {"none", "start", "scan"} => ~scanBroken
    /\ ipc \in {"none", "start"} => nFile = 0
    /\ (ipc = "scanend" \/ (args.reindex /\ ~reindexFlag))
          => (scanBroken <=> nFile \in blkDisk)

LEMMA InitExtentInv == Init => ExtentInv
  <1> SUFFICES ASSUME Init PROVE ExtentInv
    OBVIOUS
  <1>1. FlagInv
    BY InitFlagInv
  <1>2. BlocksOf(fed) = {} /\ 0..(nFile - 1) = {}
    BY DEF Init, BlocksOf
  <1>3. QED
    BY <1>1, <1>2 DEF Init, ExtentInv, FlagInv

LEMMA NextExtentInv == ExtentInv /\ [Next]_vars => ExtentInv'
  <1> SUFFICES ASSUME ExtentInv, [Next]_vars PROVE ExtentInv'
    OBVIOUS
  <1> USE FilesAssumption
  <1>1. FlagInv' /\ TypeOK /\ TypeOK'
    BY NextFlagInv, NextTypeOK DEF ExtentInv, FlagInv
  <1>2. SUFFICES /\ BlocksOf(fed') = 0..(nFile' - 1)
                 /\ 0..(nFile' - 1) \subseteq blkDisk'
                 /\ ipc' \in {"none", "start", "scan"} => ~scanBroken'
                 /\ ipc' \in {"none", "start"} => nFile' = 0
                 /\ (ipc' = "scanend" \/ (args'.reindex /\ ~reindexFlag'))
                       => (scanBroken' <=> nFile' \in blkDisk')
    BY <1>1 DEF ExtentInv
  <1>3. CASE Cleanup
    <2>1. ipc = "none" /\ reindexFlag = args.reindex /\ nFile = 0
      BY <1>3 DEF Cleanup, ExtentInv, FlagInv, PreSpawn
    <2>2. QED
      BY <1>3, <2>1 DEF Cleanup, ExtentInv
  <1>4. CASE Scan
    <2>1. ipc = "scan" /\ ~scanBroken /\ reindexFlag = args.reindex
      BY <1>4 DEF Scan, ExtentInv, FlagInv
    <2>2. CASE nFile \notin blkDisk
      BY <1>4, <2>1, <2>2 DEF Scan, ExtentInv
    <2>3. CASE nFile \in blkDisk /\ ipc' = "scanend" /\ scanBroken' = TRUE
               /\ UNCHANGED <<nFile, fed, tip, handler>>
      BY <1>4, <2>1, <2>3 DEF Scan, ExtentInv
    <2>4. CASE nFile \in blkDisk /\ FeedSource(Blk(nFile)) /\ nFile' = nFile + 1
               /\ UNCHANGED <<ipc, scanBroken>>
      <3>1. nFile \in FileIndex /\ Blk(nFile) \in Source
        BY <1>1, <2>4 DEF TypeOK, FileIndex, Blk, Source
      <3>2. BlocksOf(fed') = BlocksOf(fed) \cup {nFile}
        BY <1>1, <2>4, <3>1, BlocksOfAppend DEF FeedSource, Blk, TypeOK
      <3>3. nFile \in Nat
        BY <3>1 DEF FileIndex
      <3>4. QED
        BY <1>4, <2>1, <2>4, <3>2, <3>3 DEF Scan, ExtentInv
    <2>5. QED
      BY <1>4, <2>2, <2>3, <2>4 DEF Scan
  <1>5. CASE ImportBootstrap
    <2>1. BlocksOf(fed') = BlocksOf(fed)
      <3>1. CASE FeedSource(BootstrapFile)
        <4>1. BootstrapFile \in Source
          BY DEF BootstrapFile, Source
        <4>2. QED
          BY <1>1, <3>1, <4>1, BlocksOfAppend DEF FeedSource, BootstrapFile, TypeOK
      <3>2. QED
        BY <1>5, <3>1 DEF ImportBootstrap
    <2>2. QED
      BY <1>5, <2>1 DEF ImportBootstrap, ExtentInv
  <1>6. CASE ImportLoadFile
    <2>1. BlocksOf(fed') = BlocksOf(fed)
      <3>1. CASE FeedSource(LoadFile(nLoad + 1))
        <4>1. LoadFile(nLoad + 1) \in Source
          BY <1>1, <1>6 DEF ImportLoadFile, LoadFile, Source, TypeOK
        <4>2. QED
          BY <1>1, <3>1, <4>1, BlocksOfAppend DEF FeedSource, LoadFile, TypeOK
      <3>2. QED
        BY <1>6, <3>1 DEF ImportLoadFile
    <2>2. QED
      BY <1>6, <2>1 DEF ImportLoadFile, ExtentInv
  <1>7. CASE ScanEnd \/ Start \/ Spawn \/ Activate \/ ImportInterrupted
    <2>1. UNCHANGED <<fed, nFile, blkDisk, scanBroken, args>>
      BY <1>7 DEF ScanEnd, Start, Spawn, Activate, ImportInterrupted
    <2>2. CASE ScanEnd
      BY <2>1, <2>2 DEF ScanEnd, ExtentInv
    <2>3. CASE Start \/ Spawn
      BY <1>1, <2>1, <2>3 DEF Start, Spawn, ExtentInv, FlagInv, PreSpawn
    <2>4. CASE Activate \/ ImportInterrupted
      <3>1. ipc' \in {"done", "exited"} /\ UNCHANGED reindexFlag
        BY <2>4 DEF Activate, ImportInterrupted
      <3>2. args.reindex /\ ~reindexFlag => (scanBroken <=> nFile \in blkDisk)
        BY <1>1, <2>4 DEF Activate, ImportInterrupted, ExtentInv, FlagInv
      <3>3. QED
        BY <2>1, <3>1, <3>2 DEF ExtentInv
    <2>5. QED
      BY <1>7, <2>2, <2>3, <2>4
  <1>8. CASE StopCheck \/ Register \/ Lock \/ Check \/ Wait \/ SpuriousWakeup \/ Interrupt
             \/ HandlerSet \/ HandlerNotify \/ Terminated \/ UNCHANGED vars
    <2>1. UNCHANGED <<args, reindexFlag, blkDisk, nFile, scanBroken, ipc, fed>>
      BY <1>8 DEF StopCheck, Register, Lock, Check, Wait, SpuriousWakeup, Interrupt,
         HandlerSet, HandlerNotify, Terminated, vars
    <2>2. QED
      BY <2>1 DEF ExtentInv
  <1>9. QED
    BY <1>3, <1>4, <1>5, <1>6, <1>7, <1>8
    DEF Next, InitThreadStep, ImportStep

\* Once the reindex has cleared its flag, ThreadImport has indexed exactly
\* the block files before the first one that is missing or does not open,
\* for every number of block files; a file that exists and does not open
\* leaves it and the files after it unindexed.
THEOREM ReindexScanExtentThm == Spec => []ReindexScanExtent
  <1>1. ExtentInv => ReindexScanExtent
    <2> SUFFICES ASSUME ExtentInv, args.reindex, ~reindexFlag
                 PROVE  /\ FedBlocks = 0..(nFile - 1)
                        /\ FedBlocks \subseteq ContiguousFromZero(blkDisk)
                        /\ (FedBlocks = ContiguousFromZero(blkDisk)) <=> ~scanBroken
      BY DEF ReindexScanExtent
    <2>1. FedBlocks = 0..(nFile - 1) /\ 0..(nFile - 1) \subseteq blkDisk
          /\ nFile \in Nat /\ (scanBroken <=> nFile \in blkDisk)
      BY DEF ExtentInv, FedBlocks, BlocksOf, FlagInv, TypeOK
    <2>2. 0..(nFile - 1) \subseteq ContiguousFromZero(blkDisk)
      BY <2>1 DEF ContiguousFromZero
    <2>3. nFile \in blkDisk => nFile \in ContiguousFromZero(blkDisk)
      BY <2>1 DEF ContiguousFromZero
    <2>4. nFile \notin blkDisk => ContiguousFromZero(blkDisk) \subseteq 0..(nFile - 1)
      <3> SUFFICES ASSUME nFile \notin blkDisk, NEW i \in ContiguousFromZero(blkDisk)
                   PROVE  i \in 0..(nFile - 1)
        OBVIOUS
      <3>1. i \in Nat /\ \A j \in 0..i : j \in blkDisk
        BY <2>1 DEF ContiguousFromZero, ExtentInv, FlagInv, TypeOK, FileIndex
      <3>2. QED
        BY <2>1, <3>1
    <2>5. CASE nFile \in blkDisk
      <3>1. nFile \notin 0..(nFile - 1)
        BY <2>1
      <3>2. FedBlocks # ContiguousFromZero(blkDisk)
        BY <2>1, <2>3, <2>5, <3>1
      <3>3. QED
        BY <2>1, <2>2, <2>5, <3>2
    <2>6. CASE nFile \notin blkDisk
      <3>1. FedBlocks = ContiguousFromZero(blkDisk)
        BY <2>1, <2>2, <2>4, <2>6
      <3>2. QED
        BY <2>1, <2>2, <2>6, <3>1
    <2>7. QED
      BY <2>5, <2>6
  <1>2. QED
    BY InitExtentInv, NextExtentInv, <1>1, PTL DEF Spec

(***************************************************************************)
(* What the walk of CleanupBlockRevFiles computes.  After the entries with *)
(* index < i the counter c is at most i, the files 0 .. c-1 are all on     *)
(* disk and kept, and when c < i the file c is missing: the walk has met   *)
(* the first gap.  A least index where this fails is ruled out as in       *)
(* CleanupKeptType.                                                        *)
(***************************************************************************)
WalkInv(v, i, B) ==
    /\ v.counter \in 0..i
    /\ v.kept = 0..(v.counter - 1)
    /\ 0..(v.counter - 1) \subseteq B
    /\ v.counter < i => v.counter \notin B

LEMMA CleanupKeptContiguous ==
    ASSUME NEW B \in SUBSET FileIndex
    PROVE  CleanupKept(B) = ContiguousFromZero(B)
  <1> DEFINE Def(prev, i) ==
               IF (i - 1) \in B /\ (i - 1) = prev.counter
               THEN [counter |-> prev.counter + 1, kept |-> prev.kept \cup {i - 1}]
               ELSE prev
             c == [counter |-> 0, kept |-> {}]
             f == CHOOSE g : g = [i \in 0..NFiles |-> IF i = 0 THEN c ELSE Def(g[i - 1], i)]
  <1> USE FilesAssumption
  <1>1. CleanupKept(B) = f[NFiles].kept
    BY DEF CleanupKept
  <1>2. ASSUME NEW i \in 1..NFiles, NEW v, WalkInv(v, i - 1, B)
        PROVE  WalkInv(Def(v, i), i, B)
    <2>1. CASE (i - 1) \in B /\ (i - 1) = v.counter
      BY <1>2, <2>1 DEF WalkInv
    <2>2. CASE ~((i - 1) \in B /\ (i - 1) = v.counter)
      BY <1>2, <2>2 DEF WalkInv
    <2>3. QED
      BY <2>1, <2>2
  <1>3. WalkInv(c, 0, B)
    BY DEF WalkInv
  <1> HIDE DEF Def, c
  <1>4. FiniteNatInductiveDefConclusion(f, c, Def, 0, NFiles)
    <2>1. FiniteNatInductiveDefHypothesis(f, c, Def, 0, NFiles)
      BY DEF FiniteNatInductiveDefHypothesis
    <2> HIDE DEF f
    <2>2. QED
      BY <2>1, FiniteNatInductiveDef
  <1> HIDE DEF f
  <1>5. f = [i \in 0..NFiles |-> IF i = 0 THEN c ELSE Def(f[i - 1], i)]
    BY <1>4, Zenon DEF FiniteNatInductiveDefConclusion
  <1>6. \A k \in 0..NFiles : WalkInv(f[k], k, B)
    <2> DEFINE Bad == {k \in 0..NFiles : ~WalkInv(f[k], k, B)}
    <2> SUFFICES ASSUME Bad # {} PROVE FALSE
      OBVIOUS
    <2>1. Bad \subseteq Nat
      OBVIOUS
    <2>2. PICK x \in Bad : \A y \in Bad : ~(<<y, x>> \in OpToRel(<, Nat))
      <3> HIDE DEF Bad
      <3>1. QED
        BY <2>1, NatLessThanWellFounded, WFMin, Zenon
    <2>3. x # 0
      BY <1>3, <1>5
    <2>4. x - 1 \notin Bad
      <3>1. x \in Nat /\ x - 1 \in Nat /\ x - 1 < x
        BY <2>3
      <3>2. <<x - 1, x>> \in OpToRel(<, Nat)
        BY <3>1 DEF OpToRel
      <3>3. QED
        BY <2>2, <3>2
    <2>5. f[x] = Def(f[x - 1], x)
      BY <2>3, <1>5
    <2>6. WalkInv(f[x - 1], x - 1, B)
      BY <2>3, <2>4
    <2>7. QED
      BY <1>2, <2>3, <2>5, <2>6
  <1>7. PICK v : v = f[NFiles] /\ WalkInv(v, NFiles, B)
    BY <1>6
  <1>8. 0..(v.counter - 1) = ContiguousFromZero(B)
    <2>1. 0..(v.counter - 1) \subseteq ContiguousFromZero(B)
      BY <1>7 DEF WalkInv, ContiguousFromZero
    <2>2. ASSUME NEW k \in ContiguousFromZero(B) PROVE k < v.counter
      <3>1. k \in 0..(NFiles - 1) /\ \A j \in 0..k : j \in B
        BY <2>2 DEF ContiguousFromZero, FileIndex
      <3>2. QED
        BY <1>7, <3>1 DEF WalkInv
    <2>3. ContiguousFromZero(B) \subseteq B /\ B \subseteq Nat
      BY DEF ContiguousFromZero, FileIndex
    <2>4. v.counter \in Nat
      BY <1>7 DEF WalkInv
    <2>5. ContiguousFromZero(B) \subseteq 0..(v.counter - 1)
      <3> SUFFICES ASSUME NEW k \in ContiguousFromZero(B)
                   PROVE  k \in 0..(v.counter - 1)
        OBVIOUS
      <3>1. k \in Nat /\ k < v.counter
        BY <2>2, <2>3
      <3>2. QED
        BY <3>1, <2>4
    <2>6. QED
      BY <2>1, <2>5
  <1>9. QED
    BY <1>1, <1>7, <1>8 DEF WalkInv


(***************************************************************************)
(* The inductive invariant of CleanupMatchesReference: the block files on *)
(* disk are those found at start until the load loop has run, and nothing *)
(* but CleanupBlockRevFiles deletes one.                                   *)
(***************************************************************************)
CleanupInv ==
    /\ TypeOK
    /\ gpc = "cleanup" => blkDisk = args.blocks
    /\ CleanupMatchesReference

LEMMA InitCleanupInv == Init => CleanupInv
  <1> SUFFICES ASSUME Init PROVE CleanupInv
    OBVIOUS
  <1>1. TypeOK
    BY InitOrderInv DEF OrderInv
  <1>2. QED
    BY <1>1 DEF Init, CleanupInv, CleanupMatchesReference

\* Every step but the cleanup keeps the options and the files on disk, and
\* leaves the init thread at "cleanup" exactly when it was there.
LEMMA OtherStepsKeepDisk ==
    ASSUME [Next]_vars, ~Cleanup
    PROVE  /\ UNCHANGED <<args, blkDisk>>
           /\ (gpc' = "cleanup") <=> (gpc = "cleanup")
  <1>1. CASE StopCheck \/ Register \/ Spawn \/ Lock \/ Check \/ Wait \/ SpuriousWakeup
    BY <1>1 DEF StopCheck, Register, Spawn, Lock, Check, Wait, SpuriousWakeup
  <1>2. CASE Interrupt \/ HandlerSet \/ HandlerNotify \/ Terminated \/ UNCHANGED vars
    BY <1>2 DEF Interrupt, HandlerSet, HandlerNotify, Terminated, vars
  <1>3. CASE ImportStep
    BY <1>3 DEF ImportStep, Start, Scan, ScanEnd, ImportBootstrap,
       ImportLoadFile, Activate, ImportInterrupted, HandlerSet, HandlerNotify
  <1>4. QED
    BY <1>1, <1>2, <1>3 DEF Next, InitThreadStep


LEMMA NextCleanupInv == CleanupInv /\ [Next]_vars => CleanupInv'
  <1> SUFFICES ASSUME CleanupInv, [Next]_vars PROVE CleanupInv'
    OBVIOUS
  <1>1. TypeOK'
    BY NextTypeOK DEF CleanupInv
  <1>2. CASE Cleanup
    <2>1. gpc = "cleanup" /\ gpc' # "cleanup" /\ UNCHANGED args
      BY <1>2 DEF Cleanup
    <2>2. blkDisk = args.blocks /\ args.blocks \in SUBSET FileIndex
      BY <2>1 DEF CleanupInv, TypeOK, Args
    <2>3. args.reindex /\ args.prune => blkDisk' = ContiguousFromZero(args.blocks)
      BY <1>2, <2>2, CleanupKeptContiguous DEF Cleanup
    <2>4. QED
      BY <1>1, <2>1, <2>3 DEF CleanupInv, CleanupMatchesReference
  <1>3. CASE ~Cleanup
    <2>1. UNCHANGED <<args, blkDisk>> /\ ((gpc' = "cleanup") <=> (gpc = "cleanup"))
      BY <1>3, OtherStepsKeepDisk
    <2>2. QED
      BY <1>1, <2>1 DEF CleanupInv, CleanupMatchesReference
  <1>4. QED
    BY <1>2, <1>3

\* Once CleanupBlockRevFiles has run for a pruned reindex, the block files
\* left on disk are exactly the run contiguous from blk00000.dat among
\* those found at start, for every number of block files.
THEOREM CleanupMatchesReferenceThm == Spec => []CleanupMatchesReference
  <1>1. CleanupInv => CleanupMatchesReference
    BY DEF CleanupInv
  <1>2. QED
    BY InitCleanupInv, NextCleanupInv, <1>1, PTL DEF Spec

====
