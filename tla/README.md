# Verification models of node start-up and shutdown (init.cpp)

These TLA+ modules model the start-up and shutdown code of the Gulden node in
`src/src/init.cpp`. That code builds a node from whatever state the disk is in
and takes it down again. TLC checks the modules on small instances. TLAPS
proves the main safety properties of each part for every value of the
constants, and proves that the load loop implements an abstract lifecycle.

## The system and its parts

`init.cpp` holds six cooperating parts. The spec (`spec.md`) names them the
same way:

| Part | Code | Module |
|---|---|---|
| ResourceBudgeter | `AppInitParameterInteraction` (descriptor fit of `-maxconnections`, the five low-memory soft defaults, the `-maxmempool` floor of step 3), cache split and `fReverseHeaders` in `AppInitMain` step 7 | `ResourceBudgeter` |
| ChainStateStore | the seven store pointers (`pblocktree`, `pcoinsdbview`, `pcoinscatcher`, `pcoinsTip`, `ppow2witdbview`, `ppow2witcatcher`, `ppow2witTip`) that step 7 allocates and `CoreShutdown` frees | `ChainStateStore` (operators only) |
| BlockIndexLoader | the `while (!fLoaded)` loop of step 7 with its `goto loadblockindex` | `BlockIndexLoader`, refining `StoreLoading` |
| ImportPipeline | `CleanupBlockRevFiles`, `ThreadImport`, `BlockNotifyGenesisWait` and the genesis wait of step 10 | `ImportPipeline` |
| LifecycleOrchestrator | `CoreInterrupt`, `CoreShutdown`, `HandleSIGTERM` | `Shutdown`, refining `TeardownOrder` |
| Network options and node start | `InitParameterInteraction` (soft defaults between network options), step 6 (reachability, proxies, listen, bind), the option-driven part of step 11 (Tor control, `Discover`, `MapPort`, `CConnman::Start`) | `NetworkSetup` |

How the parts interact:
- The init thread derives the network soft defaults first, then runs the
  budgeter, then sets up the networks (step 6), then the load loop; the node
  starts its network in step 11 from the flags step 6 left.
- The load loop allocates the stores, and in prune-reindex mode it runs the cleanup.
- The init thread then starts the import thread and blocks on a condition
  variable until a tip exists. The import thread signals it from inside the
  block-tip notification.
- On shutdown, a shutdown thread calls `CoreInterrupt` and then
  `CoreShutdown`. These interrupt the thread group, join it, write the mempool
  and fee snapshots, and free the stores.
- The import thread's last act is to set `fDumpMempoolLater`, which decides
  whether `CoreShutdown` writes `mempool.dat`.

Not modelled, and why:
- `AppInitServers`, the RPC/HTTP servers, the wallet and the miner: they call
  engines outside this repository and hold no state the properties read. Of
  the network start only the option logic is modelled; address parsing and
  lookups are abstracted to success or `InitError`.
- `HelpMessage`, `LicenseInfo`, `InitLogging`: text formatting.
- `CCoinsViewErrorCatcher`: it aborts the process on a read fault, and nothing
  runs after that.
- `qt/walletmodel.h`: a class declaration.
- `test/main_tests.cpp`: unit tests of subsidy code outside the repository.

## Modules

- `ChainStateStore`: no variables. Each pointer is abstracted to the state of
  the object it designates: `null`, `live` or `dangling` (deleted and not
  reset).
  - `OpenStores(mem, f)` is the allocation block at label `loadblockindex`
    (lines 1658-1677) when constructor `f` throws.
  - `TeardownStores` and `TeardownUB` are the "close coin databases" block of
    `CoreShutdown` (253-276). `TeardownUB` includes the `FlushStateToDisk`
    through `pcoinsTip`.
- `BlockIndexLoader`: `pc` follows the sections of the loop body.
  - One action per section: `Begin`, `Open`, `AfterOpen`, `ResyncCheck`,
    `LoadIndex`, `UpgradeIndex`, `Checks`, `Failed`. Then `AfterLoop` (the
    `ShutdownRequested` check) and `Teardown` (CoreShutdown's store block).
  - `upgradeOnceOnly` is the function-static variable. `fReset` is re-read
    from `fReindex` at the top of each iteration, as in the code.
  - Calls into validation (`LoadBlockIndex`, `VerifyDB`, ...) succeed or fail
    nondeterministically.
- `ImportPipeline`: two threads.
  - The init thread: `Cleanup`, `StopCheck` (the `ShutdownRequested()`
    return after the load loop, line 1831), `Register`, `Spawn`, `Lock`,
    `Check`, `Wait`, and a spurious wake-up.
  - The import thread: `Start`, `Scan`, `ScanEnd`, `ImportBootstrap`,
    `ImportLoadFile`, `Activate`, `ImportInterrupted`, and the callback
    `HandlerSet` / `HandlerNotify`, which runs on the import thread.
  - `Interrupt` is a stop request with the shutdown thread's `CoreInterrupt`.
    `interrupt_all()` reaches only threads already in the group, so it
    interrupts the import thread only once `Spawn` has created it.
  - `CleanupKept` is `CleanupBlockRevFiles`' walk with `nContigCounter`,
    written as a recursive function.
- `Shutdown`: callers of the shutdown sequence, each with its own `spc[c]`.
  - One action per block of `CoreShutdown`, the `TRY_LOCK` included.
  - The import thread's tail: `ImportFinish`, `LoadMempool`, `SetDumpFlag`.
  - Worker threads that leave once interrupted, and the network engine.
- `StoreLoading`: the abstract lifecycle the spec gives the loader
  (`StoreLoading`, `StoreLoaded`, `Running`, `ShuttingDown`, `Stopped`, and
  the count of recovery offers). It has no counterpart in the code.
  `BlockIndexLoader` maps onto it with `LifecyclePhase` (the loop's labels
  grouped by phase) and `offers <- prompts`, as `SL == INSTANCE StoreLoading
  WITH ...`; `ImplementsStoreLoading == SL!Spec` is checked by the `loader`
  run and proved.
- `TeardownOrder`: the abstract teardown order of the lifecycle (spec
  sections on the shutdown sequence and its ordering guarantees). It has
  four variables: the network engine, the worker group, the store and the
  chain data. It has one action per promise: interrupt, last worker gone,
  engine stopped once interrupted, engine deleted once the group is joined,
  store closed once the engine is gone, and chain data erased once the
  store is closed. Nothing goes back. It has no counterpart in the code.
  `Shutdown` maps onto it as `TO == INSTANCE TeardownOrder WITH net <-
  connman, threads <- ThreadsPhase, stores <- StoresPhase, chain <-
  ChainPhase`. `ThreadsPhase` is "joined" when `running = {}`, otherwise
  "interrupted" once `interrupt_all()` was called. `ImplementsTeardownOrder
  == TO!Spec` is checked by the `shutdown` run and proved.
- `ResourceBudgeter`: three steps in start-up order.
  - `AppInitParameterInteraction` covers lines 1010-1072, with the soft
    defaults of `-maxconnections`, `-maxmempool`, `-dbcache`, `-rpcthreads`
    and `-reverseheaders` (`SoftSet`, applied only on a host with at most
    1 GiB).
  - `MempoolLimits` is step 3's check (lines 1136-1140): start-up fails when
    `-maxmempool` is negative or below the floor `-limitdescendantsize`
    sets. Mempool sizes are in units of 40000 bytes, where
    `-maxmempool * 1000000 < -limitdescendantsize * 40000` is exactly
    `-maxmempool * 25 < -limitdescendantsize`. The rest of step 3 reads one
    option into one global each and is left out.
  - `CacheSizes` covers lines 1618-1634, `fReverseHeaders` included. Cache sizes are in KiB, where every
    division the code makes is exact.
  - `RaiseFileDescriptorLimit` (in util.cpp, outside this repository) returns
    one of the values that function can return.
- `NetworkSetup`: the command line `cfg` (each boolean option unset, 0 or 1;
  `-proxy` and `-onion` unset, `0`, a valid or an invalid address; `-onlynet`
  unset or a set of networks) and the options `args` after the soft defaults.
  - `Soft` is `SoftSetBoolArg` over a set of options, `GetBool` is
    `GetBoolArg`. One operator per rule of `InitParameterInteraction`
    (`BindRule`, `ConnectRule`, `ProxyRule`, `ListenRule`, `ExternalIPRule`,
    `RelayRules`), composed in the code's order by `Interaction`.
  - `OnlyNetLimits` and `TorSetup` give the limited and proxied networks of
    step 6; `NetworkInitialization` either fails (`InitError`) or reaches
    `StartNode`, which sets Tor control, discovery and port mapping.

## Runs

| Run | What it shows |
|---|---|
| `loader` (MCBlockIndexLoader.cfg) | A loaded store matches the options (`LoadedConsistent`). The recovery question is asked at most once (`RecoveryOfferedOnce`). The loop always ends (`LoaderTerminates`). The loop implements the abstract lifecycle (`ImplementsStoreLoading`). |
| `loader_memory` | violation of `MemorySafe`: double delete / use after free after a constructor throws |
| `shutdown` (MCShutdown.cfg) | No truncated mempool is dumped (`MempoolSnapshotComplete`). The stores outlive every thread (`StoresOpenWhileThreadsRun`). Every stop request completes (`ShutdownCompletes`). Two overlapping calls never run the teardown at the same time (`TeardownExclusive`). The sequence implements the abstract teardown order (`ImplementsTeardownOrder`): the network engine is stopped once interrupted and deleted after `join_all()`, the stores close after that, and the chain data is erased last, with no thread running and the stores closed. |
| `shutdown_once` | violation of `TeardownRunsOnce`: a later `CoreShutdown` call runs the teardown again |
| `import` (MCImportPipeline.cfg) | Sources are fed in ImportJob order (`FedInOrder`). The reindexing flag is cleared only after a finished scan (`ReindexFlagHonest`). The cleanup equals its reference on every file set (`CleanupMatchesReference`). A reindex scan feeds exactly the files from 0 to the first gap, and an unopenable file leaves the scan marked broken (`ReindexScanExtent`). Once a tip exists and init went past the shutdown check, the genesis wait ends: no wake-up is lost (`GenesisWaitEnds`). |
| `import_shutdown_hang` | violation of `ShutdownEndsGenesisWait`: init waits for genesis forever. TLC's trace: a fresh data directory, no reindex, and `ActivateBestChain` fails (line 787), so the import thread asks for shutdown and returns with no tip. A stop after the check at line 1831 that interrupts the import thread before genesis hangs the same way. |
| `budget` (MCResourceBudgeter.cfg) | The cache split adds up within its shares (`CacheSplitSound`). The low-memory defaults of `-dbcache`, `-maxmempool`, `-rpcthreads` and `-reverseheaders` reach the values start-up uses, and explicit values are untouched (`LowMemorySoftDefaults`). |
| `budget_negative` | violation of `ConnectionsNonNegative`: nMaxConnections = -3 with a 155-descriptor hard limit |
| `budget_lowmem` | violation of `LowMemoryCapsConnections`: the low-memory cap of 40 connections is never applied |
| `network` (MCNetworkSetup.cfg) | A node with a proxy maps no port and discovers no address unless asked (`PrivacyWithProxy`). A node that does not listen exposes nothing (`NotListeningNoExposure`). An explicit `-bind`/`-whitebind` is listened on (`ExplicitBindListens`). Onion peers are reachable only through a proxy (`TorReachableOnlyViaProxy`). |
| `network_onlynet` | violation of `OnlyNetHonoured`: `-onlynet=ipv4` with `-proxy` or `-onion` makes onion peers reachable (lines 1521, 1540) |
| `network_noproxy` | violation of `ListenByDefault`: `-noproxy` / `-proxy=0` counts as a set `-proxy` and turns listening off (line 866) |

Every passing run has a mutant per property (PROJECT.json, "mutants"): a
plausible bug in the mapped definition that TLC then catches.

### Bounds

- Loader: `MaxAttempts = 3`. The code makes at most 2 iterations (one user
  retry), so the bound is never what stops a behaviour.
- Every option and disk fact is enumerated: reindex, reindex-chainstate,
  txindex, prune, resync, old schema, wrong network, future tip.
- Shutdown: two callers (a second invocation is the interesting case) and one
  worker.
- Import: `NFiles = 3`, so a gap can sit before, between and after files.
  `NLoad = 2`, so the order of `-loadblock` files is observable.
- Budget: the Unix constants (`MIN_CORE_FILEDESCRIPTORS = 150`,
  `MAX_ADDNODE_CONNECTIONS = 8`, default 125 peers) and the cache constants.
  The inputs sit on every side of each clamp. `-maxmempool` is unset, -1
  or 200, and `-limitdescendantsize` unset or 3000: its floor (120 MB) lies
  between the low-memory mempool (100 MB) and the default (300 MB), so the
  soft default decides whether step 3 refuses start-up.
- Network: every option a rule reads takes each value that changes a rule's
  outcome (`-listen` unset/0/1, the options only soft-set to 0 unset/1,
  `-proxy` and `-onion` over all four kinds, `-onlynet` unset, ipv4, or ipv4
  and ipv6). The other options stay unset; each rule reading them is covered
  by the proofs for every value.

### Fairness

- Every thread modelled is weakly fair: it runs whenever it can. The init
  thread, the import thread and the shutdown thread never wait on anything
  except what the model shows.
- Outside events get no fairness: shutdown requests, and spurious wake-ups.
- `HandlerSet` is strongly fair. The import thread blocks on `cs_GenesisWait`,
  and the mutex is released again and again by the init thread's wait. A
  mutex that keeps becoming free is eventually granted.

## Proofs (TLAPS)

`BlockIndexLoaderProofs` proves two theorems, for every `MaxAttempts`
satisfying `MaxAttemptsAssumption`:
- `TypeCorrect`: `Spec => []TypeOK`.
- `RecoveryOfferedOnceThm`: `Spec => []RecoveryOfferedOnce`.

`RecoveryOfferedOnce` is not inductive on its own. The strengthening
`PromptInv` says:
- after the one prompt, the loader is either finished, or has `fReindex` set
  and is at the top of the loop or inside an iteration that began with
  `fReindex`;
- so every later failure takes the `fReset` branch and exits.

TLC checked `PromptInv` as an invariant before it was proved.

`NetworkSetupProofs` proves `NetInvariant` and, from it, `ExplicitBindListensThm`,
`NotListeningNoExposureThm`, `PrivacyWithProxyThm` and
`TorReachableOnlyViaProxyThm`, for every default and every command line
satisfying `NetworkAssumption` (defaults are Booleans, `Unset` is no option
value). The invariants are about the flags and the options together, so they
are not inductive alone. `NetInv` says that once the soft defaults have run,
`args` is `Interaction(cfg)`, and after each later step the flags equal the
values computed from `args` and `cfg`. The argument is one lemma per soft-
default rule (what it sets and what it leaves), composed by
`InteractionFacts`, and `TorSetupFacts` for step 6.

`BlockIndexLoaderProofs` also proves `LoadedConsistentThm`:
`Spec => []LoadedConsistent`. `LoadedConsistent` speaks only of the
`Checks` and `Loaded` labels, so the strengthening `LoadedInv` follows the
loop body. Once the stores are opened they stay open and linked to the
witness view until the checks. A cleared "upgrade once only" mark means
the index was converted or is being rebuilt. At the checks, an old-schema
store no longer carries that mark. The checks pass only when the
txindex flag equals `-txindex` and no pruned store is used unpruned.
`OpenNoneLive` shows that opening with no store to wipe leaves every
handle live. TLC checked `LoadedInv` before it was proved.

`BlockIndexLoaderProofs` further proves `ImplementsStoreLoadingThm`:
`Init` maps to `SL!Init`, and every step of the loop maps to a step of
`StoreLoading` or a stutter (`NextRefines`). The `Reindex` and `Decline`
steps need `prompts = 0` before the prompt, which `PromptInv` supplies.

`ResourceBudgeterProofs` proves `BudgetInvariant` and, from it,
`CacheSplitSoundThm` and `LowMemorySoftDefaultsThm`, for every constant satisfying
`BudgetAssumption` (natural constants, the cache clamp bounds ordered,
`Unset` neither a number nor a Boolean). `BudgetInv` adds `ArgsResolved` to
the properties, with two facts of the steps already taken (the connection
limit and the reserves fit the descriptors obtained, the mempool budget
passed step 3's floor): the options are the user's until step 2, and from step 2 on
each soft-set option resolves to the user's value, the low-memory default or
the ordinary default (`SoftSetResolves`). That is what the cache step and the
floor check need, since both read the options after step 2.

`ShutdownProofs` proves `ShutdownInvariant` and, from it,
`TeardownExclusiveThm`, `StoresOpenWhileThreadsRunThm` and
`MempoolSnapshotCompleteThm`, for every set of callers and workers. The
inductive `IInv` ties the lock to the teardown (a caller is inside the
teardown iff it holds `cs_Shutdown`), says a caller past `join_all()` saw
every thread gone, and follows a cut-short mempool reload: it implies a stop
was requested, so the import thread's dump flag stays false. It also says
that a caller at the final flush or the erase has closed the stores, which
nothing reopens; the refinement proof below uses that conjunct for the
erase step. TLC checked the strengthened `IInv` before it was proved.

`ImportPipelineProofs` proves, for every number of block files and
`-loadblock` files:
- `ImportTypeCorrect`: `Spec => []TypeOK`, from `OrderInv`, which contains
  it.
- `FedInOrderThm` from `OrderInv`. The feed is ranked (block files, then
  bootstrap, then `-loadblock` files in order) and every rank fed is below
  the `Frontier`, the least rank the thread can still feed in its current
  section. `CleanupKeptType` shows the recursive cleanup function returns a
  set of file indices. It uses `FiniteNatInductiveDef` and a least
  counterexample (`WFMin` over `<` on `Nat`) in place of induction over data.
- `ReindexFlagHonestThm` from `FlagInv`: the flag is cleared only at
  `ScanEnd`, and only when the scan stopped at a missing, openable gap.
- `ReindexScanExtentThm` from `ExtentInv`: the blocks fed are exactly
  `0..nFile-1`, all on disk, and `scanBroken` records an unopenable file.
- `CleanupMatchesReferenceThm` from `CleanupInv`. Before the cleanup, the
  files on disk are those found at start (`OtherStepsKeepDisk`: nothing
  else touches them). `CleanupKeptContiguous` shows that the
  `nContigCounter` walk computes `ContiguousFromZero`. Its step invariant
  `WalkInv` says that after index `i` the counter `c` is at most `i`, the
  files `0..c-1` are on disk and kept, and file `c` is missing when
  `c < i`. It is proved like `CleanupKeptType`, by `FiniteNatInductiveDef`
  and a least index where `WalkInv` would fail. That is a fact about one
  recursive function, reached without an induction operator.

`ShutdownProofs` also proves `ImplementsTeardownOrderThm`. `Init` maps to
`TO!Init`: the import thread runs and the stores are live. Every step maps
to a step of `TeardownOrder` or a stutter (`StepRefines`, with
`CallerRefines`, `ImportRefines` and `ThreadsLeave` for the steps that
only let threads leave). The guards of the abstract steps come from
`IInv` and from `NetOrderInv`. `NetOrderInv` says that a caller past
`CoreInterrupt` has interrupted the group and `g_connman`, and that a
caller past the network teardown has deleted `g_connman`. It is kept
apart from `IInv` so that the earlier proofs stand unchanged. TLC checked
it before it was proved.

Only model-checked:
- liveness (`LoaderTerminates`, `ShutdownCompletes`, `GenesisWaitEnds`), which
  TLAPS cannot prove with fairness and ENABLED;
- the properties of the violation runs, which do not hold.
