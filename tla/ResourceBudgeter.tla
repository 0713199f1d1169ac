-------------------------- MODULE ResourceBudgeter --------------------------
(***************************************************************************)
(* The resource budgets of init.cpp: the connection limit fitted to the    *)
(* file descriptors (AppInitParameterInteraction, step 2, with the        *)
(* low-memory soft defaults of -maxconnections, -maxmempool, -dbcache,    *)
(* -rpcthreads and -reverseheaders), the -maxmempool floor of step 3, and *)
(* the split of -dbcache into the block index, chain-state database and   *)
(* in-memory coins caches with the reverse-header switch (AppInitMain,    *)
(* step 7).  Three steps, in the order the start-up takes them.           *)
(*                                                                         *)
(* Mempool sizes are counted in units of 40000 bytes: step 3 compares     *)
(* -maxmempool * 1000000 with -limitdescendantsize * 1000 * 40, which is  *)
(* -maxmempool * 25 against -limitdescendantsize in that unit.            *)
(*                                                                         *)
(* Cache sizes are counted in KiB: the code shifts MiB values left by 20  *)
(* and then divides by 2, 4 and 8 and adds 1 << 23 bytes, all of which    *)
(* are exact on whole KiB, so the KiB figures are the byte figures / 1024.*)
(* RaiseFileDescriptorLimit (util.cpp) is a callee outside this file: it  *)
(* returns the soft limit, raised towards the request as far as the hard  *)
(* limit allows when setrlimit succeeds, and the request itself when      *)
(* getrlimit fails.                                                        *)
(***************************************************************************)
EXTENDS Integers

CONSTANTS
    MinCoreFDs,        \* MIN_CORE_FILEDESCRIPTORS
    MaxAddnode,        \* MAX_ADDNODE_CONNECTIONS
    DefaultMaxPeers,   \* DEFAULT_MAX_PEER_CONNECTIONS
    FDSetSize,         \* FD_SETSIZE, assumed when getrlimit fails
    MinDbCache, MaxDbCache, DefaultDbCache,     \* nMinDbCache, nMaxDbCache, nDefaultDbCache (MiB)
    MaxBlockDBCache, MaxBlockDBAndTxIndexCache, \* caps of the block index cache (MiB)
    MaxCoinsDBCache,   \* nMaxCoinsDBCache (MiB)
    DefaultMaxMempool, \* DEFAULT_MAX_MEMPOOL_SIZE (MB)
    LowMemMaxMempool,  \* DEFAULT_MAX_MEMPOOL_SIZE_LOWMEM (MB)
    DefaultDescendantSizeLimit, \* DEFAULT_DESCENDANT_SIZE_LIMIT (kB)
    MaxConnArgs,       \* values of -maxconnections tried
    DbCacheArgs,       \* values of -dbcache tried (MiB)
    MaxMempoolArgs,    \* values of -maxmempool tried (MB)
    LimitDescArgs,     \* values of -limitdescendantsize tried (kB)
    RpcThreadArgs,     \* values of -rpcthreads tried
    SoftLimits,        \* RLIMIT_NOFILE soft limits tried
    HardLimits,        \* RLIMIT_NOFILE hard limits tried
    Unset              \* the value of an option the user did not give

ASSUME BudgetAssumption ==
    /\ {MinCoreFDs, MaxAddnode, DefaultMaxPeers, FDSetSize} \subseteq Nat
    /\ {MinDbCache, MaxDbCache, DefaultDbCache, MaxBlockDBCache,
        MaxBlockDBAndTxIndexCache, MaxCoinsDBCache} \subseteq Nat
    /\ MinDbCache <= MaxDbCache
    /\ {DefaultMaxMempool, LowMemMaxMempool, DefaultDescendantSizeLimit} \subseteq Nat
    /\ MaxConnArgs \subseteq Int /\ DbCacheArgs \subseteq Nat
    /\ MaxMempoolArgs \subseteq Int /\ LimitDescArgs \subseteq Int
    /\ RpcThreadArgs \subseteq Int
    /\ SoftLimits \subseteq Nat /\ HardLimits \subseteq Nat
    /\ Unset \notin Int /\ Unset \notin BOOLEAN

\* The low-memory soft defaults written as literals in step 2
\* (-maxconnections=40, -dbcache=200, -rpcthreads=1).
LowMemMaxConnections == 40
LowMemDbCache == 200
LowMemRpcThreads == 1

VARIABLES
    pc,                  \* "params", "cache", "done", "failed"
    cfg,                 \* the command line and the host
    maxconnArg,          \* -maxconnections as GetArg sees it now
    dbcacheArg,          \* -dbcache as GetArg sees it now
    maxmempoolArg,       \* -maxmempool as GetArg sees it now
    rpcthreadsArg,       \* -rpcthreads as GetArg sees it now
    reverseheadersArg,   \* -reverseheaders as GetBoolArg sees it now
    nUserMaxConnections,
    nMaxConnections,
    nFD,
    nTotalCache,         \* KiB, after the clamp
    nBlockTreeDBCache,   \* KiB
    nCoinDBCache,        \* KiB
    nCoinCacheUsage,     \* KiB
    fReverseHeaders

argVars == <<maxconnArg, dbcacheArg, maxmempoolArg, rpcthreadsArg, reverseheadersArg>>
cacheVars == <<nTotalCache, nBlockTreeDBCache, nCoinDBCache, nCoinCacheUsage,
               fReverseHeaders>>
vars == <<pc, cfg, argVars, nUserMaxConnections, nMaxConnections, nFD, cacheVars>>

Config == { c \in [maxconnections: MaxConnArgs \cup {Unset},
                   dbcache: DbCacheArgs \cup {Unset},
                   maxmempool: MaxMempoolArgs \cup {Unset},
                   limitdescendantsize: LimitDescArgs \cup {Unset},
                   rpcthreads: RpcThreadArgs \cup {Unset},
                   reverseheaders: BOOLEAN \cup {Unset},
                   binds: 0..2, prune: BOOLEAN, txindex: BOOLEAN,
                   lowMem: BOOLEAN, getrlimitFails: BOOLEAN,
                   soft: SoftLimits, hard: HardLimits] : c.soft <= c.hard }

MinI(a, b) == IF a <= b THEN a ELSE b
MaxI(a, b) == IF a >= b THEN a ELSE b

\* GetArg(name, default).
GetArg(v, default) == IF v = Unset THEN default ELSE v

\* Mutant of SoftSet: the value is forced over the user's (ForceSetArg).
SoftSetForced(v, value) == value

\* SoftSetArg(name, value): set only when the user did not give it.
SoftSet(v, value) == IF v = Unset THEN value ELSE v

\* The limits RaiseFileDescriptorLimit(wanted) can return.
RaisedLimits(c, wanted) ==
    IF c.getrlimitFails THEN {wanted}
    ELSE IF c.soft >= wanted THEN {c.soft}
    ELSE {c.soft, MinI(wanted, c.hard)}

Init ==
    /\ pc = "params"
    /\ cfg \in Config
    /\ maxconnArg = cfg.maxconnections
    /\ dbcacheArg = cfg.dbcache
    /\ maxmempoolArg = cfg.maxmempool
    /\ rpcthreadsArg = cfg.rpcthreads
    /\ reverseheadersArg = cfg.reverseheaders
    /\ nUserMaxConnections = 0 /\ nMaxConnections = 0 /\ nFD = 0
    /\ nTotalCache = 0 /\ nBlockTreeDBCache = 0 /\ nCoinDBCache = 0
    /\ nCoinCacheUsage = 0 /\ fReverseHeaders = FALSE

-----------------------------------------------------------------------------
\* nMaxConnections = min(nFD - MIN_CORE_FILEDESCRIPTORS - MAX_ADDNODE_CONNECTIONS,
\*                       nMaxConnections);
ConnectionLimit(fd, nMax) == MinI(fd - MinCoreFDs - MaxAddnode, nMax)

(***************************************************************************)
(* Step 2: prune with txindex is refused; nBind = max(#-bind + #-whitebind,*)
(* 1); nUserMaxConnections = -maxconnections; on a host with at most 1 GiB *)
(* the soft defaults are set (after -maxconnections was read); the limit  *)
(* is cut to the descriptors left by the system limit, descriptors are    *)
(* raised for it, start-up fails below MIN_CORE_FILEDESCRIPTORS, and the  *)
(* limit is cut again to what was obtained.                                *)
(***************************************************************************)
AppInitParameterInteraction ==
    /\ pc = "params"
    /\ IF cfg.prune /\ cfg.txindex
       THEN pc' = "failed" /\ UNCHANGED <<argVars,
                             nUserMaxConnections, nMaxConnections, nFD>>
       ELSE
       LET nBind  == MaxI(cfg.binds, 1)
           nUser  == GetArg(maxconnArg, DefaultMaxPeers)
           nSys   == IF cfg.getrlimitFails THEN FDSetSize ELSE cfg.soft
           nMax1  == MaxI(MinI(MaxI(nUser, 0), nSys - nBind - MinCoreFDs - MaxAddnode), 0)
       IN /\ nUserMaxConnections' = nUser
          /\ maxconnArg' = IF cfg.lowMem THEN SoftSet(maxconnArg, LowMemMaxConnections) ELSE maxconnArg
          /\ maxmempoolArg' = IF cfg.lowMem THEN SoftSet(maxmempoolArg, LowMemMaxMempool) ELSE maxmempoolArg
          /\ dbcacheArg' = IF cfg.lowMem THEN SoftSet(dbcacheArg, LowMemDbCache) ELSE dbcacheArg
          /\ rpcthreadsArg' = IF cfg.lowMem THEN SoftSet(rpcthreadsArg, LowMemRpcThreads) ELSE rpcthreadsArg
          /\ reverseheadersArg' = IF cfg.lowMem THEN SoftSet(reverseheadersArg, FALSE) ELSE reverseheadersArg
          /\ \E fd \in RaisedLimits(cfg, nMax1 + MinCoreFDs + MaxAddnode) :
               /\ nFD' = fd
               /\ IF fd < MinCoreFDs
                  THEN pc' = "failed" /\ nMaxConnections' = nMax1
                  ELSE pc' = "flags" /\ nMaxConnections' = ConnectionLimit(fd, nMax1)
    /\ UNCHANGED <<cfg, cacheVars>>

\* nMempoolSizeMax < 0 || nMempoolSizeMax < nMempoolSizeMin, in units of
\* 40000 bytes.
MempoolTooSmall(c, mempoolArg) ==
    LET max == GetArg(mempoolArg, DefaultMaxMempool) * 25
    IN  max < 0 \/ max < GetArg(c.limitdescendantsize, DefaultDescendantSizeLimit)

\* Step 3, mempool limits: start-up stops with "-maxmempool must be at
\* least ..." when the mempool budget is negative or below the floor
\* that -limitdescendantsize sets.
MempoolLimits ==
    /\ pc = "flags"
    /\ pc' = IF MempoolTooSmall(cfg, maxmempoolArg) THEN "failed" ELSE "cache"
    /\ UNCHANGED <<cfg, argVars, nUserMaxConnections, nMaxConnections, nFD, cacheVars>>

\* nTotalCache clamped to [nMinDbCache, nMaxDbCache] (MiB).
ClampDbCache(v) == MinI(MaxI(v, MinDbCache), MaxDbCache)

\* Mutant of CoinDBCache: the wrong end of the 25%-50% window is taken.
CoinDBCacheMax(rem) ==
    MinI(MaxI(rem \div 2, (rem \div 4) + 8192), MaxCoinsDBCache * 1024)

\* nCoinDBCache = min(total / 2, total / 4 + (1 << 23)), capped by
\* nMaxCoinsDBCache << 20 (KiB: 1 << 23 bytes = 8192 KiB).
CoinDBCache(rem) ==
    MinI(MinI(rem \div 2, (rem \div 4) + 8192), MaxCoinsDBCache * 1024)

\* Step 7: fReverseHeaders = GetBoolArg("-reverseheaders", true); then the
\* cache size calculations: clamp -dbcache to [nMinDbCache,
\* nMaxDbCache]; an eighth (capped) for the block index; a share of the
\* rest for the coins database; what is left for the in-memory coins.
CacheSizes ==
    /\ pc = "cache"
    /\ LET total == ClampDbCache(GetArg(dbcacheArg, DefaultDbCache)) * 1024
           tree  == MinI(total \div 8, (IF cfg.txindex THEN MaxBlockDBAndTxIndexCache
                                        ELSE MaxBlockDBCache) * 1024)
           coin  == CoinDBCache(total - tree)
       IN /\ nTotalCache' = total
          /\ nBlockTreeDBCache' = tree
          /\ nCoinDBCache' = coin
          /\ nCoinCacheUsage' = total - tree - coin
    /\ fReverseHeaders' = GetArg(reverseheadersArg, TRUE)
    /\ pc' = "done"
    /\ UNCHANGED <<cfg, argVars, nUserMaxConnections, nMaxConnections, nFD>>

\* Start-up went on, or stopped with InitError.
Finished == pc \in {"done", "failed"} /\ UNCHANGED vars

Next == AppInitParameterInteraction \/ MempoolLimits \/ CacheSizes \/ Finished

Spec == Init /\ [][Next]_vars

-----------------------------------------------------------------------------
TypeOK ==
    /\ pc \in {"params", "flags", "cache", "done", "failed"}
    /\ cfg \in Config
    /\ maxconnArg \in MaxConnArgs \cup {Unset, LowMemMaxConnections}
    /\ dbcacheArg \in DbCacheArgs \cup {Unset, LowMemDbCache}
    /\ maxmempoolArg \in MaxMempoolArgs \cup {Unset, LowMemMaxMempool}
    /\ rpcthreadsArg \in RpcThreadArgs \cup {Unset, LowMemRpcThreads}
    /\ reverseheadersArg \in BOOLEAN \cup {Unset}
    /\ fReverseHeaders \in BOOLEAN
    /\ {nUserMaxConnections, nMaxConnections, nFD} \subseteq Int
    /\ {nTotalCache, nBlockTreeDBCache, nCoinDBCache, nCoinCacheUsage} \subseteq Int

\* The cache split: the three caches are non-negative and add up to the
\* clamped -dbcache; the block index takes at most an eighth, and the
\* coins database at most half of what the block index leaves.
CacheSplitSound ==
    pc = "done" =>
        /\ nBlockTreeDBCache + nCoinDBCache + nCoinCacheUsage = nTotalCache
        /\ nBlockTreeDBCache >= 0 /\ nCoinDBCache >= 0 /\ nCoinCacheUsage >= 0
        /\ nBlockTreeDBCache <= nTotalCache \div 8
        /\ nCoinDBCache <= (nTotalCache - nBlockTreeDBCache) \div 2

\* The value an option soft-set in step 2 resolves to: the user's when
\* given, else the low-memory default on a host with at most 1 GiB, else
\* the ordinary default.
Resolved(user, lowMemDefault, default) ==
    CASE user # Unset                -> user
      [] user = Unset /\ cfg.lowMem  -> lowMemDefault
      [] user = Unset /\ ~cfg.lowMem -> default

\* The spec: on a host below 1 GiB with no override, the total cache is
\* 200 MiB, the mempool budget the reduced constant, one RPC worker and
\* reverse-header sync off; explicitly set values are left untouched.
\* Checked where the code consumes them: the cache split and the
\* reverse-header switch of step 7, and -maxmempool and -rpcthreads as
\* GetArg returns them to the mempool and the HTTP server afterwards.
LowMemorySoftDefaults ==
    pc = "done" =>
        /\ nTotalCache = 1024 * ClampDbCache(Resolved(cfg.dbcache, LowMemDbCache, DefaultDbCache))
        /\ GetArg(maxmempoolArg, DefaultMaxMempool)
              = Resolved(cfg.maxmempool, LowMemMaxMempool, DefaultMaxMempool)
        /\ rpcthreadsArg = Resolved(cfg.rpcthreads, LowMemRpcThreads, Unset)
        /\ fReverseHeaders = Resolved(cfg.reverseheaders, FALSE, TRUE)

\* The spec: when the descriptor floor cannot be reached start-up fails
\* (ResourceExhausted); a start-up that goes on has a connection limit of
\* zero or more.
ConnectionsNonNegative == pc \in {"flags", "cache", "done"} => nMaxConnections >= 0

\* The spec and the warning the code prints: on a host with at most 1 GiB
\* and no -maxconnections, the connection limit is lowered to 40.
LowMemoryCapsConnections ==
    (pc \in {"flags", "cache", "done"} /\ cfg.lowMem /\ cfg.maxconnections = Unset)
        => nMaxConnections <= LowMemMaxConnections
=============================================================================
