----------------------- MODULE ResourceBudgeterProofs -----------------------
(***************************************************************************)
(* Proofs, for every value of the constants the code fixes (descriptor    *)
(* reserves, cache floors, ceilings and caps) and every command line and  *)
(* host, that the -dbcache split adds up within its shares and that the  *)
(* low-memory soft defaults reach the values start-up goes on with.       *)
(***************************************************************************)
EXTENDS ResourceBudgeter, TLAPS

(* What GetArg returns for each option step 2 soft-sets, once step 2 has  *)
(* run.  GetArg(v, Unset) is v itself, so -rpcthreads, read with its      *)
(* default elsewhere, is stated in the same form.                         *)
ArgsResolved ==
    /\ GetArg(dbcacheArg, DefaultDbCache) = Resolved(cfg.dbcache, LowMemDbCache, DefaultDbCache)
    /\ GetArg(maxmempoolArg, DefaultMaxMempool)
         = Resolved(cfg.maxmempool, LowMemMaxMempool, DefaultMaxMempool)
    /\ GetArg(rpcthreadsArg, Unset) = Resolved(cfg.rpcthreads, LowMemRpcThreads, Unset)
    /\ GetArg(reverseheadersArg, TRUE) = Resolved(cfg.reverseheaders, FALSE, TRUE)

(* Two facts of the steps already taken, needed by the strengthening:   *)
(* past step 2 the connection limit and the reserves fit in the          *)
(* descriptors obtained; past step 3 the mempool budget is at least its  *)
(* floor.                                                                 *)
FDsCoverConnections ==
    pc \in {"flags", "cache", "done"} => nMaxConnections + MinCoreFDs + MaxAddnode <= nFD
MempoolFloorChecked ==
    pc \in {"cache", "done"} =>
        LET max == GetArg(maxmempoolArg, DefaultMaxMempool) * 25
        IN  max >= 0 /\ max >= GetArg(cfg.limitdescendantsize, DefaultDescendantSizeLimit)

(* The strengthening: before step 2 the options are still the user's,     *)
(* after it every soft-set option resolves as the low-memory rule says,   *)
(* and the properties of the steps already taken hold.                    *)
BudgetInv ==
    /\ TypeOK
    /\ pc = "params" => /\ dbcacheArg = cfg.dbcache /\ maxmempoolArg = cfg.maxmempool
                        /\ rpcthreadsArg = cfg.rpcthreads
                        /\ reverseheadersArg = cfg.reverseheaders
    /\ pc \in {"flags", "cache", "done"} => ArgsResolved
    /\ FDsCoverConnections
    /\ CacheSplitSound
    /\ LowMemorySoftDefaults
    /\ MempoolFloorChecked

\* The constants one by one.
LEMMA ConstTypes ==
    /\ MinCoreFDs \in Nat /\ MaxAddnode \in Nat /\ DefaultMaxPeers \in Nat
    /\ FDSetSize \in Nat /\ MinDbCache \in Nat /\ MaxDbCache \in Nat
    /\ DefaultDbCache \in Nat /\ MaxBlockDBCache \in Nat
    /\ MaxBlockDBAndTxIndexCache \in Nat /\ MaxCoinsDBCache \in Nat
    /\ DefaultMaxMempool \in Nat /\ LowMemMaxMempool \in Nat
    /\ DefaultDescendantSizeLimit \in Nat
    /\ MinDbCache <= MaxDbCache
    /\ MaxConnArgs \subseteq Int /\ DbCacheArgs \subseteq Nat
    /\ MaxMempoolArgs \subseteq Int /\ LimitDescArgs \subseteq Int
    /\ RpcThreadArgs \subseteq Int
    /\ SoftLimits \subseteq Nat /\ HardLimits \subseteq Nat
    /\ Unset \notin Int /\ Unset \notin BOOLEAN
BY BudgetAssumption

\* A soft default that is not Unset itself: after step 2, GetArg returns
\* the user's value, or the low-memory default on a small host, or the
\* ordinary default.
LEMMA SoftSetResolves ==
    ASSUME NEW u, NEW low, NEW d, low # Unset, cfg.lowMem \in BOOLEAN
    PROVE  GetArg(IF cfg.lowMem THEN SoftSet(u, low) ELSE u, d) = Resolved(u, low, d)
BY DEF GetArg, SoftSet, Resolved

\* BudgetInv holds initially.
LEMMA InitBudgetInv == Init => BudgetInv
<1> SUFFICES ASSUME Init PROVE BudgetInv
  OBVIOUS
<1>1. cfg \in Config /\ pc = "params"
  BY DEF Init
<1>2. TypeOK
  <2>1. fReverseHeaders \in BOOLEAN
    BY Zenon DEF Init
  <2>2. QED
    BY <1>1, <2>1 DEF Init, TypeOK, Config
<1>3. QED
  BY <1>1, <1>2 DEF Init, BudgetInv, FDsCoverConnections, CacheSplitSound,
                    LowMemorySoftDefaults, MempoolFloorChecked

\* Step 2 keeps BudgetInv.
LEMMA ParamsBudgetInv ==
    ASSUME BudgetInv, AppInitParameterInteraction
    PROVE  BudgetInv'
<1>1. /\ pc = "params" /\ cfg \in Config
      /\ dbcacheArg = cfg.dbcache /\ maxmempoolArg = cfg.maxmempool
      /\ rpcthreadsArg = cfg.rpcthreads /\ reverseheadersArg = cfg.reverseheaders
  BY DEF AppInitParameterInteraction, BudgetInv, TypeOK
<1>2. UNCHANGED <<cfg, cacheVars>>
  BY DEF AppInitParameterInteraction
<1>0. fReverseHeaders' \in BOOLEAN
  <2>1. fReverseHeaders \in BOOLEAN
    BY DEF BudgetInv, TypeOK
  <2>2. QED
    BY <1>2, <2>1 DEF cacheVars
<1>3. CASE cfg.prune /\ cfg.txindex
  <2>1. pc' = "failed"
        /\ UNCHANGED <<argVars, nUserMaxConnections, nMaxConnections, nFD>>
    BY <1>3 DEF AppInitParameterInteraction
  <2>2. QED
    BY <1>0, <1>2, <2>1 DEF BudgetInv, TypeOK, argVars, cacheVars, FDsCoverConnections,
                      CacheSplitSound, LowMemorySoftDefaults, MempoolFloorChecked
<1>4. CASE ~(cfg.prune /\ cfg.txindex)
  <2> DEFINE nBind == MaxI(cfg.binds, 1)
             nUser == GetArg(maxconnArg, DefaultMaxPeers)
             nSys  == IF cfg.getrlimitFails THEN FDSetSize ELSE cfg.soft
             nMax1 == MaxI(MinI(MaxI(nUser, 0), nSys - nBind - MinCoreFDs - MaxAddnode), 0)
  <2>1. /\ nUserMaxConnections' = nUser
        /\ maxconnArg' = IF cfg.lowMem THEN SoftSet(maxconnArg, LowMemMaxConnections)
                         ELSE maxconnArg
        /\ maxmempoolArg' = IF cfg.lowMem THEN SoftSet(maxmempoolArg, LowMemMaxMempool)
                            ELSE maxmempoolArg
        /\ dbcacheArg' = IF cfg.lowMem THEN SoftSet(dbcacheArg, LowMemDbCache)
                         ELSE dbcacheArg
        /\ rpcthreadsArg' = IF cfg.lowMem THEN SoftSet(rpcthreadsArg, LowMemRpcThreads)
                            ELSE rpcthreadsArg
        /\ reverseheadersArg' = IF cfg.lowMem THEN SoftSet(reverseheadersArg, FALSE)
                                ELSE reverseheadersArg
        /\ \E fd \in RaisedLimits(cfg, nMax1 + MinCoreFDs + MaxAddnode) :
              /\ nFD' = fd
              /\ IF fd < MinCoreFDs
                 THEN pc' = "failed" /\ nMaxConnections' = nMax1
                 ELSE pc' = "flags" /\ nMaxConnections' = ConnectionLimit(fd, nMax1)
    BY <1>4 DEF AppInitParameterInteraction
  <2>2. nUser \in Int /\ nMax1 \in Int
    <3>1. maxconnArg \in MaxConnArgs \cup {Unset, LowMemMaxConnections}
      BY DEF BudgetInv, TypeOK
    <3>2. nUser \in Int
      BY <3>1, ConstTypes DEF GetArg, LowMemMaxConnections
    <3>3. /\ cfg.binds \in 0..2 /\ cfg.soft \in SoftLimits
          /\ cfg.getrlimitFails \in BOOLEAN
      BY <1>1 DEF Config
    <3>4. nSys \in Int
      <4>1. CASE cfg.getrlimitFails
        <5>1. nSys = FDSetSize
          BY <4>1, Zenon
        <5>2. QED
          BY <5>1, ConstTypes
      <4>2. CASE ~cfg.getrlimitFails
        <5>1. nSys = cfg.soft
          BY <4>2, Zenon
        <5>2. cfg.soft \in Nat
          BY <3>3, ConstTypes, Zenon
        <5>3. QED
          BY <5>1, <5>2
      <4>3. QED
        BY <4>1, <4>2
    <3>6. nBind \in Int
      BY <3>3 DEF MaxI
    <3>5. QED
      BY <3>2, <3>4, <3>6, ConstTypes DEF MaxI, MinI
  <2>3. PICK fd \in RaisedLimits(cfg, nMax1 + MinCoreFDs + MaxAddnode) :
              /\ nFD' = fd
              /\ IF fd < MinCoreFDs
                 THEN pc' = "failed" /\ nMaxConnections' = nMax1
                 ELSE pc' = "flags" /\ nMaxConnections' = ConnectionLimit(fd, nMax1)
    BY <2>1
  <2>4. fd \in Int
    <3>1. cfg.soft \in SoftLimits /\ cfg.hard \in HardLimits
      BY <1>1 DEF Config
    <3>2. QED
      BY <2>2, <2>3, <3>1, ConstTypes DEF RaisedLimits, MinI
  <2>5. /\ maxconnArg' \in MaxConnArgs \cup {Unset, LowMemMaxConnections}
        /\ dbcacheArg' \in DbCacheArgs \cup {Unset, LowMemDbCache}
        /\ maxmempoolArg' \in MaxMempoolArgs \cup {Unset, LowMemMaxMempool}
        /\ rpcthreadsArg' \in RpcThreadArgs \cup {Unset, LowMemRpcThreads}
        /\ reverseheadersArg' \in BOOLEAN \cup {Unset}
    BY <2>1 DEF BudgetInv, TypeOK, SoftSet
  <2>6. ArgsResolved'
    <3>1. cfg' = cfg /\ cfg.lowMem \in BOOLEAN
      BY <1>1, <1>2 DEF Config, cacheVars
    <3>2. /\ LowMemDbCache # Unset /\ LowMemMaxMempool # Unset
          /\ LowMemRpcThreads # Unset /\ FALSE # Unset
      <4>1. LowMemDbCache # Unset /\ LowMemMaxMempool # Unset /\ LowMemRpcThreads # Unset
        BY ConstTypes DEF LowMemDbCache, LowMemRpcThreads
      <4>2. FALSE # Unset
        BY ConstTypes, Zenon
      <4>3. QED
        BY <4>1, <4>2
    <3>3. GetArg(dbcacheArg', DefaultDbCache) = Resolved(cfg.dbcache, LowMemDbCache, DefaultDbCache)
      BY <1>1, <2>1, <3>1, <3>2, SoftSetResolves
    <3>4. GetArg(maxmempoolArg', DefaultMaxMempool)
            = Resolved(cfg.maxmempool, LowMemMaxMempool, DefaultMaxMempool)
      BY <1>1, <2>1, <3>1, <3>2, SoftSetResolves
    <3>5. GetArg(rpcthreadsArg', Unset) = Resolved(cfg.rpcthreads, LowMemRpcThreads, Unset)
      BY <1>1, <2>1, <3>1, <3>2, SoftSetResolves
    <3>6. GetArg(reverseheadersArg', TRUE) = Resolved(cfg.reverseheaders, FALSE, TRUE)
      BY <1>1, <2>1, <3>1, <3>2, SoftSetResolves
    <3>7. QED
      BY <3>1, <3>3, <3>4, <3>5, <3>6 DEF ArgsResolved, Resolved
  <2>7. TypeOK'
    <3>1. pc' \in {"failed", "flags"} /\ nMaxConnections' \in Int /\ nFD' \in Int
      <4>1. CASE fd < MinCoreFDs
        BY <2>2, <2>3, <2>4, <4>1
      <4>2. CASE ~(fd < MinCoreFDs)
        BY <2>2, <2>3, <2>4, <4>2, ConstTypes DEF ConnectionLimit, MinI
      <4>3. QED
        BY <4>1, <4>2
    <3>2. nUserMaxConnections' \in Int
      BY <2>1, <2>2
    <3>3. cfg' \in Config
      BY <1>1, <1>2 DEF cacheVars
    <3>4. {nTotalCache', nBlockTreeDBCache', nCoinDBCache', nCoinCacheUsage'} \subseteq Int
      BY <1>2 DEF BudgetInv, TypeOK, cacheVars
    <3>5. QED
      BY <1>0, <2>5, <3>1, <3>2, <3>3, <3>4 DEF TypeOK
  <2>8. FDsCoverConnections'
    BY <2>2, <2>3, <2>4, ConstTypes DEF FDsCoverConnections, ConnectionLimit, MinI
  <2>9. pc' \in {"failed", "flags"}
    BY <2>3
  <2>10. QED
    BY <2>6, <2>7, <2>8, <2>9 DEF BudgetInv, CacheSplitSound, LowMemorySoftDefaults,
                                MempoolFloorChecked
<1>5. QED
  BY <1>3, <1>4

\* The floor check of step 3 keeps BudgetInv.
LEMMA FlagsBudgetInv ==
    ASSUME BudgetInv, MempoolLimits
    PROVE  BudgetInv'
<1> DEFINE max   == GetArg(maxmempoolArg, DefaultMaxMempool) * 25
           floor == GetArg(cfg.limitdescendantsize, DefaultDescendantSizeLimit)
<1>1. /\ pc = "flags"
      /\ pc' = IF MempoolTooSmall(cfg, maxmempoolArg) THEN "failed" ELSE "cache"
      /\ UNCHANGED <<cfg, argVars, nUserMaxConnections, nMaxConnections, nFD, cacheVars>>
  BY DEF MempoolLimits
<1>2. TypeOK /\ ArgsResolved /\ FDsCoverConnections
  BY <1>1 DEF BudgetInv
<1>3. max \in Int /\ floor \in Int
  <2>1. maxmempoolArg \in MaxMempoolArgs \cup {Unset, LowMemMaxMempool}
    BY <1>2 DEF TypeOK
  <2>2. cfg.limitdescendantsize \in LimitDescArgs \cup {Unset}
    BY <1>2 DEF TypeOK, Config
  <2>3. GetArg(maxmempoolArg, DefaultMaxMempool) \in Int
    BY <2>1, ConstTypes DEF GetArg
  <2>4. floor \in Int
    <3>1. CASE cfg.limitdescendantsize = Unset
      BY <3>1, ConstTypes DEF GetArg
    <3>2. CASE cfg.limitdescendantsize # Unset
      BY <2>2, <3>2, ConstTypes DEF GetArg
    <3>3. QED
      BY <3>1, <3>2
  <2>5. QED
    BY <2>3, <2>4
<1>4. pc' = "cache" => max >= 0 /\ max >= floor
  BY <1>1, <1>3 DEF MempoolTooSmall
<1>5. TypeOK'
  BY <1>1, <1>2 DEF TypeOK, argVars, cacheVars
<1>6. /\ ArgsResolved' /\ FDsCoverConnections' /\ CacheSplitSound'
      /\ LowMemorySoftDefaults'
  BY <1>1, <1>2 DEF ArgsResolved, Resolved, argVars, cacheVars,
     FDsCoverConnections, CacheSplitSound, LowMemorySoftDefaults
<1>7. MempoolFloorChecked'
  BY <1>1, <1>4 DEF MempoolFloorChecked, argVars
<1>8. QED
  BY <1>1, <1>5, <1>6, <1>7 DEF BudgetInv

\* Step 7's cache split keeps BudgetInv.
LEMMA CacheBudgetInv ==
    ASSUME BudgetInv, CacheSizes
    PROVE  BudgetInv'
<1> DEFINE v     == GetArg(dbcacheArg, DefaultDbCache)
           total == ClampDbCache(v) * 1024
           cap   == (IF cfg.txindex THEN MaxBlockDBAndTxIndexCache ELSE MaxBlockDBCache) * 1024
           tree  == MinI(total \div 8, cap)
           rem   == total - tree
           coin  == CoinDBCache(rem)
<1>1. /\ pc = "cache" /\ pc' = "done"
      /\ nTotalCache' = total /\ nBlockTreeDBCache' = tree
      /\ nCoinDBCache' = coin /\ nCoinCacheUsage' = total - tree - coin
      /\ fReverseHeaders' = GetArg(reverseheadersArg, TRUE)
      /\ UNCHANGED <<cfg, argVars, nUserMaxConnections, nMaxConnections, nFD>>
  BY DEF CacheSizes
<1>2. /\ TypeOK /\ ArgsResolved /\ FDsCoverConnections /\ MempoolFloorChecked
  BY <1>1 DEF BudgetInv
<1>3. v \in Int
  <2>1. dbcacheArg \in DbCacheArgs \cup {Unset, LowMemDbCache}
    BY <1>2 DEF TypeOK
  <2>2. QED
    BY <2>1, ConstTypes DEF GetArg, LowMemDbCache
<1>4. total \in Nat
  BY <1>3, ConstTypes DEF ClampDbCache, MinI, MaxI
<1>5. cap \in Nat
  <2>1. cfg.txindex \in BOOLEAN
    BY <1>2 DEF TypeOK, Config
  <2>2. QED
    BY <2>1, ConstTypes
<1>6. tree \in 0..(total \div 8)
  BY <1>4, <1>5 DEF MinI
<1>7. rem \in Nat /\ coin \in 0..(rem \div 2)
  BY <1>4, <1>6, ConstTypes DEF CoinDBCache, MinI
<1>8. CacheSplitSound'
  BY <1>1, <1>4, <1>6, <1>7 DEF CacheSplitSound
<1>9. fReverseHeaders' \in BOOLEAN
  <2>1. reverseheadersArg \in BOOLEAN \cup {Unset}
    BY <1>2 DEF TypeOK
  <2>2. QED
    BY <1>1, <2>1, Zenon DEF GetArg
<1>10. LowMemorySoftDefaults'
  <2>1. ClampDbCache(v) \in Int
    BY <1>3, ConstTypes DEF ClampDbCache, MinI, MaxI
  <2>2. nTotalCache' = 1024 * ClampDbCache(Resolved(cfg.dbcache, LowMemDbCache, DefaultDbCache))
    BY <1>1, <1>2, <2>1 DEF ArgsResolved
  <2>3. rpcthreadsArg' = Resolved(cfg.rpcthreads, LowMemRpcThreads, Unset)
    BY <1>1, <1>2 DEF ArgsResolved, GetArg, argVars
  <2>4. GetArg(maxmempoolArg', DefaultMaxMempool)
          = Resolved(cfg.maxmempool, LowMemMaxMempool, DefaultMaxMempool)
    BY <1>1, <1>2 DEF ArgsResolved, argVars
  <2>5. fReverseHeaders' = Resolved(cfg.reverseheaders, FALSE, TRUE)
    BY <1>1, <1>2, Zenon DEF ArgsResolved
  <2>6. \A u, low, d : Resolved(u, low, d)' = Resolved(u, low, d)
    BY <1>1 DEF Resolved
  <2>7. QED
    BY <1>1, <2>2, <2>3, <2>4, <2>5, <2>6 DEF LowMemorySoftDefaults
<1>11. TypeOK'
  <2>1. /\ maxconnArg' \in MaxConnArgs \cup {Unset, LowMemMaxConnections}
        /\ dbcacheArg' \in DbCacheArgs \cup {Unset, LowMemDbCache}
        /\ maxmempoolArg' \in MaxMempoolArgs \cup {Unset, LowMemMaxMempool}
        /\ rpcthreadsArg' \in RpcThreadArgs \cup {Unset, LowMemRpcThreads}
        /\ reverseheadersArg' \in BOOLEAN \cup {Unset}
    BY <1>1, <1>2 DEF TypeOK, argVars
  <2>2. /\ pc' \in {"params", "flags", "cache", "done", "failed"} /\ cfg' \in Config
        /\ {nUserMaxConnections', nMaxConnections', nFD'} \subseteq Int
        /\ {nTotalCache', nBlockTreeDBCache', nCoinDBCache', nCoinCacheUsage'} \subseteq Int
    BY <1>1, <1>2, <1>4, <1>6, <1>7 DEF TypeOK
  <2>3. QED
    BY <1>9, <2>1, <2>2 DEF TypeOK
<1>12. QED
  BY <1>1, <1>2, <1>8, <1>10, <1>11 DEF BudgetInv, ArgsResolved, argVars,
     FDsCoverConnections, MempoolFloorChecked, Resolved

\* Every step of the budgeter keeps BudgetInv.
LEMMA NextBudgetInv == BudgetInv /\ [Next]_vars => BudgetInv'
<1> SUFFICES ASSUME BudgetInv, [Next]_vars PROVE BudgetInv'
  OBVIOUS
<1>1. CASE AppInitParameterInteraction
  BY <1>1, ParamsBudgetInv
<1>2. CASE MempoolLimits
  BY <1>2, FlagsBudgetInv
<1>3. CASE CacheSizes
  BY <1>3, CacheBudgetInv
<1>4. CASE Finished \/ UNCHANGED vars
  <2>1. UNCHANGED vars
    BY <1>4 DEF Finished
  <2>2. /\ pc' = pc /\ cfg' = cfg /\ maxconnArg' = maxconnArg /\ dbcacheArg' = dbcacheArg
        /\ maxmempoolArg' = maxmempoolArg /\ rpcthreadsArg' = rpcthreadsArg
        /\ reverseheadersArg' = reverseheadersArg
        /\ nUserMaxConnections' = nUserMaxConnections
        /\ nMaxConnections' = nMaxConnections /\ nFD' = nFD
        /\ nTotalCache' = nTotalCache /\ nBlockTreeDBCache' = nBlockTreeDBCache
        /\ nCoinDBCache' = nCoinDBCache /\ nCoinCacheUsage' = nCoinCacheUsage
        /\ fReverseHeaders' = fReverseHeaders
    BY <2>1 DEF vars, argVars, cacheVars
  <2>3. TypeOK'
    <3>1. fReverseHeaders' \in BOOLEAN
      BY <2>2, Zenon DEF BudgetInv, TypeOK
    <3>2. QED
      BY <2>2, <3>1 DEF BudgetInv, TypeOK
  <2>4. /\ BudgetInv
        /\ \A u, low, d : Resolved(u, low, d)' = Resolved(u, low, d)
    BY <2>2 DEF Resolved
  <2>5. LowMemorySoftDefaults'
    <3>1. CASE pc # "done"
      BY <2>2, <3>1 DEF LowMemorySoftDefaults
    <3>2. CASE pc = "done"
      <4>1. LowMemorySoftDefaults
        BY <2>4 DEF BudgetInv
      <4>2. nTotalCache' = 1024 * ClampDbCache(Resolved(cfg.dbcache, LowMemDbCache, DefaultDbCache))'
        BY <2>2, <2>4, <3>2, <4>1 DEF LowMemorySoftDefaults
      <4>3. GetArg(maxmempoolArg', DefaultMaxMempool)
              = Resolved(cfg.maxmempool, LowMemMaxMempool, DefaultMaxMempool)'
        BY <2>2, <2>4, <3>2, <4>1 DEF LowMemorySoftDefaults
      <4>4. rpcthreadsArg' = Resolved(cfg.rpcthreads, LowMemRpcThreads, Unset)'
        BY <2>2, <2>4, <3>2, <4>1 DEF LowMemorySoftDefaults
      <4>5. fReverseHeaders' = Resolved(cfg.reverseheaders, FALSE, TRUE)'
        BY <2>2, <2>4, <3>2, <4>1, Zenon DEF LowMemorySoftDefaults
      <4>6. QED
        BY <2>2, <4>2, <4>3, <4>4, <4>5 DEF LowMemorySoftDefaults
    <3>3. QED
      BY <3>1, <3>2
  <2>6. pc' \in {"flags", "cache", "done"} => ArgsResolved'
    BY <2>2, <2>4, Zenon DEF BudgetInv, ArgsResolved
  <2>7. QED
    BY <2>2, <2>3, <2>5, <2>6 DEF BudgetInv, FDsCoverConnections,
                                  CacheSplitSound, MempoolFloorChecked
<1>5. QED
  BY <1>1, <1>2, <1>3, <1>4 DEF Next

\* BudgetInv holds in every reachable state.
THEOREM BudgetInvariant == Spec => []BudgetInv
BY InitBudgetInv, NextBudgetInv, PTL DEF Spec

\* For every -dbcache, floor, ceiling and cap, step 7's three caches are
\* non-negative, add up to the clamped total and stay within their shares.
THEOREM CacheSplitSoundThm == Spec => []CacheSplitSound
BY BudgetInvariant, PTL DEF BudgetInv

\* For every host and command line, the low-memory soft defaults of step 2
\* (-dbcache, -maxmempool, -rpcthreads, -reverseheaders) reach the values
\* start-up goes on with, and an explicit option is kept.
THEOREM LowMemorySoftDefaultsThm == Spec => []LowMemorySoftDefaults
BY BudgetInvariant, PTL DEF BudgetInv
=============================================================================
