------------------------- MODULE MCResourceBudgeter -------------------------
(* ResourceBudgeter with the limits of the non-Windows build and inputs   *)
(* around every boundary: a -maxconnections below, at and above the      *)
(* default, a -dbcache below the floor, ordinary and above the ceiling,  *)
(* soft descriptor limits below, just above and well above              *)
(* MIN_CORE_FILEDESCRIPTORS, hard limits that do and do not allow a raise,*)
(* a negative -maxmempool and one between the low-memory and the ordinary *)
(* default, and a -limitdescendantsize whose floor (3000 * 40 kB = 120 MB)*)
(* lies between the low-memory mempool (100 MB) and the default (300 MB).*)
EXTENDS ResourceBudgeter

MCMinCoreFDs == 150
MCMaxAddnode == 8
MCDefaultMaxPeers == 125
MCFDSetSize == 1024
MCMinDbCache == 4
MCMaxDbCache == 16384
MCDefaultDbCache == 300
MCMaxBlockDBCache == 2
MCMaxBlockDBAndTxIndexCache == 1024
MCMaxCoinsDBCache == 8
MCDefaultMaxMempool == 300
MCLowMemMaxMempool == 100
MCDefaultDescendantSizeLimit == 101
MCMaxConnArgs == {-1, 8, 200}
MCDbCacheArgs == {1, 100, 20000}
MCMaxMempoolArgs == {-1, 200}
MCLimitDescArgs == {3000}
MCRpcThreadArgs == {4}
MCSoftLimits == {100, 155, 160, 1024}
MCHardLimits == {155, 4096}
=============================================================================
