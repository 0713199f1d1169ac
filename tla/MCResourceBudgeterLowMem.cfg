CONSTANT Unset = Unset
CONSTANT MinCoreFDs <- MCMinCoreFDs
CONSTANT MaxAddnode <- MCMaxAddnode
CONSTANT DefaultMaxPeers <- MCDefaultMaxPeers
CONSTANT FDSetSize <- MCFDSetSize
CONSTANT MinDbCache <- MCMinDbCache
CONSTANT MaxDbCache <- MCMaxDbCache
CONSTANT DefaultDbCache <- MCDefaultDbCache
CONSTANT MaxBlockDBCache <- MCMaxBlockDBCache
CONSTANT MaxBlockDBAndTxIndexCache <- MCMaxBlockDBAndTxIndexCache
CONSTANT MaxCoinsDBCache <- MCMaxCoinsDBCache
CONSTANT DefaultMaxMempool <- MCDefaultMaxMempool
CONSTANT LowMemMaxMempool <- MCLowMemMaxMempool
CONSTANT DefaultDescendantSizeLimit <- MCDefaultDescendantSizeLimit
CONSTANT MaxMempoolArgs <- MCMaxMempoolArgs
CONSTANT LimitDescArgs <- MCLimitDescArgs
CONSTANT RpcThreadArgs <- MCRpcThreadArgs
CONSTANT MaxConnArgs <- MCMaxConnArgs
CONSTANT DbCacheArgs <- MCDbCacheArgs
CONSTANT SoftLimits <- MCSoftLimits
CONSTANT HardLimits <- MCHardLimits
SPECIFICATION Spec
INVARIANT LowMemoryCapsConnections
