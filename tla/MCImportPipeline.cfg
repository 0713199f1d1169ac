CONSTANT NFiles <- MCNFiles
CONSTANT NLoad <- MCNLoad
SPECIFICATION Spec
INVARIANT TypeOK
INVARIANT FedInOrder
INVARIANT ReindexFlagHonest
INVARIANT CleanupMatchesReference
INVARIANT ReindexScanExtent
PROPERTY GenesisWaitEnds
