CONSTANTS c1 = c1  c2 = c2  w1 = w1
CONSTANT Callers <- MCCallers
CONSTANT Workers <- MCWorkers
SPECIFICATION Spec
INVARIANT MempoolSnapshotComplete
INVARIANT StoresOpenWhileThreadsRun
INVARIANT TeardownExclusive
PROPERTY ShutdownCompletes
PROPERTY ImplementsTeardownOrder
