CONSTANTS c1 = c1  c2 = c2  w1 = w1
CONSTANT Callers <- MCCallers
CONSTANT Workers <- MCWorkers
SPECIFICATION Spec
INVARIANT TeardownRunsOnce
