CONSTANT MaxAttempts <- MCMaxAttempts
SPECIFICATION Spec
INVARIANT MemorySafe
