CONSTANT MaxAttempts <- MCMaxAttempts
SPECIFICATION Spec
INVARIANT LoadedConsistent
INVARIANT RecoveryOfferedOnce
PROPERTY LoaderTerminates
PROPERTY ImplementsStoreLoading
