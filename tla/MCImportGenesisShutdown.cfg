CONSTANT NFiles <- MCNFiles
CONSTANT NLoad <- MCNLoad
SPECIFICATION Spec
PROPERTY ShutdownEndsGenesisWait
