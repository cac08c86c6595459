CONSTANTS
    PortSpace <- MCPortSpace
    PortChoices <- MCPortChoices
    MaxPorts = 2
    MaxSignals = 2
    PoolOrdered = TRUE
SPECIFICATION Spec
INVARIANT CleanShutdown
CHECK_DEADLOCK FALSE
