CONSTANTS
    PortSpace <- MCPortSpace
    PortChoices <- MCPortChoices
    MaxPorts = 2
    MaxSignals = 1
    PoolOrdered = TRUE
SPECIFICATION Spec
INVARIANT OrderlyExit
CHECK_DEADLOCK FALSE
