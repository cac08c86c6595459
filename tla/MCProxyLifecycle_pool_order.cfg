CONSTANTS
    PortSpace <- MCPortSpace
    PortChoices <- MCPortChoices
    MaxPorts = 2
    MaxSignals = 1
    PoolOrdered = FALSE
SPECIFICATION Spec
INVARIANT PortFileSound
CHECK_DEADLOCK FALSE
