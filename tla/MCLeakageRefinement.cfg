\* Leaky bucket with truncating refill, clock set back by less than a token,
\* checked against the exact token bucket it implements.
CONSTANTS
    Rate = 2
    TicksPerSecond = 3
    MaxAmount = 3
    MaxStepBack = 1
    Window = 0
SPECIFICATION SpecR
PROPERTY IdealSpec
