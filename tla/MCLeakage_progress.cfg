\* Leaky bucket, monotonic clock, at least one byte accrues per tick.
CONSTANTS
    Rate = 3
    TicksPerSecond = 2
    MaxAmount = 4
    MaxStepBack = 0
    Window = 0
SPECIFICATION Spec
PROPERTY Progress
