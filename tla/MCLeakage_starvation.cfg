\* Leaky bucket, monotonic clock, rate below one byte per tick.
CONSTANTS
    Rate = 2
    TicksPerSecond = 3
    MaxAmount = 3
    MaxStepBack = 0
    Window = 0
SPECIFICATION Spec
PROPERTY Progress
