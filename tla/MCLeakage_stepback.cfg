\* Leaky bucket under a wall clock (time.time()) that may be stepped back.
CONSTANTS
    Rate = 2
    TicksPerSecond = 3
    MaxAmount = 3
    MaxStepBack = 2
    Window = 0
SPECIFICATION Spec
INVARIANT GrantNonNegative
