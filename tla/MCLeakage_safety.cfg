\* Leaky bucket, rate below the clock resolution, time.time() stepped back
\* by less than one token's worth (MaxStepBack * Rate < TicksPerSecond).
CONSTANTS
    Rate = 2
    TicksPerSecond = 3
    MaxAmount = 3
    MaxStepBack = 1
    Window = 4
SPECIFICATION Spec
INVARIANT TypeOK
INVARIANT RateLimit
