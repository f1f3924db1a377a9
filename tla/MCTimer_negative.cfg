SPECIFICATION Spec
CONSTANTS
    Precision <- MCPrecision
    MaxTime <- MCMaxTime
    ClockUnit <- MCClockUnit
INVARIANT ElapsedNonNegative
\* the clock stops at the model's last value
CHECK_DEADLOCK FALSE
