SPECIFICATION Spec
CONSTANTS
    Precision <- MCPrecision
    MaxTime <- MCMaxTime
    ClockUnit <- MCClockUnit
INVARIANT TypeOK ClockExact
\* the clock stops at the model's last value
CHECK_DEADLOCK FALSE
