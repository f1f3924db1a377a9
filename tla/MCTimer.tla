------------------------------ MODULE MCTimer ------------------------------
EXTENDS Timer, TLC

\* 4-bit floats: every clock value from 16 on loses low bits
MCPrecision == 4
MCMaxTime == 40

\* a unit of 2237 s: the 41 clock values reach 24 hours and give every
\* field values near both of its edges
MCClockUnit == 2237

=============================================================================
