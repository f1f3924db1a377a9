SPECIFICATION Spec
CONSTANTS
    Stats <- MCStats
    MaxProcs <- MCMaxProcs
    MaxConns <- MCMaxConns
INVARIANT NoActiveConnectionHidden
\* one show_process call: it returns after the loop
CHECK_DEADLOCK FALSE
