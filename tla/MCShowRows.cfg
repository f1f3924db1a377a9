SPECIFICATION Spec
CONSTANTS
    Stats <- MCStats
    MaxProcs <- MCMaxProcs
    MaxConns <- MCMaxConns
INVARIANT TypeOK RowsCounted TreeWellFormed
\* one show_process call: it returns after the loop
CHECK_DEADLOCK FALSE
