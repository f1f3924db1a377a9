\* Selection and saved line across every interleaving of keys and redraws (the program stops only on 'q')
CONSTANTS
    LINES <- MCLINES
    COLS <- MCCOLS
    COLS_PAD <- MCCOLS_PAD
    COLS_TO_SORT <- MCCOLS_TO_SORT
    RATE_RX <- MCRATE_RX
    MaxRows <- MCMaxRows
SPECIFICATION Spec
CONSTRAINT ScrollBound
CHECK_DEADLOCK FALSE
INVARIANT TypeOK SelectionInRange SavedIsSelectedRow
