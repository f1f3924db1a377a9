\* The selected row stays on the screen across keys and redraws
CONSTANTS
    LINES <- MCLINES
    COLS <- MCCOLS
    COLS_PAD <- MCCOLS_PAD
    COLS_TO_SORT <- MCCOLS_TO_SORT
    RATE_RX <- MCRATE_RX
    MaxRows <- MCMaxRows
SPECIFICATION Spec
CONSTRAINT ScrollBound
CHECK_DEADLOCK FALSE
INVARIANT SelectedVisible
