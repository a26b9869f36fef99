SPECIFICATION MCSpec
CONSTANTS
    Null = Null
    None = None
INVARIANTS
    ShiprocketIsReadRight
    CashfreeIsReadRight
    FiguresAddUp
CHECK_DEADLOCK FALSE
