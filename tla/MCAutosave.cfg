SPECIFICATION DeSpec
CONSTANTS
    Closed = Closed
    Null = Null
    NoField = NoField
    NoRow = NoRow
    DeTabs = {a}
    DeEditors = {e1}
    DeTexts = {x, y}
    DeLosses = 0
    DeOps = 3
CHECK_DEADLOCK FALSE
INVARIANTS
    AutosaveStoresText
