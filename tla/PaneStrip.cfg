SPECIFICATION Spec
CONSTANTS
    NoTab = NoTab
    KeymapTab = keymap
    Tabs = {f1, f2, f3, keymap}
    MaxPaneId = 1
    MaxHistory = 4
SYMMETRY FileSymmetry
INVARIANTS StripsSound HistoryConsistent DropLandsBeside
CHECK_DEADLOCK FALSE
