SPECIFICATION Spec
CONSTANTS
    NoTab = NoTab
    KeymapTab = keymap
    Tabs = {f1, keymap}
    MaxPaneId = 2
    MaxHistory = 3
INVARIANTS TypeOK
PROPERTIES OnlyStaleCursorLosesTabs
CHECK_DEADLOCK FALSE
