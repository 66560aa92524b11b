SPECIFICATION LayoutSpec
CONSTANTS
    NoTab = NoTab
    KeymapTab = keymap
    Tabs = {f1, keymap}
    MaxPaneId = 4
    MaxHistory = 1
    MaxDepth = 4
INVARIANTS LayoutMatchesPanes TreeSound
PROPERTIES FocusLostOnlyToGhost OnlyDeletionEmptiesAPane
CHECK_DEADLOCK FALSE
