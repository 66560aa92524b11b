----------------------------- MODULE SplitLayout -----------------------------
(***************************************************************************)
(* PaneBoard with the split tree itself.  Each handler that adds or drops  *)
(* a pane performs the tree surgery of the source; the properties say that *)
(* the tree stays in normal form and that its leaves, read left to right,  *)
(* are the sequence PaneBoard works on.                                    *)
(***************************************************************************)
EXTENDS PaneBoard, SplitTree

ASSUME LayoutAssumption == MaxPaneId <= MaxDepth

VARIABLE splitLayout

layoutVars == <<vars, splitLayout>>

LayoutInit == Init /\ splitLayout = Leaf(MainPane)

\* The leaf of p is removed when the handler dropped the pane.
Shrink(tree, p) ==
    IF p \in DOMAIN panes' THEN tree ELSE CleanupTree(RemoveLeaf(tree, p))

LayoutClose ==
    \/ \E p \in PaneIds, t \in Tabs : /\ CloseTab(p, t)
                                      /\ splitLayout' = Shrink(splitLayout, p)
    \/ \E p \in PaneIds : /\ CloseAllTabs(p)
                          /\ splitLayout' = Shrink(splitLayout, p)
    \/ ClosePane /\ splitLayout' = Shrink(splitLayout, activePaneId)
    \/ /\ ToggleKeymapEditor
       /\ splitLayout' = LET gone == PaneIds \ DOMAIN panes'
                         IN  IF gone = {} THEN splitLayout
                             ELSE Shrink(splitLayout, CHOOSE p \in gone : TRUE)

LayoutMove ==
    \E p, q \in PaneIds, t \in Tabs :
        /\ \/ MoveTabToPane(t, p, q)
           \/ \E u \in Tabs, side \in Sides : DropTabOnTab(t, p, u, q, side)
        /\ splitLayout' = Shrink(splitLayout, p)

LayoutSplit ==
    \E zone \in Zones :
        LET side == IF zone \in {"left", "top"} THEN "left" ELSE "right"
        IN  \/ \E p, q \in PaneIds, t \in Tabs :
                 /\ SplitPaneWith(q, side, t, p)
                 /\ splitLayout' = CleanupTree(Shrink(
                        InsertAtLeaf(splitLayout, q, nextPaneId, zone), p))
            \/ /\ zone \in {"right", "bottom"}
               /\ SplitActivePane
               /\ splitLayout' = CleanupTree(
                      InsertAtLeaf(splitLayout, activePaneId, nextPaneId, zone))

LayoutReset == ResetEditorState /\ splitLayout' = Leaf(MainPane)

LayoutKept ==
    /\ \/ \E p \in PaneIds, t \in Tabs : \/ OpenTab(t, p)
                                         \/ SetActiveTab(p, t)
                                         \/ CloseOtherTabs(p, t)
                                         \/ CloseTabsToLeft(p, t)
                                         \/ CloseTabsToRight(p, t)
                                         \/ DropTabAtEnd(t, p)
       \/ \E p \in PaneIds, f \in Files, u \in Tabs, side \in Sides :
             DropFileOnTab(f, u, p, side)
       \/ \E p \in PaneIds : NavigateBack(p) \/ NavigateForward(p)
       \/ \E p \in PaneRefs : \/ SetActivePaneId(p)
                              \/ ToggleMaximizePane(p)
       \/ \E f \in Files : DeleteFile(f)
    /\ UNCHANGED splitLayout

LayoutNext ==
    LayoutClose \/ LayoutMove \/ LayoutSplit \/ LayoutReset \/ LayoutKept

LayoutSpec == LayoutInit /\ [][LayoutNext]_layoutVars

-----------------------------------------------------------------------------
\* The leaves of the tree, in the order they are shown, are the panes in the
\* order PaneBoard keeps: removing a leaf and splicing its parents away loses
\* no other leaf, and a split puts the new pane on the side it was dropped.
LeavesInOrder == CollectPaneIds(splitLayout) = order

\* After any sequence of splits and closes no split is left with one child or
\* with a child that splits the same way (both would show a wrong grid).
LayoutNormalForm == NormalForm(splitLayout)

\* The surgery of the tree keeps both its leaves and its form.
TreeSound == LeavesInOrder /\ LayoutNormalForm

=============================================================================
