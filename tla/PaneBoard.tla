------------------------------ MODULE PaneBoard ------------------------------
(***************************************************************************)
(* The editor area of workspace-store.ts: the panes, the order in which    *)
(* the split layout shows them, the pane with the focus and the maximized  *)
(* one.  The split tree is abstracted to the sequence of its leaves        *)
(* (collectPaneIds); module SplitLayout adds the tree.                     *)
(*                                                                         *)
(* Every action is a whole handler of the store, or of the component that  *)
(* calls several store functions in one event (the drop handlers of        *)
(* TabBar).  Contents of files are left out: a file is its tab.            *)
(***************************************************************************)
EXTENDS PaneOps

CONSTANTS
    KeymapTab,   \* "tab:keymap"
    MaxPaneId,   \* bound: pane ids ever handed out by puid()
    MaxHistory   \* bound: entries of one pane's history

ASSUME BoardAssumption == /\ KeymapTab \in Tabs
                          /\ MaxPaneId \in Nat \ {0}
                          /\ MaxHistory \in Nat \ {0}

VARIABLES
    panes,             \* pane id -> PaneState
    order,             \* leaves of the split layout, in reading order
    activePaneId,
    maximizedPaneId,   \* NoPane when no pane is maximized
    nextPaneId         \* the id puid() returns next; never reused

vars == <<panes, order, activePaneId, maximizedPaneId, nextPaneId>>

NoPane     == 0
MainPane   == 1
PaneIds    == DOMAIN panes
Files      == Tabs \ {KeymapTab}

\* Panes a click or a key can name: the maximized and the active id are used
\* without a check that the pane still exists.
PaneRefs   == PaneIds \cup ({activePaneId, maximizedPaneId} \ {NoPane})

HasTab(p, t) == t \in Range(panes[p].tabs)

\* Bound: showing t in p keeps the history within MaxHistory.
HistoryRoom(p, t) == \/ AtCursor(panes[p], t)
                     \/ Len(Visited(panes[p], t)) <= MaxHistory

-----------------------------------------------------------------------------
Init ==
    /\ panes = [p \in {MainPane} |-> EmptyPane]
    /\ order = <<MainPane>>
    /\ activePaneId = MainPane
    /\ maximizedPaneId = NoPane
    /\ nextPaneId = MainPane + 1

\* Variant: the layout keeps the leaf.
RemovePaneKeepingLeaf(p) ==
    /\ panes' = Restrict(panes, PaneIds \ {p})
    /\ UNCHANGED order
    /\ activePaneId' = order[1]

\* Variant: the focus stays on the pane that is gone.
RemovePaneKeepingFocus(p) ==
    /\ panes' = Restrict(panes, PaneIds \ {p})
    /\ order' = Without(order, p)
    /\ UNCHANGED activePaneId

\* Pane p leaves the layout; the focus falls back to the first leaf left.
RemovePane(p) ==
    /\ panes' = Restrict(panes, PaneIds \ {p})
    /\ order' = Without(order, p)
    /\ activePaneId' = IF activePaneId \in Range(order') THEN activePaneId
                       ELSE order'[1]

OpenTab(t, p) ==
    /\ HistoryRoom(p, t)
    /\ panes' = [panes EXCEPT ![p] = ShowTab(@, t)]
    /\ activePaneId' = p
    /\ UNCHANGED <<order, maximizedPaneId, nextPaneId>>

CloseTab(p, t) ==
    /\ HasTab(p, t)
    /\ IF Len(panes[p].tabs) = 1 /\ Len(order) > 1
       THEN RemovePane(p)
       ELSE /\ panes' = [panes EXCEPT ![p] = CloseIn(@, t)]
            /\ UNCHANGED <<order, activePaneId>>
    /\ UNCHANGED <<maximizedPaneId, nextPaneId>>

SetActiveTab(p, t) ==
    /\ HasTab(p, t)
    /\ HistoryRoom(p, t)
    /\ panes' = [panes EXCEPT ![p] = Show(@, @.tabs, t)]
    /\ activePaneId' = p
    /\ UNCHANGED <<order, maximizedPaneId, nextPaneId>>

SetActivePaneId(p) ==
    /\ activePaneId' = p
    /\ UNCHANGED <<panes, order, maximizedPaneId, nextPaneId>>

-----------------------------------------------------------------------------
(* Drag and drop *)

MovedPanes(t, from, to) ==
    [panes EXCEPT ![from] = CloseIn(@, t), ![to] = ShowTab(@, t)]

\* Variant: off by one, of two panes the emptied one is kept.
CloseIfEmptiedOfThree(from, result) ==
    IF result[from].tabs = <<>> /\ Len(order) > 2
    THEN /\ panes' = Restrict(result, PaneIds \ {from})
         /\ order' = Without(order, from)
    ELSE /\ panes' = result
         /\ UNCHANGED order

\* The source pane of a moved tab is closed when nothing is left in it.
CloseIfEmptied(from, result) ==
    IF result[from].tabs = <<>> /\ Len(order) > 1
    THEN /\ panes' = Restrict(result, PaneIds \ {from})
         /\ order' = Without(order, from)
    ELSE /\ panes' = result
         /\ UNCHANGED order

MoveTabToPane(t, from, to) ==
    /\ from # to
    /\ HasTab(from, t)
    /\ HistoryRoom(to, t)
    /\ CloseIfEmptied(from, MovedPanes(t, from, to))
    /\ activePaneId' = to
    /\ UNCHANGED <<maximizedPaneId, nextPaneId>>

\* Drop of tab t on one side of tab u: a reorder within a pane, a move and a
\* reorder between two.
DropTabOnTab(t, from, u, to, side) ==
    /\ HasTab(from, t)
    /\ HasTab(to, u)
    /\ IF from = to
       THEN /\ panes' = [panes EXCEPT ![to].tabs = PlaceBeside(@, t, u, side)]
            /\ UNCHANGED <<order, activePaneId>>
       ELSE /\ HistoryRoom(to, t)
            /\ CloseIfEmptied(from, [MovedPanes(t, from, to) EXCEPT
                                     ![to].tabs = PlaceBeside(@, t, u, side)])
            /\ activePaneId' = to
    /\ UNCHANGED <<maximizedPaneId, nextPaneId>>

\* Drop of tab t on the empty part of its own strip.
DropTabAtEnd(t, p) ==
    /\ HasTab(p, t)
    /\ panes' = [panes EXCEPT ![p].tabs = Append(Without(@, t), t)]
    /\ UNCHANGED <<order, activePaneId, maximizedPaneId, nextPaneId>>

\* Drop of file f from the project tree on one side of tab u.
DropFileOnTab(f, u, p, side) ==
    /\ HasTab(p, u)
    /\ HistoryRoom(p, f)
    /\ LET shown == ShowTab(panes[p], f)
       IN  panes' = [panes EXCEPT ![p] =
                        [shown EXCEPT !.tabs = PlaceBeside(@, f, u, side)]]
    /\ activePaneId' = p
    /\ UNCHANGED <<order, maximizedPaneId, nextPaneId>>

-----------------------------------------------------------------------------
(* Splitting and closing panes *)

InsertBeside(p, new, side) ==
    InsertAt(order, IndexOf(order, p) + (IF side = "left" THEN 0 ELSE 1), new)

\* Tab t is dropped on an edge of pane target and gets a pane of its own
\* there: moved out of another pane, copied within the same one.
SplitPaneWith(target, side, t, from) ==
    /\ HasTab(from, t)
    /\ nextPaneId <= MaxPaneId
    /\ LET grown == InsertBeside(target, nextPaneId, side)
           left  == IF from = target THEN panes
                    ELSE [panes EXCEPT ![from] = CloseIn(@, t)]
           gone  == {p \in {from} : left[p].tabs = <<>>}
       IN  /\ panes' = [p \in (PaneIds \cup {nextPaneId}) \ gone |->
                            IF p = nextPaneId THEN PaneOf(t) ELSE left[p]]
           /\ order' = IF gone = {} THEN grown ELSE Without(grown, from)
    /\ activePaneId' = nextPaneId
    /\ nextPaneId' = nextPaneId + 1
    /\ UNCHANGED maximizedPaneId

\* Variant: the id counter is not advanced.
SplitActivePaneSameId ==
    /\ activePaneId \in PaneIds
    /\ panes[activePaneId].activeTab # NoTab
    /\ nextPaneId <= MaxPaneId
    /\ panes' = [p \in PaneIds \cup {nextPaneId} |->
                    IF p = nextPaneId THEN PaneOf(panes[activePaneId].activeTab)
                    ELSE panes[p]]
    /\ order' = InsertBeside(activePaneId, nextPaneId, "right")
    /\ activePaneId' = nextPaneId
    /\ UNCHANGED <<maximizedPaneId, nextPaneId>>

SplitActivePane ==
    /\ activePaneId \in PaneIds
    /\ panes[activePaneId].activeTab # NoTab
    /\ nextPaneId <= MaxPaneId
    /\ panes' = [p \in PaneIds \cup {nextPaneId} |->
                    IF p = nextPaneId THEN PaneOf(panes[activePaneId].activeTab)
                    ELSE panes[p]]
    /\ order' = InsertBeside(activePaneId, nextPaneId, "right")
    /\ activePaneId' = nextPaneId
    /\ nextPaneId' = nextPaneId + 1
    /\ UNCHANGED maximizedPaneId

\* The key closes the active pane, which may be one that is gone.
ClosePane ==
    /\ Len(order) > 1
    /\ RemovePane(activePaneId)
    /\ maximizedPaneId' = IF maximizedPaneId = activePaneId THEN NoPane
                          ELSE maximizedPaneId
    /\ UNCHANGED nextPaneId

ToggleMaximizePane(p) ==
    /\ maximizedPaneId' = IF maximizedPaneId = p THEN NoPane ELSE p
    /\ UNCHANGED <<panes, order, activePaneId, nextPaneId>>

-----------------------------------------------------------------------------
(* Closing several tabs *)

CloseOtherTabs(p, t) ==
    /\ HasTab(p, t)
    /\ panes' = [panes EXCEPT ![p] = PaneOf(t)]
    /\ UNCHANGED <<order, activePaneId, maximizedPaneId, nextPaneId>>

CloseTabsToLeft(p, t) ==
    /\ HasTab(p, t)
    /\ panes' = [panes EXCEPT ![p] =
                    KeepPart(@, SubSeq(@.tabs, IndexOf(@.tabs, t), Len(@.tabs)), t)]
    /\ UNCHANGED <<order, activePaneId, maximizedPaneId, nextPaneId>>

CloseTabsToRight(p, t) ==
    /\ HasTab(p, t)
    /\ panes' = [panes EXCEPT ![p] =
                    KeepPart(@, SubSeq(@.tabs, 1, IndexOf(@.tabs, t)), t)]
    /\ UNCHANGED <<order, activePaneId, maximizedPaneId, nextPaneId>>

CloseAllTabs(p) ==
    /\ IF Len(order) > 1
       THEN RemovePane(p)
       ELSE /\ panes' = [panes EXCEPT ![p] = EmptyPane]
            /\ UNCHANGED <<order, activePaneId>>
    /\ UNCHANGED <<maximizedPaneId, nextPaneId>>

\* Closes the keymap tab of the oldest pane that has one, else opens it.
ToggleKeymapEditor ==
    LET holders == {p \in PaneIds : HasTab(p, KeymapTab)}
    IN  IF holders # {}
        THEN \E p \in holders : /\ \A q \in holders : p <= q
                                /\ CloseTab(p, KeymapTab)
        ELSE /\ activePaneId \in PaneIds
             /\ OpenTab(KeymapTab, activePaneId)

-----------------------------------------------------------------------------
(* History, deletion, project switch *)

NavigateBack(p) ==
    LET open == OpenEntries(panes[p], 0, panes[p].historyIndex - 1)
    IN  /\ \E i \in open : /\ \A j \in open : j <= i
                           /\ panes' = [panes EXCEPT ![p] = GoTo(@, i)]
        /\ UNCHANGED <<order, activePaneId, maximizedPaneId, nextPaneId>>

NavigateForward(p) ==
    LET open == OpenEntries(panes[p], panes[p].historyIndex + 1,
                            Len(panes[p].tabHistory) - 1)
    IN  /\ \E i \in open : /\ \A j \in open : i <= j
                           /\ panes' = [panes EXCEPT ![p] = GoTo(@, i)]
        /\ UNCHANGED <<order, activePaneId, maximizedPaneId, nextPaneId>>

\* deleteNode of a file; a folder is the files in it, one after the other.
DeleteFile(f) ==
    /\ panes' = [p \in PaneIds |-> ForgetIn(panes[p], f)]
    /\ UNCHANGED <<order, activePaneId, maximizedPaneId, nextPaneId>>

\* resetEditorState, called when another project is opened.
ResetEditorState ==
    /\ panes' = [p \in {MainPane} |-> EmptyPane]
    /\ order' = <<MainPane>>
    /\ activePaneId' = MainPane
    /\ maximizedPaneId' = NoPane
    /\ UNCHANGED nextPaneId

-----------------------------------------------------------------------------
TabStep ==
    \E p \in PaneIds, t \in Tabs :
        \/ OpenTab(t, p)
        \/ CloseTab(p, t)
        \/ SetActiveTab(p, t)
        \/ DropTabAtEnd(t, p)
        \/ CloseOtherTabs(p, t)
        \/ CloseTabsToLeft(p, t)
        \/ CloseTabsToRight(p, t)

DragStep ==
    \E p, q \in PaneIds, t \in Tabs :
        \/ MoveTabToPane(t, p, q)
        \/ \E side \in Sides :
              \/ SplitPaneWith(q, side, t, p)
              \/ \E u \in Tabs : \/ DropTabOnTab(t, p, u, q, side)
                                 \/ /\ t \in Files
                                    /\ p = q
                                    /\ DropFileOnTab(t, u, q, side)

PaneStep ==
    \/ SplitActivePane
    \/ ClosePane
    \/ ToggleKeymapEditor
    \/ ResetEditorState
    \/ \E p \in PaneIds : \/ CloseAllTabs(p)
                          \/ NavigateBack(p)
                          \/ NavigateForward(p)
    \/ \E p \in PaneRefs : \/ SetActivePaneId(p)
                           \/ ToggleMaximizePane(p)
    \/ \E f \in Files : DeleteFile(f)

Next == TabStep \/ DragStep \/ PaneStep

Spec == Init /\ [][Next]_vars

-----------------------------------------------------------------------------
(* Properties *)

\* State is well-formed: ids stay below the next one, fields in their ranges.
TypeOK ==
    /\ nextPaneId \in 2..(MaxPaneId + 1)
    /\ PaneIds \subseteq 1..(nextPaneId - 1)
    /\ panes \in [PaneIds -> PaneState]
    /\ order \in Seq(PaneIds)
    /\ activePaneId \in 1..(nextPaneId - 1)
    /\ maximizedPaneId \in 0..(nextPaneId - 1)

\* The split layout shows every pane exactly once and nothing else, whatever
\* sequence of moves, splits and closes emptied or created panes.
LayoutMatchesPanes == IsInjective(order) /\ Range(order) = PaneIds

\* A pane shows one of its tabs, and shows nothing only when it has none
\* (closing, moving, deleting and jumping through history all re-pick it).
ActiveTabShown ==
    \A p \in PaneIds :
        IF panes[p].tabs = <<>> THEN panes[p].activeTab = NoTab
        ELSE panes[p].activeTab \in Range(panes[p].tabs)

\* A strip holds a tab once, whichever pane it was dropped from.
NoDuplicateTabs == \A p \in PaneIds : IsInjective(panes[p].tabs)

\* Both: what the tab bar draws is a set of tabs, one of them lit.
StripsSound == ActiveTabShown /\ NoDuplicateTabs

\* The cursor stands on an entry of the history, or on 0 while it is empty,
\* and no entry repeats the one before it (pushHistory skips a revisit).
HistoryConsistent ==
    \A p \in PaneIds :
        LET h == panes[p].tabHistory
        IN  /\ \/ panes[p].historyIndex < Len(h)
               \/ h = <<>> /\ panes[p].historyIndex = 0
            /\ \A i \in 1..(Len(h) - 1) : h[i] # h[i + 1]

OpenTabs == UNION {Range(panes[p].tabs) : p \in PaneIds}

\* The focus goes to a pane that does not exist only by a click on the
\* maximized pane after that pane was closed (setActivePaneId checks nothing).
FocusLostOnlyToGhost ==
    [][(activePaneId \in PaneIds /\ activePaneId' \notin DOMAIN panes')
          => activePaneId' = maximizedPaneId]_vars

\* A move, drop or split loses a tab only when the history cursor of some
\* pane that does not hold the tab stands on it (pushHistory's early return).
OnlyStaleCursorLosesTabs ==
    [][\/ \A t \in OpenTabs \ OpenTabs' :
             \E p \in PaneIds : AtCursor(panes[p], t) /\ ~HasTab(p, t)
       \/ ~(DragStep \/ SplitActivePane)]_vars

\* Moving or closing the last tab of a pane beside others closes the pane;
\* only the deletion of a file leaves an empty one (deleteNode keeps it).
OnlyDeletionEmptiesAPane ==
    [][(\E p \in PaneIds : /\ p \in DOMAIN panes'
                           /\ panes[p].tabs # <<>>
                           /\ panes'[p].tabs = <<>>
                           /\ Len(order') > 1)
          => \E f \in Files : DeleteFile(f)]_vars

\* Wherever a tab of a pane is dropped beside another, it lands next to it
\* on that side, from either direction (the index arithmetic of handleDrop).
DropLandsBeside ==
    \A p \in PaneIds :
        \A t, u \in Range(panes[p].tabs), side \in Sides :
            LET strip == PlaceBeside(panes[p].tabs, t, u, side)
            IN  t # u => IndexOf(strip, t) = IndexOf(strip, u)
                                             + (IF side = "left" THEN -1 ELSE 1)

\* A file opened in a pane, or dropped on it from another one, is the tab the
\* pane shows afterwards.
ArrivingTabIsShown ==
    [][\A p \in PaneIds, t \in Tabs :
          (OpenTab(t, p) \/ \E q \in PaneIds : MoveTabToPane(t, q, p))
              => panes'[p].activeTab = t]_vars

\* The maximized pane that has the focus and says "Open a file to start
\* editing" is one a file can be opened in.
FocusedMaximizedPaneExists ==
    activePaneId = maximizedPaneId => activePaneId \in PaneIds

=============================================================================
