------------------------------- MODULE PaneOps -------------------------------
(***************************************************************************)
(* Operations on one editor pane (PaneState of workspace-store.ts): an      *)
(* ordered strip of tabs, the tab it shows, and the back/forward history   *)
(* with its cursor.  Pure operators, used by every module about panes.     *)
(*                                                                         *)
(* The cursor historyIndex counts from 0 as in the source, sequences from  *)
(* 1: the entry under the cursor is tabHistory[historyIndex + 1].          *)
(***************************************************************************)
EXTENDS Integers, SequencesExt

CONSTANTS
    Tabs,       \* tab ids: file paths, and the special "tab:..." ids
    NoTab       \* the empty string: a pane that shows nothing

ASSUME NoTabAssumption == NoTab \notin Tabs

Sides == {"left", "right"}

PaneState == [tabs : Seq(Tabs), activeTab : Tabs \cup {NoTab},
              tabHistory : Seq(Tabs), historyIndex : Nat]

EmptyPane == [tabs |-> <<>>, activeTab |-> NoTab,
              tabHistory |-> <<>>, historyIndex |-> 0]

\* A pane that was opened for tab t alone.
PaneOf(t) == [tabs |-> <<t>>, activeTab |-> t,
              tabHistory |-> <<t>>, historyIndex |-> 0]

-----------------------------------------------------------------------------
IndexOf(s, x) == CHOOSE i \in 1..Len(s) : s[i] = x

\* s without x; a strip holds a tab at most once.
Without(s, x) == IF x \in Range(s) THEN RemoveAt(s, IndexOf(s, x)) ELSE s

-----------------------------------------------------------------------------
(* History *)

AtCursor(pane, t) ==
    /\ pane.historyIndex < Len(pane.tabHistory)
    /\ pane.tabHistory[pane.historyIndex + 1] = t

\* Variant: the entries ahead of the cursor are kept.
VisitedKeepingAhead(pane, t) == Append(pane.tabHistory, t)

\* The history after visiting t: what lay ahead of the cursor is dropped.
Visited(pane, t) ==
    LET upTo == IF pane.historyIndex < Len(pane.tabHistory)
                THEN pane.historyIndex + 1 ELSE Len(pane.tabHistory)
    IN  Append(SubSeq(pane.tabHistory, 1, upTo), t)

\* {...pane, tabs: strip, activeTab: t, ...pushHistory(pane, t)}.  When t is
\* under the cursor already, pushHistory returns the pane itself, so the last
\* spread puts back the tabs and the activeTab the pane had.
Show(pane, strip, t) ==
    IF AtCursor(pane, t)
    THEN pane
    ELSE [tabs |-> strip, activeTab |-> t, tabHistory |-> Visited(pane, t),
          historyIndex |-> Len(Visited(pane, t)) - 1]

\* Show with the tab added at the end of the strip unless it is there.
ShowTab(pane, t) ==
    Show(pane, IF t \in Range(pane.tabs) THEN pane.tabs
                                         ELSE Append(pane.tabs, t), t)

\* Positions (from 0) of history entries that are still open.
OpenEntries(pane, from, to) ==
    {i \in from..to : pane.tabHistory[i + 1] \in Range(pane.tabs)}

GoTo(pane, i) == [pane EXCEPT !.activeTab = pane.tabHistory[i + 1],
                              !.historyIndex = i]

-----------------------------------------------------------------------------
(* Removing and placing tabs *)

\* Variant: the tab shown is not picked again.
CloseInKeepingActive(pane, t) ==
    LET strip == Without(pane.tabs, t)
    IN  [pane EXCEPT !.tabs = strip,
                     !.activeTab = IF strip = <<>> THEN NoTab ELSE @]

\* Variant: splice(idx) without a count drops every tab from t on.
CloseInCuttingOff(pane, t) ==
    LET strip == SubSeq(pane.tabs, 1, IndexOf(pane.tabs, t) - 1)
    IN  [pane EXCEPT !.tabs = strip,
                     !.activeTab = IF strip = <<>> THEN NoTab ELSE strip[Len(strip)]]

\* The pane without tab t: the tab that takes its place is shown next.
CloseIn(pane, t) ==
    LET strip == Without(pane.tabs, t)
        i     == IndexOf(pane.tabs, t)
    IN  [pane EXCEPT !.tabs = strip,
                     !.activeTab = IF strip = <<>> THEN NoTab
                                   ELSE IF @ # t THEN @
                                   ELSE strip[IF i < Len(strip) THEN i ELSE Len(strip)]]

\* The pane after file f was deleted: the first tab is shown next.
ForgetIn(pane, f) ==
    LET strip == Without(pane.tabs, f)
    IN  [pane EXCEPT !.tabs = strip,
                     !.activeTab = IF @ # f THEN @
                                   ELSE IF strip = <<>> THEN NoTab ELSE strip[1]]

\* The pane reduced to a part of its strip that holds t.
KeepPart(pane, strip, t) ==
    [pane EXCEPT !.tabs = strip,
                 !.activeTab = IF @ \in Range(strip) THEN @ ELSE t]

Reorder(strip, from, to) == InsertAt(RemoveAt(strip, from), to, strip[from])

\* Variant: the drop index is not adjusted for the tab's own old place.
PlaceBesideUnadjusted(strip, t, u, side) ==
    IF t \notin Range(strip) THEN strip
    ELSE LET target == IndexOf(strip, u) + (IF side = "left" THEN 0 ELSE 1)
         IN  Reorder(strip, IndexOf(strip, t),
                     IF target > Len(strip) THEN Len(strip) ELSE target)

\* The strip after t was dropped on the given side of tab u: the drop index
\* moves one down when t came from before it.
PlaceBeside(strip, t, u, side) ==
    IF t \notin Range(strip) THEN strip
    ELSE LET from   == IndexOf(strip, t)
             target == IndexOf(strip, u) + (IF side = "left" THEN 0 ELSE 1)
         IN  Reorder(strip, from, IF from < target THEN target - 1 ELSE target)

=============================================================================
