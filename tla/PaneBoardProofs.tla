--------------------------- MODULE PaneBoardProofs ---------------------------
(***************************************************************************)
(* Proofs about PaneBoard: after any sequence of opens, closes, moves,     *)
(* drops, splits and jumps through history the layout shows exactly the    *)
(* panes there are, and every pane is sound, for any set of tabs and any   *)
(* number of panes; a drop lands beside its target, focus is lost only to  *)
(* a pane that is gone, panes are emptied only by deletion, and the open   *)
(* tabs are lost only to a cursor that is out of date.                     *)
(*                                                                         *)
(* The last part is about SplitLayout: whatever happens on the board, the  *)
(* split tree has the panes as its leaves, in order and in normal form.    *)
(***************************************************************************)
EXTENDS SplitLayout, SequenceTheorems, FiniteSetTheorems, WellFoundedInduction, TLAPS

(* Sequences *)

LEMMA IndexOfType ==
    ASSUME NEW S, NEW s \in Seq(S), NEW x \in Range(s)
    PROVE  IndexOf(s, x) \in 1..Len(s) /\ s[IndexOf(s, x)] = x
<1>1. \E i \in 1..Len(s) : s[i] = x
  BY DEF Range
<1> QED
  BY <1>1 DEF IndexOf

LEMMA SeqByRange ==
    ASSUME NEW S, NEW s \in Seq(S), NEW T, Range(s) \subseteq T
    PROVE  s \in Seq(T)
BY SeqOfRange, SeqMonotonic

LEMMA EmptyRange ==
    ASSUME NEW S, NEW s \in Seq(S)
    PROVE  Range(s) = {} <=> s = <<>>
BY DEF Range

LEMMA RemoveAtFacts ==
    ASSUME NEW S, NEW s \in Seq(S), NEW i \in 1..Len(s)
    PROVE  /\ RemoveAt(s, i) \in Seq(S)
           /\ Len(RemoveAt(s, i)) = Len(s) - 1
           /\ \A k \in 1..(Len(s) - 1) :
                 RemoveAt(s, i)[k] = IF k < i THEN s[k] ELSE s[k + 1]
<1> DEFINE front == SubSeq(s, 1, i - 1)
           back  == SubSeq(s, i + 1, Len(s))
           r     == front \o back
<1>1. /\ front \in Seq(S) /\ Len(front) = i - 1
      /\ \A k \in 1..(i - 1) : front[k] = s[k]
  OBVIOUS
<1>2. /\ back \in Seq(S) /\ Len(back) = Len(s) - i
      /\ \A k \in 1..(Len(s) - i) : back[k] = s[k + i]
  OBVIOUS
<1> HIDE DEF front, back
<1>3. r \in Seq(S) /\ Len(r) = Len(s) - 1
  BY <1>1, <1>2
<1>4. \A k \in 1..(Len(s) - 1) : r[k] = IF k < i THEN s[k] ELSE s[k + 1]
  BY <1>1, <1>2
<1>5. r = RemoveAt(s, i)
  BY DEF r, front, back, RemoveAt
<1> HIDE DEF r
<1> QED
  BY <1>3, <1>4, <1>5

LEMMA WithoutFacts ==
    ASSUME NEW S, NEW s \in Seq(S), NEW x
    PROVE  /\ Without(s, x) \in Seq(S)
           /\ Len(Without(s, x)) >= Len(s) - 1
           /\ Range(Without(s, x)) \subseteq Range(s)
           /\ IsInjective(s) => /\ IsInjective(Without(s, x))
                                /\ Range(Without(s, x)) = Range(s) \ {x}
<1>1. CASE x \notin Range(s)
  BY <1>1 DEF Without
<1>2. CASE x \in Range(s)
  <2> DEFINE i == IndexOf(s, x)
             r == RemoveAt(s, i)
  <2>1. i \in 1..Len(s) /\ s[i] = x /\ i \in Nat
    BY <1>2, IndexOfType
  <2> HIDE DEF i
  <2>2. /\ r \in Seq(S) /\ Len(r) = Len(s) - 1
        /\ \A k \in 1..(Len(s) - 1) : r[k] = IF k < i THEN s[k] ELSE s[k + 1]
    BY <2>1, RemoveAtFacts
  <2> HIDE DEF r
  <2>3. DOMAIN r = 1..(Len(s) - 1) /\ DOMAIN s = 1..Len(s) /\ Len(s) \in Nat
    BY <2>2
  <2>4. Range(r) \subseteq Range(s)
    <3>1. ASSUME NEW k \in DOMAIN r PROVE r[k] \in Range(s)
      <4>1. k \in DOMAIN s /\ k + 1 \in DOMAIN s /\ r[k] \in {s[k], s[k + 1]}
        BY <2>1, <2>2, <2>3
      <4> QED
        BY <4>1 DEF Range
    <3> QED
      BY <3>1 DEF Range
  <2>5. ASSUME IsInjective(s) PROVE IsInjective(r)
    <3>1. ASSUME NEW a \in DOMAIN r, NEW b \in DOMAIN r, r[a] = r[b] PROVE a = b
      <4> DEFINE old(k) == IF k < i THEN k ELSE k + 1
      <4>1. /\ old(a) \in DOMAIN s /\ r[a] = s[old(a)]
            /\ old(b) \in DOMAIN s /\ r[b] = s[old(b)]
        BY <2>1, <2>2, <2>3
      <4>2. old(a) = old(b)
        BY <2>5, <3>1, <4>1 DEF IsInjective
      <4> QED
        BY <2>1, <2>3, <4>2
    <3> QED
      BY <3>1 DEF IsInjective
  <2>6. ASSUME IsInjective(s) PROVE Range(r) = Range(s) \ {x}
    <3>1. ASSUME NEW k \in DOMAIN r PROVE r[k] # x
      <4>1. PICK j \in DOMAIN s : j # i /\ r[k] = s[j]
        BY <2>1, <2>2, <2>3
      <4>2. i \in DOMAIN s
        BY <2>1, <2>3
      <4> QED
        BY <2>1, <2>6, <4>1, <4>2 DEF IsInjective
    <3>2. ASSUME NEW k \in DOMAIN s, s[k] # x PROVE s[k] \in Range(r)
      <4>1. CASE k < i
        <5>1. k \in DOMAIN r /\ r[k] = s[k]
          BY <2>1, <2>2, <2>3, <4>1
        <5> QED
          BY <5>1 DEF Range
      <4>2. CASE k > i
        <5>1. k - 1 \in DOMAIN r /\ r[k - 1] = s[k]
          BY <2>1, <2>2, <2>3, <4>2
        <5> QED
          BY <5>1 DEF Range
      <4> QED
        BY <2>1, <2>3, <3>2, <4>1, <4>2
    <3> QED
      BY <2>4, <3>1, <3>2 DEF Range
  <2>7. Without(s, x) = r
    BY <1>2 DEF Without, r, i
  <2> QED
    BY <2>2, <2>3, <2>4, <2>5, <2>6, <2>7
<1> QED
  BY <1>1, <1>2

LEMMA InsertAtFacts ==
    ASSUME NEW S, NEW s \in Seq(S), NEW i \in 1..(Len(s) + 1), NEW x \in S
    PROVE  /\ InsertAt(s, i, x) \in Seq(S)
           /\ Len(InsertAt(s, i, x)) = Len(s) + 1
           /\ Range(InsertAt(s, i, x)) = Range(s) \cup {x}
           /\ IsInjective(s) /\ x \notin Range(s) => IsInjective(InsertAt(s, i, x))
<1> DEFINE front == SubSeq(s, 1, i - 1)
           back  == SubSeq(s, i, Len(s))
           r     == front \o <<x>> \o back
<1>1. /\ front \in Seq(S) /\ Len(front) = i - 1
      /\ \A k \in 1..(i - 1) : front[k] = s[k]
  OBVIOUS
<1>2. /\ back \in Seq(S) /\ Len(back) = Len(s) - i + 1
      /\ \A k \in 1..(Len(s) - i + 1) : back[k] = s[k + i - 1]
  OBVIOUS
<1> HIDE DEF front, back
<1>3. r \in Seq(S) /\ Len(r) = Len(s) + 1
  BY <1>1, <1>2
<1>4. \A k \in 1..(Len(s) + 1) :
         r[k] = IF k < i THEN s[k] ELSE IF k = i THEN x ELSE s[k - 1]
  BY <1>1, <1>2
<1>5. r = InsertAt(s, i, x)
  BY DEF r, front, back, InsertAt
<1> HIDE DEF r
<1>6. DOMAIN r = 1..(Len(s) + 1) /\ DOMAIN s = 1..Len(s) /\ Len(s) \in Nat
  BY <1>3
<1>7. Range(r) = Range(s) \cup {x}
  <2>1. x \in Range(r)
    BY <1>4, <1>6 DEF Range
  <2>2. ASSUME NEW k \in DOMAIN s PROVE s[k] \in Range(r)
    <3>1. CASE k < i
      <4>1. k \in DOMAIN r /\ r[k] = s[k]
        BY <1>4, <1>6, <3>1
      <4> QED
        BY <4>1 DEF Range
    <3>2. CASE k >= i
      <4>1. k + 1 \in DOMAIN r /\ r[k + 1] = s[k]
        BY <1>4, <1>6, <3>2
      <4> QED
        BY <4>1 DEF Range
    <3> QED
      BY <1>6, <3>1, <3>2
  <2>3. ASSUME NEW k \in DOMAIN r PROVE r[k] \in Range(s) \cup {x}
    BY <1>4, <1>6 DEF Range
  <2> QED
    BY <2>1, <2>2, <2>3 DEF Range
<1>8. ASSUME IsInjective(s), x \notin Range(s) PROVE IsInjective(r)
  <2>1. \A k \in DOMAIN s : s[k] # x
    BY <1>8 DEF Range
  <2>2. ASSUME NEW a \in DOMAIN r, NEW b \in DOMAIN r, r[a] = r[b] PROVE a = b
    <3> DEFINE old(k) == IF k < i THEN k ELSE k - 1
    <3>1. /\ a = i \/ (old(a) \in DOMAIN s /\ r[a] = s[old(a)])
          /\ b = i \/ (old(b) \in DOMAIN s /\ r[b] = s[old(b)])
          /\ r[i] = x
      BY <1>4, <1>6
    <3>2. a = i <=> b = i
      BY <2>1, <2>2, <3>1
    <3>3. a # i => old(a) = old(b)
      BY <1>8, <2>2, <3>1, <3>2 DEF IsInjective
    <3> QED
      BY <1>6, <3>2, <3>3
  <2> QED
    BY <2>2 DEF IsInjective
<1> QED
  BY <1>3, <1>5, <1>7, <1>8

LEMMA AppendFacts ==
    ASSUME NEW S, NEW s \in Seq(S), NEW x \in S
    PROVE  /\ Append(s, x) \in Seq(S) /\ Len(Append(s, x)) = Len(s) + 1
           /\ Range(Append(s, x)) = Range(s) \cup {x}
           /\ IsInjective(s) /\ x \notin Range(s) => IsInjective(Append(s, x))
<1> DEFINE r == Append(s, x)
<1>1. /\ r \in Seq(S) /\ Len(r) = Len(s) + 1 /\ r[Len(s) + 1] = x
      /\ \A k \in 1..Len(s) : r[k] = s[k]
  OBVIOUS
<1> HIDE DEF r
<1>2. DOMAIN r = 1..(Len(s) + 1) /\ DOMAIN s = 1..Len(s) /\ Len(s) \in Nat
  BY <1>1
<1>3. Range(r) = Range(s) \cup {x}
  BY <1>1, <1>2 DEF Range
<1>4. ASSUME IsInjective(s), x \notin Range(s) PROVE IsInjective(r)
  <2>1. \A k \in DOMAIN s : s[k] # x
    BY <1>4 DEF Range
  <2> QED
    BY <1>1, <1>2, <1>4, <2>1 DEF IsInjective
<1> QED
  BY <1>1, <1>3, <1>4 DEF r

LEMMA SubSeqFacts ==
    ASSUME NEW S, NEW s \in Seq(S), NEW m \in 1..Len(s), NEW n \in m..Len(s)
    PROVE  /\ SubSeq(s, m, n) \in Seq(S) /\ Len(SubSeq(s, m, n)) = n - m + 1
           /\ \A k \in 1..(n - m + 1) : SubSeq(s, m, n)[k] = s[k + m - 1]
           /\ s[m] \in Range(SubSeq(s, m, n)) /\ s[n] \in Range(SubSeq(s, m, n))
           /\ IsInjective(s) => IsInjective(SubSeq(s, m, n))
<1> DEFINE r == SubSeq(s, m, n)
<1>1. /\ r \in Seq(S) /\ Len(r) = n - m + 1
      /\ \A k \in 1..(n - m + 1) : r[k] = s[k + m - 1]
  OBVIOUS
<1> HIDE DEF r
<1>2. /\ DOMAIN r = 1..(n - m + 1) /\ DOMAIN s = 1..Len(s) /\ Len(s) \in Nat
      /\ m \in Nat /\ n \in Nat
  BY <1>1
<1>3. 1 \in DOMAIN r /\ r[1] = s[m] /\ n - m + 1 \in DOMAIN r /\ r[n - m + 1] = s[n]
  BY <1>1, <1>2
<1>4. s[m] \in Range(r) /\ s[n] \in Range(r)
  BY <1>3 DEF Range
<1>5. ASSUME IsInjective(s) PROVE IsInjective(r)
  <2>1. ASSUME NEW a \in DOMAIN r, NEW b \in DOMAIN r, r[a] = r[b] PROVE a = b
    <3>1. PICK c \in DOMAIN s : c = a + m - 1 /\ r[a] = s[c]
      BY <1>1, <1>2
    <3>2. PICK d \in DOMAIN s : d = b + m - 1 /\ r[b] = s[d]
      BY <1>1, <1>2
    <3>3. c = d
      BY <1>5, <2>1, <3>1, <3>2 DEF IsInjective
    <3> QED
      BY <1>2, <3>1, <3>2, <3>3
  <2> QED
    BY <2>1 DEF IsInjective
<1> QED
  BY <1>1, <1>4, <1>5 DEF r

-----------------------------------------------------------------------------
(* One pane *)

\* The history is in Seq(Tabs), the cursor on it, and nothing repeats.
SoundHistory(pane) ==
    LET h == pane.tabHistory
    IN  /\ \/ pane.historyIndex < Len(h)
           \/ h = <<>> /\ pane.historyIndex = 0
        /\ \A i \in 1..(Len(h) - 1) : h[i] # h[i + 1]

ShowsItsTab(pane) == IF pane.tabs = <<>> THEN pane.activeTab = NoTab
                     ELSE pane.activeTab \in Range(pane.tabs)

GoodPane(pane) == /\ pane \in PaneState
                  /\ IsInjective(pane.tabs) /\ ShowsItsTab(pane)
                  /\ SoundHistory(pane)

LEMMA PaneFields ==
    ASSUME NEW pane \in PaneState
    PROVE  /\ pane.tabs \in Seq(Tabs) /\ pane.tabHistory \in Seq(Tabs)
           /\ pane.activeTab \in Tabs \cup {NoTab} /\ pane.historyIndex \in Nat
BY DEF PaneState

LEMMA EmptyPaneGood == GoodPane(EmptyPane)
<1>1. <<>> \in Seq(Tabs) /\ Len(<<>>) = 0
  OBVIOUS
<1>2. IsInjective(<<>>)
  BY DEF IsInjective
<1> QED
  BY <1>1, <1>2 DEF GoodPane, EmptyPane, PaneState, ShowsItsTab, SoundHistory

LEMMA PaneOfGood == ASSUME NEW t \in Tabs PROVE GoodPane(PaneOf(t))
<1>1. <<t>> \in Seq(Tabs) /\ Len(<<t>>) = 1 /\ <<t>> # <<>> /\ DOMAIN <<t>> = {1}
  OBVIOUS
<1>2. IsInjective(<<t>>) /\ t \in Range(<<t>>)
  BY <1>1 DEF IsInjective, Range
<1> QED
  BY <1>1, <1>2 DEF GoodPane, PaneOf, PaneState, ShowsItsTab, SoundHistory

LEMMA VisitedFacts ==
    ASSUME NEW pane, GoodPane(pane), NEW t \in Tabs, ~AtCursor(pane, t)
    PROVE  /\ Visited(pane, t) \in Seq(Tabs) /\ Len(Visited(pane, t)) \in Nat \ {0}
           /\ \A i \in 1..(Len(Visited(pane, t)) - 1) :
                 Visited(pane, t)[i] # Visited(pane, t)[i + 1]
<1> DEFINE h    == pane.tabHistory
           c    == pane.historyIndex
           upTo == IF c < Len(h) THEN c + 1 ELSE Len(h)
           kept == SubSeq(h, 1, upTo)
<1>1. h \in Seq(Tabs) /\ c \in Nat
  BY PaneFields DEF GoodPane
<1>2. /\ c < Len(h) \/ (h = <<>> /\ c = 0)
      /\ \A i \in 1..(Len(h) - 1) : h[i] # h[i + 1]
  BY DEF GoodPane, SoundHistory
<1>3. c < Len(h) => h[c + 1] # t
  BY DEF AtCursor
<1> HIDE DEF h, c
<1>4. upTo \in 0..Len(h) /\ Len(h) \in Nat
  BY <1>1
<1>5. /\ kept \in Seq(Tabs) /\ Len(kept) = upTo
      /\ \A i \in 1..upTo : kept[i] = h[i]
  BY <1>1, <1>4
<1>6. upTo > 0 => h[upTo] # t
  BY <1>1, <1>2, <1>3, <1>4
<1>7. Visited(pane, t) = Append(kept, t)
  BY DEF Visited, h, c
<1> HIDE DEF upTo, kept
<1>8. /\ Append(kept, t) \in Seq(Tabs) /\ Len(Append(kept, t)) = upTo + 1
      /\ Append(kept, t)[upTo + 1] = t
      /\ \A i \in 1..upTo : Append(kept, t)[i] = h[i]
  BY <1>5
<1>9. ASSUME NEW i \in 1..upTo PROVE Append(kept, t)[i] # Append(kept, t)[i + 1]
  <2>1. CASE i = upTo
    BY <1>4, <1>6, <1>8, <2>1
  <2>2. CASE i < upTo
    <3>1. i + 1 \in 1..upTo /\ i \in 1..(Len(h) - 1)
      BY <1>4, <2>2
    <3> QED
      BY <1>2, <1>8, <3>1
  <2>3. i = upTo \/ i < upTo
    BY <1>4
  <2> QED
    BY <2>1, <2>2, <2>3
<1> QED
  BY <1>4, <1>7, <1>8, <1>9

LEMMA ShowGood ==
    ASSUME NEW pane, GoodPane(pane), NEW strip \in Seq(Tabs), IsInjective(strip),
           NEW t \in Range(strip)
    PROVE  GoodPane(Show(pane, strip, t))
<1>1. t \in Tabs /\ strip # <<>>
  BY RangeOfSeq, EmptyRange
<1>2. CASE AtCursor(pane, t)
  BY <1>2 DEF Show
<1>3. CASE ~AtCursor(pane, t)
  <2> DEFINE v    == Visited(pane, t)
             show == [tabs |-> strip, activeTab |-> t, tabHistory |-> v,
                      historyIndex |-> Len(v) - 1]
  <2>1. /\ v \in Seq(Tabs) /\ Len(v) \in Nat \ {0}
        /\ \A i \in 1..(Len(v) - 1) : v[i] # v[i + 1]
    BY <1>1, <1>3, VisitedFacts
  <2> HIDE DEF v
  <2>2. show \in PaneState
    BY <1>1, <2>1 DEF PaneState
  <2>3. SoundHistory(show)
    BY <2>1 DEF SoundHistory
  <2>4. ShowsItsTab(show)
    BY <1>1 DEF ShowsItsTab
  <2>5. Show(pane, strip, t) = show
    BY <1>3 DEF Show, v
  <2> QED
    BY <2>2, <2>3, <2>4, <2>5 DEF GoodPane
<1> QED
  BY <1>2, <1>3

\* The tabs a pane had stay when another is shown in it.
LEMMA ShowTabGood ==
    ASSUME NEW pane, GoodPane(pane), NEW t \in Tabs
    PROVE  /\ GoodPane(ShowTab(pane, t))
           /\ Range(pane.tabs) \subseteq Range(ShowTab(pane, t).tabs)
<1> DEFINE strip == IF t \in Range(pane.tabs) THEN pane.tabs ELSE Append(pane.tabs, t)
<1>1. pane.tabs \in Seq(Tabs) /\ IsInjective(pane.tabs)
  BY PaneFields DEF GoodPane
<1>2. /\ strip \in Seq(Tabs) /\ IsInjective(strip) /\ t \in Range(strip)
      /\ Range(pane.tabs) \subseteq Range(strip)
  BY <1>1, AppendFacts
<1> HIDE DEF strip
<1>3. GoodPane(Show(pane, strip, t))
  BY <1>2, ShowGood
<1>4. Range(pane.tabs) \subseteq Range(Show(pane, strip, t).tabs)
  BY <1>2 DEF Show
<1> QED
  BY <1>3, <1>4 DEF ShowTab, strip

\* A pane whose strip is replaced, showing a tab of the new strip.
LEMMA StripGood ==
    ASSUME NEW pane, GoodPane(pane), NEW strip \in Seq(Tabs), IsInjective(strip),
           NEW t, IF strip = <<>> THEN t = NoTab ELSE t \in Range(strip)
    PROVE  GoodPane([pane EXCEPT !.tabs = strip, !.activeTab = t])
<1> DEFINE new == [pane EXCEPT !.tabs = strip, !.activeTab = t]
<1>1. t \in Tabs \cup {NoTab}
  BY RangeOfSeq
<1>2. pane \in PaneState
  BY DEF GoodPane
<1>3. /\ new \in PaneState /\ new.tabs = strip /\ new.activeTab = t
      /\ new.tabHistory = pane.tabHistory /\ new.historyIndex = pane.historyIndex
  BY <1>1, <1>2 DEF PaneState
<1> HIDE DEF new
<1>4. SoundHistory(new)
  BY <1>3 DEF GoodPane, SoundHistory
<1>5. ShowsItsTab(new)
  BY <1>3 DEF ShowsItsTab
<1>6. GoodPane(new)
  BY <1>3, <1>4, <1>5 DEF GoodPane
<1> QED
  BY <1>6 DEF new

\* Reordering a strip keeps its tabs, and the tab shown.
LEMMA RestripGood ==
    ASSUME NEW pane, GoodPane(pane), NEW strip \in Seq(Tabs), IsInjective(strip),
           Range(strip) = Range(pane.tabs)
    PROVE  GoodPane([pane EXCEPT !.tabs = strip])
<1> DEFINE new == [pane EXCEPT !.tabs = strip]
<1>1. pane \in PaneState /\ pane.tabs \in Seq(Tabs)
  BY PaneFields DEF GoodPane
<1>2. /\ new \in PaneState /\ new.tabs = strip /\ new.activeTab = pane.activeTab
      /\ new.tabHistory = pane.tabHistory /\ new.historyIndex = pane.historyIndex
  BY <1>1 DEF PaneState
<1>3. strip = <<>> <=> pane.tabs = <<>>
  BY <1>1, EmptyRange
<1> HIDE DEF new
<1>4. SoundHistory(new)
  BY <1>2 DEF GoodPane, SoundHistory
<1>5. ShowsItsTab(new)
  BY <1>2, <1>3 DEF GoodPane, ShowsItsTab
<1>6. GoodPane(new)
  BY <1>2, <1>4, <1>5 DEF GoodPane
<1> QED
  BY <1>6 DEF new

LEMMA CloseInGood ==
    ASSUME NEW pane, GoodPane(pane), NEW t \in Range(pane.tabs)
    PROVE  GoodPane(CloseIn(pane, t))
<1> DEFINE strip == Without(pane.tabs, t)
           i     == IndexOf(pane.tabs, t)
           next  == IF strip = <<>> THEN NoTab
                    ELSE IF pane.activeTab # t THEN pane.activeTab
                    ELSE strip[IF i < Len(strip) THEN i ELSE Len(strip)]
<1>1. pane.tabs \in Seq(Tabs) /\ IsInjective(pane.tabs)
  BY PaneFields DEF GoodPane
<1>2. pane.activeTab \in Range(pane.tabs)
  BY <1>1, EmptyRange DEF GoodPane, ShowsItsTab
<1>3. /\ strip \in Seq(Tabs) /\ IsInjective(strip)
      /\ Range(strip) = Range(pane.tabs) \ {t}
  BY <1>1, WithoutFacts
<1>4. i \in 1..Len(pane.tabs)
  BY <1>1, IndexOfType
<1> HIDE DEF strip, i
<1>5. ASSUME strip # <<>>, pane.activeTab = t PROVE next \in Range(strip)
  <2> DEFINE k == IF i < Len(strip) THEN i ELSE Len(strip)
  <2>1. k \in DOMAIN strip
    BY <1>1, <1>3, <1>4, <1>5
  <2>2. strip[k] \in Range(strip)
    BY <2>1 DEF Range
  <2> QED
    BY <1>5, <2>2
<1>6. IF strip = <<>> THEN next = NoTab ELSE next \in Range(strip)
  BY <1>2, <1>3, <1>5
<1> HIDE DEF next
<1>7. GoodPane([pane EXCEPT !.tabs = strip, !.activeTab = next])
  BY <1>3, <1>6, StripGood
<1> QED
  BY <1>7 DEF CloseIn, strip, i, next

LEMMA ForgetInGood ==
    ASSUME NEW pane, GoodPane(pane), NEW f
    PROVE  GoodPane(ForgetIn(pane, f))
<1> DEFINE strip == Without(pane.tabs, f)
           next  == IF pane.activeTab # f THEN pane.activeTab
                    ELSE IF strip = <<>> THEN NoTab ELSE strip[1]
<1>1. pane.tabs \in Seq(Tabs) /\ IsInjective(pane.tabs) /\ ShowsItsTab(pane)
  BY PaneFields DEF GoodPane
<1>2. /\ strip \in Seq(Tabs) /\ IsInjective(strip)
      /\ Range(strip) = Range(pane.tabs) \ {f}
  BY <1>1, WithoutFacts
<1>3. strip = <<>> <=> Range(strip) = {}
  BY <1>2, EmptyRange
<1>4. Range(pane.tabs) = {} <=> pane.tabs = <<>>
  BY <1>1, EmptyRange
<1>5. strip # <<>> => strip[1] \in Range(strip)
  BY <1>2 DEF Range
<1> HIDE DEF strip
<1>6. IF strip = <<>> THEN next = NoTab ELSE next \in Range(strip)
  BY <1>1, <1>2, <1>3, <1>4, <1>5 DEF ShowsItsTab
<1> HIDE DEF next
<1>7. GoodPane([pane EXCEPT !.tabs = strip, !.activeTab = next])
  BY <1>2, <1>6, StripGood
<1> QED
  BY <1>7 DEF ForgetIn, strip, next

LEMMA KeepPartGood ==
    ASSUME NEW pane, GoodPane(pane), NEW t \in Range(pane.tabs),
           NEW m \in 1..Len(pane.tabs), NEW n \in m..Len(pane.tabs),
           t \in {pane.tabs[m], pane.tabs[n]}
    PROVE  GoodPane(KeepPart(pane, SubSeq(pane.tabs, m, n), t))
<1> DEFINE strip == SubSeq(pane.tabs, m, n)
           next  == IF pane.activeTab \in Range(strip) THEN pane.activeTab ELSE t
<1>1. pane.tabs \in Seq(Tabs) /\ IsInjective(pane.tabs)
  BY PaneFields DEF GoodPane
<1>2. strip \in Seq(Tabs) /\ IsInjective(strip) /\ t \in Range(strip)
  BY <1>1, SubSeqFacts
<1>3. strip # <<>>
  BY <1>2, EmptyRange
<1> HIDE DEF strip
<1>4. next \in Range(strip)
  BY <1>2
<1> HIDE DEF next
<1>5. GoodPane([pane EXCEPT !.tabs = strip, !.activeTab = next])
  BY <1>2, <1>3, <1>4, StripGood
<1> QED
  BY <1>5 DEF KeepPart, strip, next

\* A tab dropped beside another is in the strip once, as before.
LEMMA PlaceBesideFacts ==
    ASSUME NEW strip \in Seq(Tabs), IsInjective(strip), NEW t,
           NEW u \in Range(strip), NEW side \in Sides
    PROVE  /\ PlaceBeside(strip, t, u, side) \in Seq(Tabs)
           /\ IsInjective(PlaceBeside(strip, t, u, side))
           /\ Range(PlaceBeside(strip, t, u, side)) = Range(strip)
<1>1. CASE t \notin Range(strip)
  BY <1>1 DEF PlaceBeside
<1>2. CASE t \in Range(strip)
  <2> DEFINE from   == IndexOf(strip, t)
             target == IndexOf(strip, u) + (IF side = "left" THEN 0 ELSE 1)
             to     == IF from < target THEN target - 1 ELSE target
             rest   == Without(strip, t)
  <2>1. from \in 1..Len(strip) /\ strip[from] = t /\ IndexOf(strip, u) \in 1..Len(strip)
    BY <1>2, IndexOfType
  <2>2. Len(strip) \in Nat /\ t \in Tabs
    BY <1>2, RangeOfSeq
  <2>3. target \in 1..(Len(strip) + 1)
    BY <2>1, <2>2
  <2>4. rest = RemoveAt(strip, from)
    BY <1>2 DEF Without
  <2>5. Len(rest) = Len(strip) - 1
    BY <2>1, <2>4, RemoveAtFacts
  <2>6. /\ rest \in Seq(Tabs) /\ IsInjective(rest)
        /\ Range(rest) = Range(strip) \ {t}
    BY WithoutFacts
  <2>7. PlaceBeside(strip, t, u, side) = InsertAt(rest, to, t)
    BY <1>2, <2>1, <2>4 DEF PlaceBeside, Reorder
  <2> HIDE DEF from, target, rest
  <2>8. to \in 1..(Len(rest) + 1)
    BY <2>1, <2>2, <2>3, <2>5
  <2> HIDE DEF to
  <2>9. /\ InsertAt(rest, to, t) \in Seq(Tabs) /\ IsInjective(InsertAt(rest, to, t))
        /\ Range(InsertAt(rest, to, t)) = Range(rest) \cup {t}
    BY <2>2, <2>6, <2>8, InsertAtFacts
  <2> QED
    BY <1>2, <2>6, <2>7, <2>9
<1> QED
  BY <1>1, <1>2

LEMMA PlacedGood ==
    ASSUME NEW pane, GoodPane(pane), NEW t, NEW u \in Range(pane.tabs),
           NEW side \in Sides
    PROVE  GoodPane([pane EXCEPT !.tabs = PlaceBeside(pane.tabs, t, u, side)])
<1>1. pane.tabs \in Seq(Tabs) /\ IsInjective(pane.tabs)
  BY PaneFields DEF GoodPane
<1> DEFINE strip == PlaceBeside(pane.tabs, t, u, side)
<1>2. /\ strip \in Seq(Tabs) /\ IsInjective(strip)
      /\ Range(strip) = Range(pane.tabs)
  BY <1>1, PlaceBesideFacts
<1> HIDE DEF strip
<1>3. GoodPane([pane EXCEPT !.tabs = strip])
  BY <1>2, RestripGood
<1> QED
  BY <1>3 DEF strip

LEMMA MovedToEndGood ==
    ASSUME NEW pane, GoodPane(pane), NEW t \in Range(pane.tabs)
    PROVE  GoodPane([pane EXCEPT !.tabs = Append(Without(pane.tabs, t), t)])
<1>1. pane.tabs \in Seq(Tabs) /\ IsInjective(pane.tabs)
  BY PaneFields DEF GoodPane
<1> DEFINE rest  == Without(pane.tabs, t)
           strip == Append(rest, t)
<1>2. /\ rest \in Seq(Tabs) /\ IsInjective(rest) /\ t \in Tabs
      /\ Range(rest) = Range(pane.tabs) \ {t}
  BY <1>1, WithoutFacts, RangeOfSeq
<1> HIDE DEF rest
<1>3. t \notin Range(rest) /\ Range(rest) \cup {t} = Range(pane.tabs)
  BY <1>2
<1>4. /\ strip \in Seq(Tabs) /\ Range(strip) = Range(rest) \cup {t}
      /\ IsInjective(rest) /\ t \notin Range(rest) => IsInjective(strip)
  BY <1>2, AppendFacts
<1> HIDE DEF strip
<1>5. GoodPane([pane EXCEPT !.tabs = strip])
  BY <1>2, <1>3, <1>4, RestripGood
<1> QED
  BY <1>5 DEF strip, rest

\* A jump within the history lands on a tab that is still open.
LEMMA GoToGood ==
    ASSUME NEW pane, GoodPane(pane), NEW a \in Nat, NEW b \in Int,
           b <= Len(pane.tabHistory) - 1, NEW i \in OpenEntries(pane, a, b)
    PROVE  GoodPane(GoTo(pane, i))
<1> DEFINE new == GoTo(pane, i)
<1>1. pane \in PaneState /\ pane.tabs \in Seq(Tabs) /\ pane.tabHistory \in Seq(Tabs)
  BY PaneFields DEF GoodPane
<1>2. /\ i \in Nat /\ i < Len(pane.tabHistory)
      /\ pane.tabHistory[i + 1] \in Range(pane.tabs)
  BY <1>1 DEF OpenEntries
<1>3. pane.tabHistory[i + 1] \in Tabs /\ pane.tabs # <<>>
  BY <1>1, <1>2, EmptyRange
<1>4. /\ new \in PaneState /\ new.tabs = pane.tabs
      /\ new.activeTab = pane.tabHistory[i + 1]
      /\ new.tabHistory = pane.tabHistory /\ new.historyIndex = i
  BY <1>1, <1>2, <1>3 DEF GoTo, PaneState
<1> HIDE DEF new
<1>5. SoundHistory(new)
  BY <1>2, <1>4 DEF GoodPane, SoundHistory
<1>6. ShowsItsTab(new)
  BY <1>2, <1>3, <1>4 DEF ShowsItsTab
<1>7. GoodPane(new)
  BY <1>4, <1>5, <1>6 DEF GoodPane
<1> QED
  BY <1>7 DEF new

-----------------------------------------------------------------------------
(* The board: panes P and the leaves o of the layout that shows them *)

Board(P, o) == /\ P \in [DOMAIN P -> PaneState]
               /\ o \in Seq(DOMAIN P) /\ IsInjective(o) /\ Range(o) = DOMAIN P
               /\ \A p \in DOMAIN P : GoodPane(P[p])

Ids(P, active, maximized, next) ==
    /\ next \in 2..(MaxPaneId + 1)
    /\ DOMAIN P \subseteq 1..(next - 1)
    /\ active \in 1..(next - 1)
    /\ maximized \in 0..(next - 1)

\* The inductive invariant.
BoardInv == /\ Board(panes, order)
            /\ Ids(panes, activePaneId, maximizedPaneId, nextPaneId)

LEMMA UpdateBoard ==
    ASSUME NEW P, NEW o, Board(P, o), NEW p \in DOMAIN P, NEW pane, GoodPane(pane)
    PROVE  /\ Board([P EXCEPT ![p] = pane], o)
           /\ DOMAIN [P EXCEPT ![p] = pane] = DOMAIN P
<1> DEFINE Q == [P EXCEPT ![p] = pane]
<1>1. P \in [DOMAIN P -> PaneState] /\ pane \in PaneState
  BY DEF Board, GoodPane
<1>2. /\ DOMAIN Q = DOMAIN P /\ Q \in [DOMAIN P -> PaneState]
      /\ \A q \in DOMAIN P : Q[q] = IF q = p THEN pane ELSE P[q]
  BY <1>1
<1> HIDE DEF Q
<1>3. \A q \in DOMAIN P : GoodPane(Q[q])
  BY <1>2 DEF Board
<1>4. Board(Q, o) /\ DOMAIN Q = DOMAIN P
  BY <1>2, <1>3 DEF Board
<1> QED
  BY <1>4 DEF Q

\* Taking a pane out of a board of several, or an id that is not on it.
LEMMA ShrinkBoard ==
    ASSUME NEW P, NEW o, Board(P, o), Len(o) > 1, NEW p
    PROVE  /\ Board(Restrict(P, DOMAIN P \ {p}), Without(o, p))
           /\ DOMAIN Restrict(P, DOMAIN P \ {p}) = DOMAIN P \ {p}
           /\ Without(o, p)[1] \in DOMAIN P
<1> DEFINE Q == Restrict(P, DOMAIN P \ {p})
           r == Without(o, p)
<1>1. /\ P \in [DOMAIN P -> PaneState] /\ o \in Seq(DOMAIN P)
      /\ IsInjective(o) /\ Range(o) = DOMAIN P
      /\ \A q \in DOMAIN P : GoodPane(P[q])
  BY DEF Board
<1>2. /\ r \in Seq(DOMAIN P) /\ Len(r) >= Len(o) - 1
      /\ IsInjective(r) /\ Range(r) = DOMAIN P \ {p}
  BY <1>1, WithoutFacts
<1>3. /\ DOMAIN Q = DOMAIN P \ {p} /\ Q \in [DOMAIN P \ {p} -> PaneState]
      /\ \A q \in DOMAIN P \ {p} : Q[q] = P[q]
  BY <1>1 DEF Restrict
<1> HIDE DEF Q, r
<1>4. r \in Seq(DOMAIN Q)
  BY <1>2, <1>3, SeqByRange
<1>5. r[1] \in DOMAIN P
  BY <1>1, <1>2
<1>6. Board(Q, r)
  BY <1>1, <1>2, <1>3, <1>4 DEF Board
<1> QED
  BY <1>3, <1>5, <1>6 DEF Q, r

\* The board with pane n put beside pane q.
WithPane(P, n, pane) == [p \in DOMAIN P \cup {n} |-> IF p = n THEN pane ELSE P[p]]

WithLeaf(o, q, side, n) ==
    InsertAt(o, IndexOf(o, q) + (IF side = "left" THEN 0 ELSE 1), n)

LEMMA GrowBoard ==
    ASSUME NEW P, NEW o, Board(P, o), NEW q \in DOMAIN P, NEW side \in Sides,
           NEW n, n \notin DOMAIN P, NEW pane, GoodPane(pane)
    PROVE  /\ Board(WithPane(P, n, pane), WithLeaf(o, q, side, n))
           /\ DOMAIN WithPane(P, n, pane) = DOMAIN P \cup {n}
           /\ Len(WithLeaf(o, q, side, n)) > 1
<1> DEFINE G == WithPane(P, n, pane)
           i == IndexOf(o, q) + (IF side = "left" THEN 0 ELSE 1)
           g == InsertAt(o, i, n)
<1>1. /\ P \in [DOMAIN P -> PaneState] /\ o \in Seq(DOMAIN P)
      /\ IsInjective(o) /\ Range(o) = DOMAIN P
      /\ \A p \in DOMAIN P : GoodPane(P[p])
  BY DEF Board
<1>2. IndexOf(o, q) \in 1..Len(o) /\ Len(o) \in Nat
  BY <1>1, IndexOfType
<1>3. i \in 1..(Len(o) + 1)
  BY <1>2
<1> HIDE DEF i
<1>4. o \in Seq(DOMAIN P \cup {n}) /\ n \in DOMAIN P \cup {n}
  BY <1>1, SeqMonotonic
<1>5. /\ g \in Seq(DOMAIN P \cup {n}) /\ Len(g) = Len(o) + 1
      /\ Range(g) = Range(o) \cup {n}
      /\ IsInjective(o) /\ n \notin Range(o) => IsInjective(g)
  BY <1>3, <1>4, InsertAtFacts
<1>6. pane \in PaneState
  BY DEF GoodPane
<1>7. /\ DOMAIN G = DOMAIN P \cup {n} /\ G \in [DOMAIN P \cup {n} -> PaneState]
      /\ \A p \in DOMAIN G : GoodPane(G[p])
  BY <1>1, <1>6 DEF WithPane
<1> HIDE DEF G, g
<1>8. Board(G, g) /\ Len(g) > 1
  BY <1>1, <1>2, <1>5, <1>7 DEF Board
<1> QED
  BY <1>7, <1>8 DEF G, g, i, WithLeaf

\* The board as the actions name it.
LEMMA InvFacts ==
    ASSUME BoardInv
    PROVE  /\ Board(panes, order) /\ panes \in [PaneIds -> PaneState]
           /\ \A p \in PaneIds : GoodPane(panes[p])
           /\ Ids(panes, activePaneId, maximizedPaneId, nextPaneId)
           /\ nextPaneId \in Nat /\ nextPaneId \notin PaneIds
           /\ PaneIds \subseteq 1..(nextPaneId - 1)
<1>1. nextPaneId \in Int /\ PaneIds \subseteq 1..(nextPaneId - 1) /\ nextPaneId >= 2
  BY BoardAssumption DEF BoardInv, Ids, PaneIds
<1>2. nextPaneId \in Nat /\ nextPaneId \notin PaneIds
  BY <1>1
<1> QED
  BY <1>1, <1>2 DEF BoardInv, Board, PaneIds

\* A handler that changes one pane and keeps the layout.
LEMMA UpdateKeeps ==
    ASSUME BoardInv, NEW p \in PaneIds, NEW pane, GoodPane(pane),
           panes' = [panes EXCEPT ![p] = pane], order' = order,
           activePaneId' \in PaneIds \cup {activePaneId},
           UNCHANGED <<maximizedPaneId, nextPaneId>>
    PROVE  BoardInv'
<1>1. Board(panes', order') /\ DOMAIN panes' = DOMAIN panes
  BY UpdateBoard, InvFacts DEF PaneIds
<1>2. Ids(panes', activePaneId', maximizedPaneId', nextPaneId')
  BY <1>1, InvFacts DEF Ids, PaneIds
<1> QED
  BY <1>1, <1>2 DEF BoardInv

LEMMA RemovePaneKeeps ==
    ASSUME BoardInv, NEW p, Len(order) > 1, RemovePane(p),
           maximizedPaneId' \in {maximizedPaneId, NoPane}, UNCHANGED nextPaneId
    PROVE  BoardInv'
<1>1. /\ Board(panes', order') /\ DOMAIN panes' \subseteq DOMAIN panes
      /\ order'[1] \in DOMAIN panes
  BY ShrinkBoard, InvFacts DEF PaneIds, RemovePane
<1>2. activePaneId' \in {activePaneId} \cup DOMAIN panes
  BY <1>1 DEF RemovePane
<1>3. Ids(panes', activePaneId', maximizedPaneId', nextPaneId')
  BY <1>1, <1>2, InvFacts DEF Ids, PaneIds, NoPane
<1> QED
  BY <1>1, <1>3 DEF BoardInv

LEMMA CloseIfEmptiedKeeps ==
    ASSUME BoardInv, NEW from, NEW result, Board(result, order),
           DOMAIN result = PaneIds, CloseIfEmptied(from, result),
           activePaneId' \in PaneIds, UNCHANGED <<maximizedPaneId, nextPaneId>>
    PROVE  BoardInv'
<1>1. Board(panes', order') /\ DOMAIN panes' \subseteq PaneIds
  <2>1. CASE result[from].tabs = <<>> /\ Len(order) > 1
    <3>1. panes' = Restrict(result, DOMAIN result \ {from}) /\ order' = Without(order, from)
      BY <2>1 DEF CloseIfEmptied
    <3> QED
      BY <2>1, <3>1, ShrinkBoard
  <2>2. CASE ~(result[from].tabs = <<>> /\ Len(order) > 1)
    BY <2>2 DEF CloseIfEmptied
  <2> QED
    BY <2>1, <2>2
<1>2. Ids(panes', activePaneId', maximizedPaneId', nextPaneId')
  BY <1>1, InvFacts DEF Ids, PaneIds
<1> QED
  BY <1>1, <1>2 DEF BoardInv

-----------------------------------------------------------------------------
(* Steps that change the tabs of one pane *)

LEMMA OpenTabKeeps ==
    ASSUME BoardInv, NEW p \in PaneIds, NEW t \in Tabs, OpenTab(t, p)
    PROVE  BoardInv'
<1>1. GoodPane(ShowTab(panes[p], t))
  BY ShowTabGood, InvFacts
<1> QED
  BY <1>1, UpdateKeeps DEF OpenTab

LEMMA CloseTabKeeps ==
    ASSUME BoardInv, NEW p \in PaneIds, NEW t \in Tabs, CloseTab(p, t)
    PROVE  BoardInv'
<1>1. CASE Len(panes[p].tabs) = 1 /\ Len(order) > 1
  <2>1. RemovePane(p) /\ UNCHANGED <<maximizedPaneId, nextPaneId>>
    BY <1>1 DEF CloseTab
  <2> QED
    BY <1>1, <2>1, RemovePaneKeeps
<1>2. CASE ~(Len(panes[p].tabs) = 1 /\ Len(order) > 1)
  <2>1. GoodPane(CloseIn(panes[p], t))
    BY CloseInGood, InvFacts DEF CloseTab, HasTab
  <2>2. /\ panes' = [panes EXCEPT ![p] = CloseIn(panes[p], t)]
        /\ UNCHANGED <<order, activePaneId, maximizedPaneId, nextPaneId>>
    BY <1>2 DEF CloseTab
  <2> QED
    BY <2>1, <2>2, UpdateKeeps
<1> QED
  BY <1>1, <1>2

LEMMA SetActiveTabKeeps ==
    ASSUME BoardInv, NEW p \in PaneIds, NEW t \in Tabs, SetActiveTab(p, t)
    PROVE  BoardInv'
<1>1. GoodPane(panes[p]) /\ t \in Range(panes[p].tabs)
  BY InvFacts DEF SetActiveTab, HasTab
<1>2. panes[p].tabs \in Seq(Tabs) /\ IsInjective(panes[p].tabs)
  BY <1>1, PaneFields DEF GoodPane
<1>3. GoodPane(Show(panes[p], panes[p].tabs, t))
  BY <1>1, <1>2, ShowGood
<1> QED
  BY <1>3, UpdateKeeps DEF SetActiveTab

LEMMA DropTabAtEndKeeps ==
    ASSUME BoardInv, NEW p \in PaneIds, NEW t \in Tabs, DropTabAtEnd(t, p)
    PROVE  BoardInv'
<1> DEFINE new == [panes[p] EXCEPT !.tabs = Append(Without(panes[p].tabs, t), t)]
<1>1. GoodPane(new)
  BY MovedToEndGood, InvFacts DEF DropTabAtEnd, HasTab
<1>2. /\ panes' = [panes EXCEPT ![p] = new]
      /\ UNCHANGED <<order, activePaneId, maximizedPaneId, nextPaneId>>
  BY DEF DropTabAtEnd
<1> HIDE DEF new
<1> QED
  BY <1>1, <1>2, UpdateKeeps

LEMMA CloseOtherTabsKeeps ==
    ASSUME BoardInv, NEW p \in PaneIds, NEW t \in Tabs, CloseOtherTabs(p, t)
    PROVE  BoardInv'
BY PaneOfGood, UpdateKeeps DEF CloseOtherTabs

LEMMA CloseTabsToLeftKeeps ==
    ASSUME BoardInv, NEW p \in PaneIds, NEW t \in Tabs, CloseTabsToLeft(p, t)
    PROVE  BoardInv'
<1> DEFINE s == panes[p].tabs
           i == IndexOf(s, t)
<1>1. GoodPane(panes[p]) /\ t \in Range(s) /\ s \in Seq(Tabs)
  BY InvFacts, PaneFields DEF CloseTabsToLeft, HasTab, GoodPane
<1>2. i \in 1..Len(s) /\ s[i] = t /\ Len(s) \in i..Len(s)
  BY <1>1, IndexOfType
<1> HIDE DEF i
<1>3. GoodPane(KeepPart(panes[p], SubSeq(s, i, Len(s)), t))
  BY <1>1, <1>2, KeepPartGood
<1>4. panes' = [panes EXCEPT ![p] = KeepPart(panes[p], SubSeq(s, i, Len(s)), t)]
  BY DEF CloseTabsToLeft, i
<1> QED
  BY <1>3, <1>4, UpdateKeeps DEF CloseTabsToLeft

LEMMA CloseTabsToRightKeeps ==
    ASSUME BoardInv, NEW p \in PaneIds, NEW t \in Tabs, CloseTabsToRight(p, t)
    PROVE  BoardInv'
<1> DEFINE s == panes[p].tabs
           i == IndexOf(s, t)
<1>1. GoodPane(panes[p]) /\ t \in Range(s) /\ s \in Seq(Tabs)
  BY InvFacts, PaneFields DEF CloseTabsToRight, HasTab, GoodPane
<1>2. i \in 1..Len(s) /\ s[i] = t /\ 1 \in 1..Len(s)
  BY <1>1, IndexOfType
<1> HIDE DEF i
<1>3. GoodPane(KeepPart(panes[p], SubSeq(s, 1, i), t))
  BY <1>1, <1>2, KeepPartGood
<1>4. panes' = [panes EXCEPT ![p] = KeepPart(panes[p], SubSeq(s, 1, i), t)]
  BY DEF CloseTabsToRight, i
<1> QED
  BY <1>3, <1>4, UpdateKeeps DEF CloseTabsToRight

LEMMA NavigateBackKeeps ==
    ASSUME BoardInv, NEW p \in PaneIds, NavigateBack(p)
    PROVE  BoardInv'
<1> DEFINE to == panes[p].historyIndex - 1
<1>1. PICK i \in OpenEntries(panes[p], 0, to) :
         panes' = [panes EXCEPT ![p] = GoTo(panes[p], i)]
  BY DEF NavigateBack
<1>2. GoodPane(panes[p]) /\ panes[p].tabHistory \in Seq(Tabs)
      /\ panes[p].historyIndex \in Nat
  BY InvFacts, PaneFields DEF GoodPane
<1>3. to \in Int /\ to <= Len(panes[p].tabHistory) - 1
  BY <1>2 DEF GoodPane, SoundHistory
<1> HIDE DEF to
<1>4. GoodPane(GoTo(panes[p], i))
  BY <1>2, <1>3, GoToGood
<1> QED
  BY <1>1, <1>4, UpdateKeeps DEF NavigateBack

LEMMA NavigateForwardKeeps ==
    ASSUME BoardInv, NEW p \in PaneIds, NavigateForward(p)
    PROVE  BoardInv'
<1> DEFINE from == panes[p].historyIndex + 1
           to   == Len(panes[p].tabHistory) - 1
<1>1. PICK i \in OpenEntries(panes[p], from, to) :
         panes' = [panes EXCEPT ![p] = GoTo(panes[p], i)]
  BY DEF NavigateForward
<1>2. GoodPane(panes[p]) /\ panes[p].tabHistory \in Seq(Tabs)
      /\ panes[p].historyIndex \in Nat
  BY InvFacts, PaneFields DEF GoodPane
<1>3. from \in Nat /\ to \in Int /\ to <= Len(panes[p].tabHistory) - 1
  BY <1>2
<1> HIDE DEF from, to
<1>4. GoodPane(GoTo(panes[p], i))
  BY <1>2, <1>3, GoToGood
<1> QED
  BY <1>1, <1>4, UpdateKeeps DEF NavigateForward

LEMMA CloseAllTabsKeeps ==
    ASSUME BoardInv, NEW p \in PaneIds, CloseAllTabs(p)
    PROVE  BoardInv'
BY EmptyPaneGood, UpdateKeeps, RemovePaneKeeps DEF CloseAllTabs

LEMMA ToggleKeymapEditorKeeps ==
    ASSUME BoardInv, ToggleKeymapEditor
    PROVE  BoardInv'
<1>1. KeymapTab \in Tabs
  BY BoardAssumption
<1> QED
  BY <1>1, OpenTabKeeps, CloseTabKeeps DEF ToggleKeymapEditor

-----------------------------------------------------------------------------
(* Drags *)

LEMMA DropFileOnTabKeeps ==
    ASSUME BoardInv, NEW p \in PaneIds, NEW f \in Tabs, NEW u \in Tabs,
           NEW side \in Sides, DropFileOnTab(f, u, p, side)
    PROVE  BoardInv'
<1> DEFINE shown == ShowTab(panes[p], f)
           new   == [shown EXCEPT !.tabs = PlaceBeside(shown.tabs, f, u, side)]
<1>1. GoodPane(shown) /\ Range(panes[p].tabs) \subseteq Range(shown.tabs)
  BY ShowTabGood, InvFacts
<1>2. u \in Range(panes[p].tabs)
  BY DEF DropFileOnTab, HasTab
<1>3. panes' = [panes EXCEPT ![p] = new]
  BY DEF DropFileOnTab
<1> HIDE DEF shown
<1>4. GoodPane(new)
  BY <1>1, <1>2, PlacedGood
<1> HIDE DEF new
<1> QED
  BY <1>3, <1>4, UpdateKeeps DEF DropFileOnTab

\* Both panes of a move are sound before an emptied one is closed.
LEMMA MovedBoard ==
    ASSUME BoardInv, NEW from \in PaneIds, NEW to \in PaneIds, from # to,
           NEW t \in Tabs, HasTab(from, t)
    PROVE  /\ Board(MovedPanes(t, from, to), order)
           /\ DOMAIN MovedPanes(t, from, to) = PaneIds
           /\ MovedPanes(t, from, to)[to] = ShowTab(panes[to], t)
<1> DEFINE closed == CloseIn(panes[from], t)
           shown  == ShowTab(panes[to], t)
           half   == [panes EXCEPT ![from] = closed]
           both   == [half EXCEPT ![to] = shown]
<1>1. GoodPane(closed) /\ GoodPane(shown)
  BY CloseInGood, ShowTabGood, InvFacts DEF HasTab
<1>2. MovedPanes(t, from, to) = both
  BY DEF MovedPanes
<1> HIDE DEF closed, shown
<1>3. Board(half, order) /\ DOMAIN half = PaneIds
  BY <1>1, UpdateBoard, InvFacts DEF PaneIds
<1> HIDE DEF half
<1>4. Board(both, order) /\ DOMAIN both = PaneIds
  BY <1>1, <1>3, UpdateBoard
<1>5. both[to] = shown
  BY <1>3
<1> QED
  BY <1>2, <1>4, <1>5 DEF shown

LEMMA MoveTabToPaneKeeps ==
    ASSUME BoardInv, NEW from \in PaneIds, NEW to \in PaneIds, NEW t \in Tabs,
           MoveTabToPane(t, from, to)
    PROVE  BoardInv'
BY MovedBoard, CloseIfEmptiedKeeps DEF MoveTabToPane

LEMMA DropTabOnTabKeeps ==
    ASSUME BoardInv, NEW from \in PaneIds, NEW to \in PaneIds, NEW t \in Tabs,
           NEW u \in Tabs, NEW side \in Sides, DropTabOnTab(t, from, u, to, side)
    PROVE  BoardInv'
<1>1. u \in Range(panes[to].tabs) /\ GoodPane(panes[to])
  BY InvFacts DEF DropTabOnTab, HasTab
<1>2. CASE from = to
  <2> DEFINE new == [panes[to] EXCEPT !.tabs = PlaceBeside(panes[to].tabs, t, u, side)]
  <2>1. GoodPane(new)
    BY <1>1, PlacedGood
  <2>2. /\ panes' = [panes EXCEPT ![to] = new]
        /\ UNCHANGED <<order, activePaneId, maximizedPaneId, nextPaneId>>
    BY <1>2 DEF DropTabOnTab
  <2> HIDE DEF new
  <2> QED
    BY <2>1, <2>2, UpdateKeeps
<1>3. CASE from # to
  <2> DEFINE moved  == MovedPanes(t, from, to)
             shown  == ShowTab(panes[to], t)
             new    == [shown EXCEPT !.tabs = PlaceBeside(shown.tabs, t, u, side)]
             result == [moved EXCEPT ![to] = new]
  <2>1. Board(moved, order) /\ DOMAIN moved = PaneIds /\ moved[to] = shown
    BY <1>3, MovedBoard DEF DropTabOnTab
  <2>2. GoodPane(shown) /\ u \in Range(shown.tabs)
    BY <1>1, ShowTabGood
  <2>3. /\ CloseIfEmptied(from, [moved EXCEPT ![to].tabs = PlaceBeside(@, t, u, side)])
        /\ activePaneId' = to /\ UNCHANGED <<maximizedPaneId, nextPaneId>>
    BY <1>3 DEF DropTabOnTab
  <2> HIDE DEF moved, shown
  <2>4. [moved EXCEPT ![to].tabs = PlaceBeside(@, t, u, side)] = result
    BY <2>1
  <2>5. GoodPane(new)
    BY <2>2, PlacedGood
  <2> HIDE DEF new
  <2>6. Board(result, order) /\ DOMAIN result = PaneIds
    BY <2>1, <2>5, UpdateBoard
  <2> HIDE DEF result
  <2> QED
    BY <2>3, <2>4, <2>6, CloseIfEmptiedKeeps
<1> QED
  BY <1>2, <1>3

-----------------------------------------------------------------------------
(* Splits, closes, and steps on the whole board *)

\* The new pane is the active one and the counter moves on; other ids are kept.
LEMMA NewPaneIds ==
    ASSUME BoardInv, nextPaneId <= MaxPaneId, NEW P,
           DOMAIN P \subseteq PaneIds \cup {nextPaneId}
    PROVE  Ids(P, nextPaneId, maximizedPaneId, nextPaneId + 1)
BY InvFacts, BoardAssumption DEF Ids

LEMMA SplitActivePaneKeeps ==
    ASSUME BoardInv, SplitActivePane
    PROVE  BoardInv'
<1> DEFINE t == panes[activePaneId].activeTab
<1>1. activePaneId \in PaneIds /\ t # NoTab /\ nextPaneId <= MaxPaneId
  BY DEF SplitActivePane
<1>2. t \in Tabs
  BY <1>1, InvFacts, PaneFields DEF GoodPane
<1>3. GoodPane(PaneOf(t))
  BY <1>2, PaneOfGood
<1>4. /\ panes' = WithPane(panes, nextPaneId, PaneOf(t))
      /\ order' = WithLeaf(order, activePaneId, "right", nextPaneId)
      /\ activePaneId' = nextPaneId /\ nextPaneId' = nextPaneId + 1
      /\ maximizedPaneId' = maximizedPaneId
  BY DEF SplitActivePane, InsertBeside, WithPane, WithLeaf, PaneIds
<1> HIDE DEF t
<1>5. "right" \in Sides
  BY DEF Sides
<1>6. Board(panes', order') /\ DOMAIN panes' = PaneIds \cup {nextPaneId}
  BY <1>1, <1>3, <1>4, <1>5, GrowBoard, InvFacts DEF PaneIds
<1>7. Ids(panes', nextPaneId, maximizedPaneId, nextPaneId + 1)
  BY <1>1, <1>6, NewPaneIds
<1> QED
  BY <1>4, <1>6, <1>7 DEF BoardInv

LEMMA SplitPaneWithKeeps ==
    ASSUME BoardInv, NEW target \in PaneIds, NEW from \in PaneIds, NEW t \in Tabs,
           NEW side \in Sides, SplitPaneWith(target, side, t, from)
    PROVE  BoardInv'
<1> DEFINE n     == nextPaneId
           left  == IF from = target THEN panes
                    ELSE [panes EXCEPT ![from] = CloseIn(panes[from], t)]
           G     == WithPane(left, n, PaneOf(t))
           grown == WithLeaf(order, target, side, n)
           gone  == {p \in {from} : left[p].tabs = <<>>}
<1>1. HasTab(from, t) /\ n <= MaxPaneId
  BY DEF SplitPaneWith
<1>2. GoodPane(CloseIn(panes[from], t)) /\ GoodPane(PaneOf(t))
  BY <1>1, CloseInGood, PaneOfGood, InvFacts DEF HasTab
<1>3. Board(left, order) /\ DOMAIN left = PaneIds
  BY <1>2, UpdateBoard, InvFacts DEF PaneIds
<1>4. /\ panes' = [p \in (PaneIds \cup {n}) \ gone |->
                      IF p = n THEN PaneOf(t) ELSE left[p]]
      /\ order' = IF gone = {} THEN grown ELSE Without(grown, from)
      /\ activePaneId' = n /\ nextPaneId' = n + 1 /\ maximizedPaneId' = maximizedPaneId
  BY DEF SplitPaneWith, InsertBeside, WithLeaf
<1>5. n \notin PaneIds
  BY InvFacts
<1> HIDE DEF left, n
<1>6. Board(G, grown) /\ DOMAIN G = PaneIds \cup {n} /\ Len(grown) > 1
  BY <1>2, <1>3, <1>5, GrowBoard
<1> HIDE DEF grown
<1>7. CASE gone = {}
  <2>1. panes' = G /\ order' = grown
    BY <1>3, <1>4, <1>7 DEF WithPane
  <2> QED
    BY <1>1, <1>4, <1>6, <2>1, NewPaneIds DEF BoardInv, n
<1>8. CASE gone # {}
  <2>1. gone = {from}
    BY <1>8
  <2>2. order' = Without(grown, from)
    BY <1>4, <1>8
  <2> HIDE DEF gone
  <2>3. panes' = [p \in DOMAIN G \ {from} |-> G[p]]
    BY <1>3, <1>4, <1>6, <2>1 DEF WithPane
  <2> HIDE DEF G
  <2>4. panes' = Restrict(G, DOMAIN G \ {from})
    BY <2>3 DEF Restrict
  <2>5. Board(panes', order') /\ DOMAIN panes' \subseteq PaneIds \cup {n}
    BY <1>6, <2>2, <2>4, ShrinkBoard
  <2> QED
    BY <1>1, <1>4, <2>5, NewPaneIds DEF BoardInv, n
<1> QED
  BY <1>7, <1>8

\* The active id may name a pane that is gone.
LEMMA ClosePaneKeeps ==
    ASSUME BoardInv, ClosePane
    PROVE  BoardInv'
BY RemovePaneKeeps DEF ClosePane

LEMMA RefsAreIds ==
    ASSUME BoardInv, NEW p \in PaneRefs
    PROVE  p \in 1..(nextPaneId - 1)
BY InvFacts DEF PaneRefs, Ids, NoPane

LEMMA SetActivePaneIdKeeps ==
    ASSUME BoardInv, NEW p \in PaneRefs, SetActivePaneId(p)
    PROVE  BoardInv'
BY RefsAreIds DEF SetActivePaneId, BoardInv, Ids

LEMMA ToggleMaximizePaneKeeps ==
    ASSUME BoardInv, NEW p \in PaneRefs, ToggleMaximizePane(p)
    PROVE  BoardInv'
<1>1. maximizedPaneId' \in 0..(nextPaneId - 1)
  BY RefsAreIds, InvFacts DEF ToggleMaximizePane, NoPane
<1> QED
  BY <1>1 DEF ToggleMaximizePane, BoardInv, Ids

LEMMA DeleteFileKeeps ==
    ASSUME BoardInv, NEW f, DeleteFile(f)
    PROVE  BoardInv'
<1>1. \A p \in PaneIds : GoodPane(ForgetIn(panes[p], f))
  BY ForgetInGood, InvFacts
<1>2. /\ DOMAIN panes' = PaneIds
      /\ \A p \in PaneIds : panes'[p] = ForgetIn(panes[p], f)
      /\ panes' = [p \in PaneIds |-> panes'[p]]
      /\ UNCHANGED <<order, activePaneId, maximizedPaneId, nextPaneId>>
  BY DEF DeleteFile
<1>3. \A p \in PaneIds : GoodPane(panes'[p]) /\ panes'[p] \in PaneState
  BY <1>1, <1>2 DEF GoodPane
<1>4. panes' \in [PaneIds -> PaneState]
  BY <1>2, <1>3
<1>5. Board(panes', order')
  BY <1>2, <1>3, <1>4 DEF BoardInv, Board, PaneIds
<1> QED
  BY <1>2, <1>5 DEF BoardInv, Ids, PaneIds

LEMMA FreshBoard ==
    Board([p \in {MainPane} |-> EmptyPane], <<MainPane>>)
<1> DEFINE P == [p \in {MainPane} |-> EmptyPane]
           o == <<MainPane>>
<1>1. /\ DOMAIN P = {MainPane} /\ P[MainPane] = EmptyPane
      /\ P \in [{MainPane} -> PaneState]
  BY EmptyPaneGood DEF GoodPane
<1>2. o \in Seq({MainPane}) /\ DOMAIN o = {1} /\ o[1] = MainPane
  OBVIOUS
<1> HIDE DEF P, o
<1>3. IsInjective(o) /\ Range(o) = {MainPane}
  BY <1>2 DEF IsInjective, Range
<1>4. Board(P, o)
  BY <1>1, <1>2, <1>3, EmptyPaneGood DEF Board
<1> QED
  BY <1>4 DEF P, o

LEMMA ResetEditorStateKeeps ==
    ASSUME BoardInv, ResetEditorState
    PROVE  BoardInv'
<1>1. Board(panes', order') /\ DOMAIN panes' = {MainPane}
  BY FreshBoard DEF ResetEditorState
<1>2. nextPaneId' \in 2..(MaxPaneId + 1) /\ MaxPaneId \in Nat
  BY BoardAssumption DEF ResetEditorState, BoardInv, Ids
<1>3. Ids(panes', activePaneId', maximizedPaneId', nextPaneId')
  BY <1>1, <1>2 DEF ResetEditorState, Ids, MainPane, NoPane
<1> QED
  BY <1>1, <1>3 DEF BoardInv

-----------------------------------------------------------------------------
LEMMA BoardInvInit ==
    ASSUME Init
    PROVE  BoardInv
<1>1. Board(panes, order) /\ DOMAIN panes = {MainPane}
  BY FreshBoard DEF Init
<1>2. Ids(panes, activePaneId, maximizedPaneId, nextPaneId)
  BY <1>1, BoardAssumption DEF Init, Ids, MainPane, NoPane
<1> QED
  BY <1>1, <1>2 DEF BoardInv

LEMMA BoardInvStep ==
    ASSUME BoardInv, [Next]_vars
    PROVE  BoardInv'
<1>1. CASE TabStep
  BY <1>1, OpenTabKeeps, CloseTabKeeps, SetActiveTabKeeps, DropTabAtEndKeeps,
     CloseOtherTabsKeeps, CloseTabsToLeftKeeps, CloseTabsToRightKeeps DEF TabStep
<1>2. CASE DragStep
  BY <1>2, MoveTabToPaneKeeps, SplitPaneWithKeeps, DropTabOnTabKeeps,
     DropFileOnTabKeeps DEF DragStep
<1>3. CASE PaneStep
  BY <1>3, SplitActivePaneKeeps, ClosePaneKeeps, ToggleKeymapEditorKeeps,
     ResetEditorStateKeeps, CloseAllTabsKeeps, NavigateBackKeeps,
     NavigateForwardKeeps, SetActivePaneIdKeeps, ToggleMaximizePaneKeeps,
     DeleteFileKeeps DEF PaneStep
<1>4. CASE UNCHANGED vars
  BY <1>4 DEF vars, BoardInv
<1> QED
  BY <1>1, <1>2, <1>3, <1>4 DEF Next

LEMMA BoardInvHolds == Spec => []BoardInv
<1>1. Init => BoardInv
  BY BoardInvInit
<1>2. BoardInv /\ [Next]_vars => BoardInv'
  BY BoardInvStep
<1> QED
  BY <1>1, <1>2, PTL DEF Spec

-----------------------------------------------------------------------------
(* What the board promises *)

\* The board's state stays well-formed, however many panes were split off.
THEOREM BoardTypes == Spec => []TypeOK
<1>1. BoardInv => TypeOK
  BY InvFacts DEF BoardInv, Board, Ids, TypeOK, PaneIds
<1> QED
  BY <1>1, BoardInvHolds, PTL

\* The leaves of the split layout are the panes, each shown once, whichever
\* moves, drops, splits and closes emptied or created panes.
THEOREM LayoutComplete == Spec => []LayoutMatchesPanes
<1>1. BoardInv => LayoutMatchesPanes
  BY DEF BoardInv, Board, LayoutMatchesPanes, PaneIds
<1> QED
  BY <1>1, BoardInvHolds, PTL

\* Every way of taking a tab away (close, move, delete, cut, jump in history)
\* leaves the pane showing one of the tabs it still has, and no drop or
\* reorder puts a tab into a strip a second time.
THEOREM StripsStaySound == Spec => []StripsSound
<1>1. BoardInv => ActiveTabShown
  BY DEF BoardInv, Board, GoodPane, ShowsItsTab, ActiveTabShown, PaneIds
<1>2. BoardInv => NoDuplicateTabs
  BY DEF BoardInv, Board, GoodPane, NoDuplicateTabs, PaneIds
<1>3. BoardInv => StripsSound
  BY <1>1, <1>2 DEF StripsSound
<1> QED
  BY <1>3, BoardInvHolds, PTL

\* The history cursor stays on the history, and no entry repeats the one
\* before it, for a history of any length.
THEOREM HistorySound == Spec => []HistoryConsistent
<1>1. BoardInv => HistoryConsistent
  BY DEF BoardInv, Board, GoodPane, SoundHistory, HistoryConsistent, PaneIds
<1> QED
  BY <1>1, BoardInvHolds, PTL

-----------------------------------------------------------------------------
(* Where a dropped tab lands *)

LEMMA IndexUnique ==
    ASSUME NEW S, NEW s \in Seq(S), IsInjective(s), NEW k \in 1..Len(s)
    PROVE  IndexOf(s, s[k]) = k
<1>1. s[k] \in Range(s) /\ DOMAIN s = 1..Len(s)
  BY DEF Range
<1>2. IndexOf(s, s[k]) \in 1..Len(s) /\ s[IndexOf(s, s[k])] = s[k]
  BY <1>1, IndexOfType
<1> QED
  BY <1>1, <1>2 DEF IsInjective

LEMMA InsertAtPlaces ==
    ASSUME NEW S, NEW s \in Seq(S), NEW i \in 1..(Len(s) + 1), NEW x \in S
    PROVE  \A k \in 1..(Len(s) + 1) :
              InsertAt(s, i, x)[k] = IF k < i THEN s[k] ELSE IF k = i THEN x ELSE s[k - 1]
<1> DEFINE front == SubSeq(s, 1, i - 1)
           back  == SubSeq(s, i, Len(s))
           r     == front \o <<x>> \o back
<1>1. /\ front \in Seq(S) /\ Len(front) = i - 1
      /\ \A k \in 1..(i - 1) : front[k] = s[k]
  OBVIOUS
<1>2. /\ back \in Seq(S) /\ Len(back) = Len(s) - i + 1
      /\ \A k \in 1..(Len(s) - i + 1) : back[k] = s[k + i - 1]
  OBVIOUS
<1> HIDE DEF front, back
<1>3. \A k \in 1..(Len(s) + 1) :
         r[k] = IF k < i THEN s[k] ELSE IF k = i THEN x ELSE s[k - 1]
  BY <1>1, <1>2
<1>4. r = InsertAt(s, i, x)
  BY DEF r, front, back, InsertAt
<1> HIDE DEF r
<1> QED
  BY <1>3, <1>4

LEMMA PlaceBesideLands ==
    ASSUME NEW strip \in Seq(Tabs), IsInjective(strip), NEW t \in Range(strip),
           NEW u \in Range(strip), t # u, NEW side \in Sides
    PROVE  IndexOf(PlaceBeside(strip, t, u, side), t)
              = IndexOf(PlaceBeside(strip, t, u, side), u) + (IF side = "left" THEN -1 ELSE 1)
<1> DEFINE from   == IndexOf(strip, t)
           at     == IndexOf(strip, u)
           target == at + (IF side = "left" THEN 0 ELSE 1)
           to     == IF from < target THEN target - 1 ELSE target
           rest   == RemoveAt(strip, from)
           placed == InsertAt(rest, to, t)
           beside == to + (IF side = "left" THEN 1 ELSE -1)
<1>1. /\ from \in 1..Len(strip) /\ strip[from] = t
      /\ at \in 1..Len(strip) /\ strip[at] = u
  BY IndexOfType
<1>2. Len(strip) \in Nat /\ t \in Tabs /\ from # at
  BY <1>1, RangeOfSeq
<1>3. /\ rest \in Seq(Tabs) /\ Len(rest) = Len(strip) - 1
      /\ \A k \in 1..(Len(strip) - 1) :
            rest[k] = IF k < from THEN strip[k] ELSE strip[k + 1]
  BY <1>1, RemoveAtFacts
<1>4. PlaceBeside(strip, t, u, side) = placed
  BY <1>1 DEF PlaceBeside, Reorder
<1>5. placed \in Seq(Tabs) /\ IsInjective(placed)
  BY <1>4, PlaceBesideFacts
<1> HIDE DEF from, at, rest
<1>6. to \in 1..(Len(rest) + 1) /\ Len(rest) \in Nat
  BY <1>1, <1>2, <1>3
<1>7. Len(placed) = Len(rest) + 1
  BY <1>2, <1>3, <1>6, InsertAtFacts
<1>8. \A k \in 1..(Len(rest) + 1) :
         placed[k] = IF k < to THEN rest[k] ELSE IF k = to THEN t ELSE rest[k - 1]
  <2> HIDE DEF to
  <2> QED
    BY <1>2, <1>3, <1>6, InsertAtPlaces
<1> HIDE DEF placed
<1>9. placed[to] = t
  BY <1>6, <1>8
<1>10. beside \in 1..(Len(rest) + 1) /\ placed[beside] = u
  <2>1. CASE side = "left" /\ from < at
    <3>1. to = at - 1 /\ beside = at /\ rest[at - 1] = u
      BY <1>1, <1>2, <1>3, <2>1
    <3> QED
      BY <1>1, <1>2, <1>3, <1>8, <2>1, <3>1
  <2>2. CASE side = "left" /\ from > at
    <3>1. to = at /\ beside = at + 1 /\ rest[at] = u
      BY <1>1, <1>2, <1>3, <2>2
    <3> QED
      BY <1>1, <1>2, <1>3, <1>8, <2>2, <3>1
  <2>3. CASE side # "left" /\ from < at
    <3>1. to = at /\ beside = at - 1 /\ rest[at - 1] = u
      BY <1>1, <1>2, <1>3, <2>3
    <3> QED
      BY <1>1, <1>2, <1>3, <1>8, <2>3, <3>1
  <2>4. CASE side # "left" /\ from > at
    <3>1. to = at + 1 /\ beside = at /\ rest[at] = u
      BY <1>1, <1>2, <1>3, <2>4
    <3> QED
      BY <1>1, <1>2, <1>3, <1>8, <2>4, <3>1
  <2> QED
    BY <1>1, <1>2, <2>1, <2>2, <2>3, <2>4
<1>11. IndexOf(placed, t) = to /\ IndexOf(placed, u) = beside
  <2> HIDE DEF to, beside
  <2> QED
    BY <1>5, <1>6, <1>7, <1>9, <1>10, IndexUnique
<1>12. to \in Int
  BY <1>6
<1> HIDE DEF to
<1> QED
  BY <1>4, <1>11, <1>12

\* Wherever a tab of a pane is dropped beside another, it lands next to it
\* on that side, from either direction, in a strip of any length (the drop
\* index of handleDrop in the tab bar, adjusted for the tab's own old place).
THEOREM DropsLandBeside == Spec => []DropLandsBeside
<1>1. BoardInv => DropLandsBeside
  <2> SUFFICES ASSUME BoardInv, NEW p \in PaneIds, NEW t \in Range(panes[p].tabs),
                      NEW u \in Range(panes[p].tabs), NEW side \in Sides, t # u
               PROVE  IndexOf(PlaceBeside(panes[p].tabs, t, u, side), t)
                         = IndexOf(PlaceBeside(panes[p].tabs, t, u, side), u)
                           + (IF side = "left" THEN -1 ELSE 1)
    BY DEF DropLandsBeside
  <2>1. panes[p].tabs \in Seq(Tabs) /\ IsInjective(panes[p].tabs)
    BY InvFacts, PaneFields DEF GoodPane
  <2> QED
    BY <2>1, PlaceBesideLands
<1> QED
  BY <1>1, BoardInvHolds, PTL

-----------------------------------------------------------------------------
(* Where the focus goes *)

FocusStays == activePaneId \in PaneIds => activePaneId' \in DOMAIN panes'

LEMMA RemoveFocus ==
    ASSUME BoardInv, NEW p, Len(order) > 1, RemovePane(p) PROVE FocusStays
<1>1. /\ panes' = Restrict(panes, DOMAIN panes \ {p}) /\ order' = Without(order, p)
      /\ activePaneId' = IF activePaneId \in Range(order') THEN activePaneId ELSE order'[1]
  BY DEF RemovePane, PaneIds
<1>2. Board(panes', order')
  BY <1>1, ShrinkBoard, InvFacts
<1>3. /\ order \in Seq(PaneIds) /\ Len(Without(order, p)) >= Len(order) - 1
      /\ Without(order, p) \in Seq(PaneIds)
  BY WithoutFacts, InvFacts DEF Board, PaneIds
<1>4. order'[1] \in Range(order')
  <2>1. Len(order) \in Nat /\ Len(order') \in Nat /\ 1 \in 1..Len(order')
    BY <1>1, <1>3
  <2> QED
    BY <1>1, <1>3, <2>1 DEF Range
<1> QED
  BY <1>1, <1>2, <1>4 DEF Board, FocusStays

LEMMA UpdateFocus ==
    ASSUME BoardInv, NEW p, NEW pane, panes' = [panes EXCEPT ![p] = pane],
           activePaneId' \in PaneIds \cup {activePaneId}
    PROVE  FocusStays
<1>1. DOMAIN panes' = PaneIds
  BY DEF PaneIds
<1> QED
  BY <1>1 DEF FocusStays

LEMMA EmptiedFocus ==
    ASSUME NEW from, NEW to \in PaneIds, from # to, NEW result, DOMAIN result = PaneIds,
           CloseIfEmptied(from, result), activePaneId' = to
    PROVE  FocusStays
<1>1. DOMAIN panes' = PaneIds \ {from} \/ DOMAIN panes' = PaneIds
  BY DEF CloseIfEmptied, Restrict
<1> QED
  BY <1>1 DEF FocusStays

LEMMA CloseTabFocus ==
    ASSUME BoardInv, NEW p \in PaneIds, NEW t \in Tabs, CloseTab(p, t) PROVE FocusStays
<1>1. CASE Len(panes[p].tabs) = 1 /\ Len(order) > 1
  BY <1>1, RemoveFocus DEF CloseTab
<1>2. CASE ~(Len(panes[p].tabs) = 1 /\ Len(order) > 1)
  BY <1>2, UpdateFocus DEF CloseTab
<1> QED
  BY <1>1, <1>2

LEMMA TabFocus ==
    ASSUME BoardInv, NEW p \in PaneIds, NEW t \in Tabs,
           \/ OpenTab(t, p) \/ SetActiveTab(p, t) \/ DropTabAtEnd(t, p)
           \/ CloseOtherTabs(p, t) \/ CloseTabsToLeft(p, t) \/ CloseTabsToRight(p, t)
    PROVE  FocusStays
<1>1. DOMAIN panes' = PaneIds /\ activePaneId' \in PaneIds \cup {activePaneId}
  BY DEF OpenTab, SetActiveTab, DropTabAtEnd, CloseOtherTabs, CloseTabsToLeft,
     CloseTabsToRight, PaneIds
<1> QED
  BY <1>1 DEF FocusStays

LEMMA MoveFocus ==
    ASSUME BoardInv, NEW from \in PaneIds, NEW to \in PaneIds, NEW t \in Tabs,
           \/ MoveTabToPane(t, from, to)
           \/ \E u \in Tabs, side \in Sides : DropTabOnTab(t, from, u, to, side)
    PROVE  FocusStays
<1>1. CASE MoveTabToPane(t, from, to)
  BY <1>1, MovedBoard, EmptiedFocus DEF MoveTabToPane
<1>2. ASSUME NEW u \in Tabs, NEW side \in Sides, DropTabOnTab(t, from, u, to, side)
      PROVE  FocusStays
  <2>1. CASE from = to
    <3>1. DOMAIN panes' = PaneIds /\ activePaneId' = activePaneId
      BY <1>2, <2>1 DEF DropTabOnTab, PaneIds
    <3> QED
      BY <3>1 DEF FocusStays
  <2>2. CASE from # to
    <3> DEFINE moved == MovedPanes(t, from, to)
    <3>1. DOMAIN moved = PaneIds
      BY <1>2, <2>2, MovedBoard DEF DropTabOnTab
    <3>2. /\ CloseIfEmptied(from, [moved EXCEPT ![to].tabs = PlaceBeside(@, t, u, side)])
          /\ activePaneId' = to
      BY <1>2, <2>2 DEF DropTabOnTab
    <3> HIDE DEF moved
    <3>3. DOMAIN [moved EXCEPT ![to].tabs = PlaceBeside(@, t, u, side)] = PaneIds
      BY <3>1
    <3> QED
      BY <2>2, <3>2, <3>3, EmptiedFocus
  <2> QED
    BY <2>1, <2>2
<1> QED
  BY <1>1, <1>2

LEMMA SplitFocus ==
    ASSUME BoardInv, NEW target \in PaneIds, NEW from \in PaneIds, NEW t \in Tabs,
           NEW side \in Sides, SplitPaneWith(target, side, t, from)
    PROVE  FocusStays
BY InvFacts DEF SplitPaneWith, FocusStays

\* The focus goes to a pane that is gone only by a click on the maximized pane
\* after that pane was closed: every close, move, drop and split leaves it on a
\* pane of the layout, whichever pane it removed (setActivePaneId checks nothing).
THEOREM FocusLostOnlyToAGhost == Spec => FocusLostOnlyToGhost
<1> DEFINE Holds == (activePaneId \in PaneIds /\ activePaneId' \notin DOMAIN panes')
                        => activePaneId' = maximizedPaneId
<1>1. ASSUME BoardInv, [Next]_vars PROVE Holds \/ UNCHANGED vars
  <2>1. CASE TabStep
    BY <1>1, <2>1, TabFocus, CloseTabFocus DEF TabStep, FocusStays
  <2>2. CASE DragStep
    <3>1. ASSUME NEW f \in Files, NEW u \in Tabs, NEW p \in PaneIds, NEW side \in Sides,
                 DropFileOnTab(f, u, p, side)
          PROVE  Holds
      <4>1. DOMAIN panes' = PaneIds /\ activePaneId' = p
        BY <3>1 DEF DropFileOnTab, PaneIds
      <4> QED
        BY <4>1
    <3> QED
      BY <1>1, <2>2, <3>1, MoveFocus, SplitFocus DEF DragStep, FocusStays
  <2>3. CASE PaneStep
    <3>1. CASE SplitActivePane
      BY <1>1, <3>1, InvFacts DEF SplitActivePane
    <3>2. CASE ClosePane
      BY <1>1, <3>2, RemoveFocus DEF ClosePane, FocusStays
    <3>3. CASE ToggleKeymapEditor
      BY <1>1, <3>3, BoardAssumption, TabFocus, CloseTabFocus DEF ToggleKeymapEditor, FocusStays
    <3>4. CASE ResetEditorState
      BY <3>4 DEF ResetEditorState
    <3>5. ASSUME NEW p \in PaneIds, CloseAllTabs(p) PROVE Holds
      BY <1>1, <3>5, RemoveFocus, UpdateFocus DEF CloseAllTabs, FocusStays
    <3>6. ASSUME NEW p \in PaneIds, NavigateBack(p) \/ NavigateForward(p) PROVE Holds
      BY <3>6 DEF NavigateBack, NavigateForward, PaneIds
    <3>7. ASSUME NEW p \in PaneRefs, SetActivePaneId(p) PROVE Holds
      BY <3>7 DEF SetActivePaneId, PaneRefs, PaneIds
    <3>8. ASSUME NEW p, ToggleMaximizePane(p) PROVE Holds
      BY <3>8 DEF ToggleMaximizePane, PaneIds
    <3>9. ASSUME NEW f, DeleteFile(f) PROVE Holds
      BY <3>9 DEF DeleteFile
    <3> QED
      BY <2>3, <3>1, <3>2, <3>3, <3>4, <3>5, <3>6, <3>7, <3>8, <3>9 DEF PaneStep
  <2> QED
    BY <1>1, <2>1, <2>2, <2>3 DEF Next
<1>2. BoardInv /\ [Next]_vars => [Holds]_vars
  BY <1>1
<1> QED
  BY <1>2, BoardInvHolds, PTL DEF Spec, FocusLostOnlyToGhost

-----------------------------------------------------------------------------
(* What empties a pane *)

NoneEmptied ==
    \A p \in PaneIds \cap DOMAIN panes' :
        panes[p].tabs # <<>> /\ panes'[p].tabs = <<>> => ~(Len(order') > 1)

\* A strip that still holds a tab is not empty.
LEMMA HoldsSome == ASSUME NEW s, NEW t \in Range(s) PROVE s # <<>>
BY DEF Range

LEMMA CloseInTabs ==
    ASSUME NEW pane, GoodPane(pane), NEW t \in Range(pane.tabs)
    PROVE  /\ Range(CloseIn(pane, t).tabs) = Range(pane.tabs) \ {t}
           /\ CloseIn(pane, t).tabs = <<>> => Len(pane.tabs) = 1
<1>1. pane \in PaneState /\ pane.tabs \in Seq(Tabs) /\ IsInjective(pane.tabs)
  BY PaneFields DEF GoodPane
<1>2. CloseIn(pane, t).tabs = Without(pane.tabs, t)
  BY <1>1 DEF CloseIn, PaneState
<1>3. /\ Without(pane.tabs, t) \in Seq(Tabs)
      /\ Len(Without(pane.tabs, t)) >= Len(pane.tabs) - 1
      /\ Range(Without(pane.tabs, t)) = Range(pane.tabs) \ {t}
  BY <1>1, WithoutFacts
<1>4. pane.tabs # <<>>
  BY HoldsSome
<1>5. ASSUME Without(pane.tabs, t) = <<>> PROVE Len(pane.tabs) = 1
  <2>1. PICK k \in Nat : k = Len(pane.tabs)
    BY <1>1
  <2>2. k # 0
    BY <1>1, <1>4, <2>1
  <2>3. 0 >= k - 1
    <3>1. Len(<<>>) = 0
      OBVIOUS
    <3> QED
      BY <1>3, <1>5, <2>1, <3>1
  <2> QED
    BY <2>1, <2>2, <2>3
<1> QED
  BY <1>2, <1>3, <1>5

LEMMA UpdateEmpties ==
    ASSUME BoardInv, NEW p \in PaneIds, NEW pane, panes' = [panes EXCEPT ![p] = pane],
           pane.tabs = <<>> => panes[p].tabs = <<>> \/ ~(Len(order') > 1)
    PROVE  NoneEmptied
BY InvFacts DEF NoneEmptied

LEMMA RemoveEmpties == ASSUME BoardInv, NEW p, RemovePane(p) PROVE NoneEmptied
BY DEF RemovePane, Restrict, NoneEmptied

LEMMA CloseTabEmpties ==
    ASSUME BoardInv, NEW p \in PaneIds, NEW t \in Tabs, CloseTab(p, t) PROVE NoneEmptied
<1>1. CASE Len(panes[p].tabs) = 1 /\ Len(order) > 1
  BY <1>1, RemoveEmpties DEF CloseTab
<1>2. CASE ~(Len(panes[p].tabs) = 1 /\ Len(order) > 1)
  <2>1. CloseIn(panes[p], t).tabs = <<>> => Len(panes[p].tabs) = 1
    BY CloseInTabs, InvFacts DEF CloseTab, HasTab
  <2>2. panes' = [panes EXCEPT ![p] = CloseIn(panes[p], t)] /\ order' = order
    BY <1>2 DEF CloseTab
  <2> QED
    BY <1>2, <2>1, <2>2, UpdateEmpties
<1> QED
  BY <1>1, <1>2

LEMMA OpenTabEmpties ==
    ASSUME BoardInv, NEW p \in PaneIds, NEW t \in Tabs, OpenTab(t, p) PROVE NoneEmptied
<1>1. PICK new : new = ShowTab(panes[p], t)
  OBVIOUS
<1>2. /\ GoodPane(panes[p]) /\ panes' = [panes EXCEPT ![p] = new]
      /\ Range(panes[p].tabs) \subseteq Range(new.tabs) /\ GoodPane(new)
  BY <1>1, ShowTabGood, InvFacts DEF OpenTab
<1>3. panes[p].tabs \in Seq(Tabs)
  BY <1>2, PaneFields DEF GoodPane
<1>4. new.tabs = <<>> => panes[p].tabs = <<>>
  <2>1. ASSUME panes[p].tabs # <<>> PROVE new.tabs # <<>>
    <3>1. Range(panes[p].tabs) # {}
      BY <1>3, <2>1, EmptyRange
    <3> QED
      BY <1>2, <3>1, HoldsSome
  <2> QED
    BY <2>1
<1> QED
  BY <1>2, <1>4, UpdateEmpties

LEMMA TabEmpties ==
    ASSUME BoardInv, NEW p \in PaneIds, NEW t \in Tabs,
           \/ SetActiveTab(p, t) \/ DropTabAtEnd(t, p)
           \/ CloseOtherTabs(p, t) \/ CloseTabsToLeft(p, t) \/ CloseTabsToRight(p, t)
    PROVE  NoneEmptied
<1> DEFINE s == panes[p].tabs
           i == IndexOf(s, t)
<1>1. /\ GoodPane(panes[p]) /\ panes[p] \in PaneState /\ t \in Range(s)
      /\ s \in Seq(Tabs) /\ IsInjective(s)
  BY InvFacts, PaneFields
     DEF GoodPane, HasTab, SetActiveTab, DropTabAtEnd, CloseOtherTabs, CloseTabsToLeft,
         CloseTabsToRight
<1>2. i \in 1..Len(s) /\ s[i] = t /\ 1 \in 1..Len(s) /\ Len(s) \in i..Len(s)
  BY <1>1, IndexOfType
<1> HIDE DEF i
<1>3. CASE SetActiveTab(p, t)
  <2>1. Show(panes[p], s, t).tabs = s
    BY <1>1 DEF Show
  <2> QED
    BY <1>3, <2>1, UpdateEmpties DEF SetActiveTab
<1>4. CASE DropTabAtEnd(t, p)
  <2> DEFINE new == [panes[p] EXCEPT !.tabs = Append(Without(s, t), t)]
  <2>1. Without(s, t) \in Seq(Tabs)
    BY <1>1, WithoutFacts
  <2>2. new.tabs = Append(Without(s, t), t)
    BY <1>1 DEF PaneState
  <2>3. new.tabs # <<>>
    BY <2>1, <2>2
  <2>4. panes' = [panes EXCEPT ![p] = new]
    BY <1>4 DEF DropTabAtEnd
  <2> HIDE DEF new
  <2> QED
    BY <2>3, <2>4, UpdateEmpties
<1>5. CASE CloseOtherTabs(p, t)
  <2>1. PaneOf(t).tabs # <<>>
    BY DEF PaneOf
  <2> QED
    BY <1>5, <2>1, UpdateEmpties DEF CloseOtherTabs
<1>6. ASSUME NEW m \in 1..Len(s), NEW n \in m..Len(s),
             panes' = [panes EXCEPT ![p] = KeepPart(panes[p], SubSeq(s, m, n), t)]
      PROVE  NoneEmptied
  <2>1. s[m] \in Range(SubSeq(s, m, n))
    BY <1>1, SubSeqFacts
  <2>2. SubSeq(s, m, n) # <<>>
    BY <2>1, HoldsSome
  <2>3. KeepPart(panes[p], SubSeq(s, m, n), t).tabs = SubSeq(s, m, n)
    BY <1>1 DEF KeepPart, PaneState
  <2> QED
    BY <1>6, <2>2, <2>3, UpdateEmpties
<1>7. CASE CloseTabsToLeft(p, t)
  BY <1>2, <1>6, <1>7 DEF CloseTabsToLeft, i
<1>8. CASE CloseTabsToRight(p, t)
  <2>1. i \in 1..Len(s) /\ 1 \in 1..Len(s)
    BY <1>2
  <2> QED
    BY <1>6, <1>8, <2>1 DEF CloseTabsToRight, i
<1> QED
  BY <1>3, <1>4, <1>5, <1>7, <1>8

\* Moving t: the pane it leaves loses it, the pane it comes to gets it unless the
\* cursor stands on t there, and no other pane's strip changes.
Excused(p, t) == AtCursor(panes[p], t) /\ ~HasTab(p, t)

LEMMA ShowTabTabs ==
    ASSUME BoardInv, NEW p \in PaneIds, NEW t \in Tabs
    PROVE  /\ Range(panes[p].tabs) \subseteq Range(ShowTab(panes[p], t).tabs)
           /\ t \in Range(ShowTab(panes[p], t).tabs) \/ Excused(p, t)
<1> DEFINE pane  == panes[p]
           strip == IF t \in Range(pane.tabs) THEN pane.tabs ELSE Append(pane.tabs, t)
<1>1. GoodPane(pane) /\ pane.tabs \in Seq(Tabs)
  BY InvFacts, PaneFields DEF GoodPane
<1>2. t \in Range(strip)
  BY <1>1, AppendFacts
<1>3. CASE AtCursor(pane, t)
  BY <1>1, <1>3, ShowTabGood DEF ShowTab, Show, Excused, HasTab
<1>4. CASE ~AtCursor(pane, t)
  BY <1>1, <1>2, <1>4, ShowTabGood DEF ShowTab, Show
<1> QED
  BY <1>3, <1>4

\* The panes of a move, with the strip of the pane t comes to perhaps reordered.
MoveResult(result, t, from, to) ==
    /\ Board(result, order) /\ DOMAIN result = PaneIds
    /\ Range(result[from].tabs) = Range(panes[from].tabs) \ {t}
    /\ Range(panes[to].tabs) \subseteq Range(result[to].tabs)
    /\ t \in Range(result[to].tabs) \/ Excused(to, t)
    /\ \A p \in PaneIds \ {from, to} : result[p] = panes[p]

LEMMA MovedResult ==
    ASSUME BoardInv, NEW from \in PaneIds, NEW to \in PaneIds, from # to,
           NEW t \in Tabs, HasTab(from, t)
    PROVE  MoveResult(MovedPanes(t, from, to), t, from, to)
<1> DEFINE closed == CloseIn(panes[from], t)
           shown  == ShowTab(panes[to], t)
<1>1. /\ Board(MovedPanes(t, from, to), order) /\ DOMAIN MovedPanes(t, from, to) = PaneIds
      /\ MovedPanes(t, from, to)[to] = shown
  BY MovedBoard
<1>2. Range(closed.tabs) = Range(panes[from].tabs) \ {t}
  BY CloseInTabs, InvFacts DEF HasTab
<1>3. Range(panes[to].tabs) \subseteq Range(shown.tabs) /\ (t \in Range(shown.tabs) \/ Excused(to, t))
  BY ShowTabTabs
<1> HIDE DEF closed, shown
<1>4. MovedPanes(t, from, to) = [panes EXCEPT ![from] = closed, ![to] = shown]
  BY DEF MovedPanes, closed, shown
<1>5. /\ MovedPanes(t, from, to)[from] = closed
      /\ \A p \in PaneIds \ {from, to} : MovedPanes(t, from, to)[p] = panes[p]
  BY <1>4, InvFacts
<1> QED
  BY <1>1, <1>2, <1>3, <1>5 DEF MoveResult

LEMMA PlacedResult ==
    ASSUME BoardInv, NEW from \in PaneIds, NEW to \in PaneIds, from # to, NEW t \in Tabs,
           NEW u \in Tabs, NEW side \in Sides, HasTab(from, t), HasTab(to, u)
    PROVE  MoveResult([MovedPanes(t, from, to) EXCEPT
                          ![to].tabs = PlaceBeside(@, t, u, side)], t, from, to)
<1>1. PICK moved : moved = MovedPanes(t, from, to)
  OBVIOUS
<1>2. MoveResult(moved, t, from, to)
  BY <1>1, MovedResult
<1> DEFINE pane   == moved[to]
           strip  == PlaceBeside(pane.tabs, t, u, side)
           new    == [pane EXCEPT !.tabs = strip]
           result == [moved EXCEPT ![to] = new]
<1>3. GoodPane(pane) /\ u \in Range(pane.tabs)
  BY <1>2 DEF MoveResult, Board, HasTab
<1>4. pane \in PaneState /\ pane.tabs \in Seq(Tabs) /\ IsInjective(pane.tabs)
  BY <1>3, PaneFields DEF GoodPane
<1>5. Range(strip) = Range(pane.tabs) /\ GoodPane(new)
  BY <1>3, <1>4, PlaceBesideFacts, PlacedGood
<1>6. new.tabs = strip
  BY <1>4 DEF PaneState
<1> HIDE DEF new, strip
<1>7. Board(result, order) /\ DOMAIN result = PaneIds
  BY <1>2, <1>5, UpdateBoard DEF MoveResult
<1>8. result[to] = new /\ \A p \in PaneIds \ {to} : result[p] = moved[p]
  BY <1>2 DEF MoveResult
<1> HIDE DEF result
<1>9. MoveResult(result, t, from, to)
  BY <1>2, <1>5, <1>6, <1>7, <1>8 DEF MoveResult
<1>10. result = [moved EXCEPT ![to].tabs = PlaceBeside(@, t, u, side)]
  BY <1>2 DEF result, new, strip, MoveResult
<1> QED
  BY <1>1, <1>9, <1>10

LEMMA MovedEmpties ==
    ASSUME BoardInv, NEW from \in PaneIds, NEW to \in PaneIds, NEW t \in Tabs,
           NEW result, MoveResult(result, t, from, to), CloseIfEmptied(from, result)
    PROVE  NoneEmptied
<1>1. ASSUME NEW p \in PaneIds, p # from, panes[p].tabs # <<>> PROVE result[p].tabs # <<>>
  <2>1. panes[p].tabs \in Seq(Tabs)
    BY InvFacts, PaneFields DEF GoodPane
  <2>2. Range(panes[p].tabs) # {}
    BY <1>1, <2>1, EmptyRange
  <2>3. Range(panes[p].tabs) \subseteq Range(result[p].tabs)
    BY <1>1 DEF MoveResult
  <2> QED
    BY <2>2, <2>3, HoldsSome
<1>2. CASE result[from].tabs = <<>> /\ Len(order) > 1
  BY <1>1, <1>2 DEF CloseIfEmptied, Restrict, MoveResult, NoneEmptied
<1>3. CASE ~(result[from].tabs = <<>> /\ Len(order) > 1)
  BY <1>1, <1>3 DEF CloseIfEmptied, MoveResult, NoneEmptied
<1> QED
  BY <1>2, <1>3

LEMMA DropFileTabs ==
    ASSUME BoardInv, NEW p \in PaneIds, NEW f \in Tabs, NEW u \in Tabs, NEW side \in Sides,
           DropFileOnTab(f, u, p, side)
    PROVE  \E pane : panes' = [panes EXCEPT ![p] = pane] /\ pane.tabs # <<>>
                     /\ Range(panes[p].tabs) \subseteq Range(pane.tabs)
<1> DEFINE shown == ShowTab(panes[p], f)
           new   == [shown EXCEPT !.tabs = PlaceBeside(shown.tabs, f, u, side)]
<1>1. panes' = [panes EXCEPT ![p] = new] /\ u \in Range(panes[p].tabs)
  BY DEF DropFileOnTab, HasTab
<1>2. GoodPane(shown) /\ Range(panes[p].tabs) \subseteq Range(shown.tabs)
  BY ShowTabGood, InvFacts
<1> HIDE DEF shown
<1>3. shown \in PaneState /\ shown.tabs \in Seq(Tabs) /\ IsInjective(shown.tabs)
  BY <1>2, PaneFields DEF GoodPane
<1>4. new.tabs = PlaceBeside(shown.tabs, f, u, side)
  BY <1>3 DEF PaneState
<1>5. Range(new.tabs) = Range(shown.tabs)
  BY <1>1, <1>2, <1>3, <1>4, PlaceBesideFacts
<1> HIDE DEF new
<1> QED
  BY <1>1, <1>2, <1>5, HoldsSome

LEMMA RangesKept ==
    ASSUME NEW p \in PaneIds, NEW pane, panes \in [PaneIds -> PaneState],
           panes' = [panes EXCEPT ![p] = pane], Range(panes[p].tabs) \subseteq Range(pane.tabs)
    PROVE  OpenTabs \subseteq OpenTabs'
<1>1. DOMAIN panes' = PaneIds /\ \A q \in PaneIds : Range(panes[q].tabs) \subseteq Range(panes'[q].tabs)
  OBVIOUS
<1> QED
  BY <1>1 DEF OpenTabs, PaneIds

\* Of a split, seen as what becomes of each pane there was.
LEMMA SplitTabs ==
    ASSUME BoardInv, NEW target \in PaneIds, NEW from \in PaneIds, NEW t \in Tabs,
           NEW side \in Sides, SplitPaneWith(target, side, t, from)
    PROVE  /\ nextPaneId \in DOMAIN panes' /\ panes'[nextPaneId] = PaneOf(t)
           /\ \A p \in PaneIds \cap DOMAIN panes' :
                 Range(panes[p].tabs) \ {t} \subseteq Range(panes'[p].tabs)
           /\ \A p \in PaneIds \ DOMAIN panes' : Range(panes[p].tabs) \subseteq {t}
           /\ NoneEmptied
<1> DEFINE n    == nextPaneId
           left == IF from = target THEN panes
                   ELSE [panes EXCEPT ![from] = CloseIn(panes[from], t)]
           gone == {p \in {from} : left[p].tabs = <<>>}
<1>1. /\ panes' = [p \in (PaneIds \cup {n}) \ gone |-> IF p = n THEN PaneOf(t) ELSE left[p]]
      /\ HasTab(from, t)
  BY DEF SplitPaneWith
<1>2. n \notin PaneIds /\ panes \in [PaneIds -> PaneState] /\ from # n
  BY InvFacts
<1>3. \A p \in PaneIds : p # from => left[p] = panes[p]
  BY <1>2
<1>4. /\ Range(panes[from].tabs) \ {t} \subseteq Range(left[from].tabs)
      /\ from \in gone => Range(panes[from].tabs) \subseteq {t}
  <2>1. CASE from = target
    <3>1. left[from] = panes[from] /\ panes[from].tabs # <<>>
      BY <1>1, <2>1, HoldsSome DEF HasTab
    <3> QED
      BY <3>1
  <2>2. CASE from # target
    <3>1. left[from] = CloseIn(panes[from], t)
      BY <1>2, <2>2
    <3>2. Range(CloseIn(panes[from], t).tabs) = Range(panes[from].tabs) \ {t}
      BY <1>1, CloseInTabs, InvFacts DEF HasTab
    <3>3. left[from].tabs = <<>> => Range(left[from].tabs) = {}
      BY DEF Range
    <3> QED
      BY <3>1, <3>2, <3>3
  <2> QED
    BY <2>1, <2>2
<1> HIDE DEF left
<1>5. n \in DOMAIN panes' /\ panes'[n] = PaneOf(t)
  BY <1>1, <1>2
<1>6. ASSUME NEW p \in PaneIds, p \notin DOMAIN panes' PROVE Range(panes[p].tabs) \subseteq {t}
  BY <1>1, <1>4, <1>6
<1>7. ASSUME NEW p \in PaneIds, p \in DOMAIN panes'
      PROVE  /\ Range(panes[p].tabs) \ {t} \subseteq Range(panes'[p].tabs)
             /\ panes[p].tabs # <<>> => panes'[p].tabs # <<>>
  <2>1. panes'[p] = left[p] /\ p \notin gone
    BY <1>1, <1>2, <1>7
  <2>2. CASE p = from
    BY <1>4, <2>1, <2>2
  <2>3. CASE p # from
    BY <1>3, <2>1, <2>3
  <2> QED
    BY <2>2, <2>3
<1>8. NoneEmptied
  BY <1>7 DEF NoneEmptied
<1> QED
  BY <1>5, <1>6, <1>7, <1>8

LEMMA PaneOfTabs == ASSUME NEW t PROVE PaneOf(t).tabs = <<t>> /\ Range(PaneOf(t).tabs) = {t}
<1>1. PaneOf(t).tabs = <<t>> /\ DOMAIN <<t>> = {1} /\ <<t>>[1] = t
  BY DEF PaneOf
<1> QED
  BY <1>1 DEF Range

LEMMA JumpTabs ==
    ASSUME BoardInv, NEW p \in PaneIds, NEW i, panes' = [panes EXCEPT ![p] = GoTo(panes[p], i)]
    PROVE  NoneEmptied
<1>1. GoTo(panes[p], i).tabs = panes[p].tabs
  BY InvFacts DEF GoTo, PaneState
<1> QED
  BY <1>1, UpdateEmpties

\* Moving, closing or splitting off the last tab of a pane beside others closes
\* the pane, whichever handler does it; only the deletion of a file leaves an
\* empty pane beside others (deleteNode keeps it).
THEOREM OnlyDeletionEmpties == Spec => OnlyDeletionEmptiesAPane
<1> DEFINE Emptied == \E p \in PaneIds : /\ p \in DOMAIN panes'
                                         /\ panes[p].tabs # <<>>
                                         /\ panes'[p].tabs = <<>>
                                         /\ Len(order') > 1
           Holds == Emptied => \E f \in Files : DeleteFile(f)
<1>1. ASSUME NoneEmptied PROVE Holds
  BY <1>1 DEF NoneEmptied
<1>2. ASSUME BoardInv, [Next]_vars PROVE Holds \/ UNCHANGED vars
  <2>1. CASE TabStep
    <3>1. NoneEmptied
      BY <1>2, <2>1, OpenTabEmpties, CloseTabEmpties, TabEmpties DEF TabStep
    <3> QED
      BY <1>1, <3>1
  <2>2. CASE DragStep
    <3>1. ASSUME NEW p \in PaneIds, NEW q \in PaneIds, NEW t \in Tabs, MoveTabToPane(t, p, q)
          PROVE  NoneEmptied
      BY <1>2, <3>1, MovedResult, MovedEmpties DEF MoveTabToPane
    <3>2. ASSUME NEW p \in PaneIds, NEW q \in PaneIds, NEW t \in Tabs, NEW side \in Sides,
                 SplitPaneWith(q, side, t, p)
          PROVE  NoneEmptied
      BY <1>2, <3>2, SplitTabs
    <3>3. ASSUME NEW p \in PaneIds, NEW q \in PaneIds, NEW t \in Tabs, NEW u \in Tabs,
                 NEW side \in Sides, DropTabOnTab(t, p, u, q, side)
          PROVE  NoneEmptied
      <4>1. CASE p = q
        <5> DEFINE new == [panes[q] EXCEPT !.tabs = PlaceBeside(panes[q].tabs, t, u, side)]
        <5>1. panes' = [panes EXCEPT ![q] = new] /\ u \in Range(panes[q].tabs)
          BY <3>3, <4>1 DEF DropTabOnTab, HasTab
        <5>2. /\ panes[q] \in PaneState /\ panes[q].tabs \in Seq(Tabs)
              /\ IsInjective(panes[q].tabs)
          BY <1>2, InvFacts, PaneFields DEF GoodPane
        <5>3. new.tabs = PlaceBeside(panes[q].tabs, t, u, side)
          BY <5>2 DEF PaneState
        <5>4. new.tabs # <<>>
          BY <5>1, <5>2, <5>3, PlaceBesideFacts, HoldsSome
        <5> HIDE DEF new
        <5> QED
          BY <1>2, <5>1, <5>4, UpdateEmpties
      <4>2. CASE p # q
        BY <1>2, <3>3, <4>2, PlacedResult, MovedEmpties DEF DropTabOnTab
      <4> QED
        BY <4>1, <4>2
    <3>4. ASSUME NEW f \in Files, NEW u \in Tabs, NEW p \in PaneIds, NEW side \in Sides,
                 DropFileOnTab(f, u, p, side)
          PROVE  NoneEmptied
      BY <1>2, <3>4, DropFileTabs, UpdateEmpties DEF Files
    <3> QED
      BY <1>1, <2>2, <3>1, <3>2, <3>3, <3>4 DEF DragStep
  <2>3. CASE PaneStep
    <3>1. CASE SplitActivePane
      <4>1. NoneEmptied
        BY <1>2, <3>1, InvFacts DEF SplitActivePane, NoneEmptied
      <4> QED
        BY <1>1, <4>1
    <3>2. CASE ClosePane
      BY <1>1, <1>2, <3>2, RemoveEmpties DEF ClosePane
    <3>3. CASE ToggleKeymapEditor
      BY <1>1, <1>2, <3>3, BoardAssumption, OpenTabEmpties, CloseTabEmpties DEF ToggleKeymapEditor
    <3>4. CASE ResetEditorState
      <4>1. Len(order') = 1
        BY <3>4 DEF ResetEditorState
      <4> QED
        BY <4>1
    <3>5. ASSUME NEW p \in PaneIds, CloseAllTabs(p) PROVE Holds
      <4>1. CASE Len(order) > 1
        BY <1>1, <1>2, <3>5, <4>1, RemoveEmpties DEF CloseAllTabs
      <4>2. CASE ~(Len(order) > 1)
        <5>1. order' = order
          BY <3>5, <4>2 DEF CloseAllTabs
        <5> QED
          BY <4>2, <5>1
      <4> QED
        BY <4>1, <4>2
    <3>6. ASSUME NEW p \in PaneIds, NavigateBack(p) \/ NavigateForward(p) PROVE Holds
      BY <1>1, <1>2, <3>6, JumpTabs DEF NavigateBack, NavigateForward
    <3>7. ASSUME NEW p, SetActivePaneId(p) \/ ToggleMaximizePane(p) PROVE Holds
      BY <3>7 DEF SetActivePaneId, ToggleMaximizePane
    <3>8. ASSUME NEW f \in Files, DeleteFile(f) PROVE Holds
      BY <3>8
    <3> QED
      BY <2>3, <3>1, <3>2, <3>3, <3>4, <3>5, <3>6, <3>7, <3>8 DEF PaneStep
  <2> QED
    BY <1>2, <2>1, <2>2, <2>3 DEF Next
<1>3. BoardInv /\ [Next]_vars => [Holds]_vars
  BY <1>2
<1> QED
  BY <1>3, BoardInvHolds, PTL DEF Spec, OnlyDeletionEmptiesAPane

-----------------------------------------------------------------------------
(* What loses a tab *)

\* Every tab stays open but one on which a cursor stands in a pane without it.
TabsKept == \A t \in OpenTabs \ OpenTabs' : \E p \in PaneIds : Excused(p, t)

LEMMA MovedTabs ==
    ASSUME BoardInv, NEW from \in PaneIds, NEW to \in PaneIds, from # to, NEW t \in Tabs,
           NEW result, MoveResult(result, t, from, to), CloseIfEmptied(from, result)
    PROVE  TabsKept
<1>1. ASSUME NEW p \in PaneIds, NEW x \in Range(result[p].tabs)
      PROVE  p \in DOMAIN panes' /\ panes'[p] = result[p]
  <2>1. result[p].tabs # <<>>
    BY <1>1, HoldsSome
  <2> QED
    BY <2>1 DEF CloseIfEmptied, Restrict, MoveResult
<1>2. ASSUME NEW p \in PaneIds, NEW x \in Range(result[p].tabs) PROVE x \in OpenTabs'
  BY <1>1, <1>2 DEF OpenTabs, PaneIds
<1>3. ASSUME NEW p \in PaneIds, NEW x \in Range(panes[p].tabs)
      PROVE  x \in OpenTabs' \/ (x = t /\ Excused(to, t))
  <2>1. x \in Range(result[p].tabs) \/ (p = from /\ x = t)
    BY <1>3 DEF MoveResult
  <2>2. t \in Range(result[to].tabs) \/ Excused(to, t)
    BY DEF MoveResult
  <2> QED
    BY <1>2, <1>3, <2>1, <2>2
<1>4. OpenTabs = UNION {Range(panes[p].tabs) : p \in PaneIds}
  BY DEF OpenTabs
<1> QED
  BY <1>3, <1>4 DEF TabsKept

LEMMA SplitKeepsTabs ==
    ASSUME BoardInv, NEW target \in PaneIds, NEW from \in PaneIds, NEW t \in Tabs,
           NEW side \in Sides, SplitPaneWith(target, side, t, from)
    PROVE  TabsKept
<1>1. /\ nextPaneId \in DOMAIN panes' /\ panes'[nextPaneId] = PaneOf(t)
      /\ \A p \in PaneIds \cap DOMAIN panes' : Range(panes[p].tabs) \ {t} \subseteq Range(panes'[p].tabs)
      /\ \A p \in PaneIds \ DOMAIN panes' : Range(panes[p].tabs) \subseteq {t}
  BY SplitTabs
<1>2. t \in OpenTabs'
  BY <1>1, PaneOfTabs DEF OpenTabs, PaneIds
<1>3. ASSUME NEW p \in PaneIds, NEW x \in Range(panes[p].tabs) PROVE x \in OpenTabs'
  BY <1>1, <1>2, <1>3 DEF OpenTabs, PaneIds
<1> QED
  BY <1>3 DEF TabsKept, OpenTabs

\* A move, a drop or a split loses a tab only where pushHistory returns the
\* whole pane: the cursor of a pane that does not hold the tab stands on it.
\* Else every tab is still in some pane, also when the pane it left is closed.
THEOREM OnlyStaleCursors == Spec => OnlyStaleCursorLosesTabs
<1> DEFINE Holds == \/ \A t \in OpenTabs \ OpenTabs' :
                          \E p \in PaneIds : AtCursor(panes[p], t) /\ ~HasTab(p, t)
                    \/ ~(DragStep \/ SplitActivePane)
<1>1. ASSUME TabsKept PROVE Holds
  BY <1>1 DEF TabsKept, Excused
<1>2. ASSUME OpenTabs \subseteq OpenTabs' PROVE TabsKept
  BY <1>2 DEF TabsKept
<1>3. ASSUME BoardInv, DragStep PROVE TabsKept
  <2>1. ASSUME NEW p \in PaneIds, NEW q \in PaneIds, NEW t \in Tabs, MoveTabToPane(t, p, q)
        PROVE  TabsKept
    BY <1>3, <2>1, MovedResult, MovedTabs DEF MoveTabToPane
  <2>2. ASSUME NEW p \in PaneIds, NEW q \in PaneIds, NEW t \in Tabs, NEW side \in Sides,
               SplitPaneWith(q, side, t, p)
        PROVE  TabsKept
    BY <1>3, <2>2, SplitKeepsTabs
  <2>3. ASSUME NEW p \in PaneIds, NEW q \in PaneIds, NEW t \in Tabs, NEW u \in Tabs,
               NEW side \in Sides, DropTabOnTab(t, p, u, q, side)
        PROVE  TabsKept
    <3>1. CASE p = q
      <4> DEFINE new == [panes[q] EXCEPT !.tabs = PlaceBeside(panes[q].tabs, t, u, side)]
      <4>1. panes' = [panes EXCEPT ![q] = new] /\ u \in Range(panes[q].tabs)
        BY <2>3, <3>1 DEF DropTabOnTab, HasTab
      <4>2. /\ panes[q] \in PaneState /\ panes[q].tabs \in Seq(Tabs)
            /\ IsInjective(panes[q].tabs)
        BY <1>3, InvFacts, PaneFields DEF GoodPane
      <4>3. new.tabs = PlaceBeside(panes[q].tabs, t, u, side)
        BY <4>2 DEF PaneState
      <4>4. Range(new.tabs) = Range(panes[q].tabs)
        BY <4>1, <4>2, <4>3, PlaceBesideFacts
      <4> HIDE DEF new
      <4> QED
        BY <1>2, <1>3, <4>1, <4>4, RangesKept, InvFacts
    <3>2. CASE p # q
      BY <1>3, <2>3, <3>2, PlacedResult, MovedTabs DEF DropTabOnTab
    <3> QED
      BY <3>1, <3>2
  <2>4. ASSUME NEW f \in Files, NEW u \in Tabs, NEW p \in PaneIds, NEW side \in Sides,
               DropFileOnTab(f, u, p, side)
        PROVE  TabsKept
    BY <1>2, <1>3, <2>4, DropFileTabs, RangesKept, InvFacts DEF Files
  <2> QED
    BY <1>3, <2>1, <2>2, <2>3, <2>4 DEF DragStep
<1>4. ASSUME BoardInv, SplitActivePane PROVE TabsKept
  <2>1. /\ DOMAIN panes' = PaneIds \cup {nextPaneId}
        /\ \A p \in PaneIds : panes'[p] = panes[p]
    BY <1>4, InvFacts DEF SplitActivePane
  <2>2. OpenTabs \subseteq OpenTabs'
    BY <2>1 DEF OpenTabs, PaneIds
  <2> QED
    BY <1>2, <2>2
<1>5. BoardInv /\ [Next]_vars => [Holds]_vars
  BY <1>1, <1>3, <1>4
<1> QED
  BY <1>5, BoardInvHolds, PTL DEF Spec, OnlyStaleCursorLosesTabs

-----------------------------------------------------------------------------
(* The tree of SplitLayout.  Its leaves, read left to right, are the board's *)
(* sequence of panes: taking a leaf out drops one element of the sequence,   *)
(* putting one in gives two elements in the place of one, and splicing       *)
(* changes none.  The inductions are over a set, of numbers or of sequences, *)
(* that has the first element and with each element the next.                *)

LEMMA LeastOf ==
    ASSUME NEW T, T \subseteq Nat, T # {}
    PROVE  \E n \in T : \A m \in T : n <= m
<1>1. IsWellFoundedOn(OpToRel(<, Nat), Nat)
  BY NatLessThanWellFounded, Zenon
<1>2. PICK n \in T : \A m \in T : <<m, n>> \notin OpToRel(<, Nat)
  BY <1>1, WFMin, Zenon
<1>3. \A m \in T : ~(m < n)
  BY <1>2 DEF OpToRel
<1> QED
  BY <1>3

\* Induction on numbers, with the set T of those that have the property.
LEMMA Induct ==
    ASSUME NEW T, 0 \in T, \A n \in Nat : n \in T => n + 1 \in T
    PROVE  Nat \subseteq T
<1>1. ASSUME Nat \ T # {} PROVE FALSE
  <2>1. PICK n \in Nat \ T : \A m \in Nat \ T : n <= m
    BY <1>1, LeastOf
  <2>2. n # 0 /\ n - 1 \in Nat
    BY <2>1
  <2>3. n - 1 \in T
    BY <2>1, <2>2
  <2> QED
    BY <2>1, <2>2, <2>3
<1> QED
  BY <1>1

\* Induction on sequences.
LEMMA SeqInduct ==
    ASSUME NEW S, NEW T, <<>> \in T,
           \A s \in Seq(S), x \in S : s \in T => Append(s, x) \in T
    PROVE  Seq(S) \subseteq T
<1> DEFINE L == {n \in Nat : \A s \in Seq(S) : Len(s) = n => s \in T}
<1>1. 0 \in L
  <2>1. \A s \in Seq(S) : Len(s) = 0 => s = <<>>
    OBVIOUS
  <2> QED
    BY <2>1
<1>2. ASSUME NEW n \in Nat, n \in L PROVE n + 1 \in L
  <2> SUFFICES ASSUME NEW s \in Seq(S), Len(s) = n + 1 PROVE s \in T
    OBVIOUS
  <2> DEFINE f == SubSeq(s, 1, n)
  <2>1. f \in Seq(S) /\ Len(f) = n /\ \A i \in 1 .. n : f[i] = s[i]
    OBVIOUS
  <2>2. s[n + 1] \in S
    BY ElementOfSeq
  <2>3. s = Append(f, s[n + 1])
    <3> HIDE DEF f
    <3>1. Append(f, s[n + 1]) \in Seq(S) /\ Len(Append(f, s[n + 1])) = n + 1
      BY <2>1, <2>2
    <3>2. \A i \in 1 .. n + 1 : s[i] = Append(f, s[n + 1])[i]
      BY <2>1, <2>2
    <3> QED
      BY <3>1, <3>2, SeqEqual
  <2>4. f \in T
    BY <1>2, <2>1
  <2> HIDE DEF f
  <2> QED
    BY <2>1, <2>2, <2>3, <2>4
<1>3. Nat \subseteq L
  <2> HIDE DEF L
  <2> QED
    BY <1>1, <1>2, Induct
<1> QED
  <2> SUFFICES ASSUME NEW s \in Seq(S) PROVE s \in T
    OBVIOUS
  <2>1. Len(s) \in Nat
    OBVIOUS
  <2> QED
    BY <1>3, <2>1

-----------------------------------------------------------------------------
(* Flattening                                                              *)

\* The prefixes of a flattened sequence.
IsFlat(f, ss, n) ==
    f = [i \in 1 .. n |-> IF i = 1 THEN ss[i] ELSE f[i - 1] \o ss[i]]

LEMMA FlatExists ==
    ASSUME NEW ss, NEW k \in Nat
    PROVE  \E f : IsFlat(f, ss, k)
<1> DEFINE T == {n \in Nat : \E f : IsFlat(f, ss, n)}
<1>1. 0 \in T
  <2>1. IsFlat([i \in 1 .. 0 |-> 0], ss, 0)
    BY DEF IsFlat
  <2> QED
    BY <2>1
<1>2. ASSUME NEW n \in Nat, n \in T PROVE n + 1 \in T
  <2>1. PICK f : IsFlat(f, ss, n)
    BY <1>2
  <2> DEFINE g == [i \in 1 .. n + 1 |->
                      IF i <= n THEN f[i]
                      ELSE IF i = 1 THEN ss[i] ELSE f[n] \o ss[i]]
  <2>2. IsFlat(g, ss, n + 1)
    <3>1. \A i \in 1 .. n : f[i] = IF i = 1 THEN ss[i] ELSE f[i - 1] \o ss[i]
      BY <2>1 DEF IsFlat
    <3> SUFFICES ASSUME NEW i \in 1 .. n + 1
                 PROVE  g[i] = IF i = 1 THEN ss[i] ELSE g[i - 1] \o ss[i]
      BY Zenon DEF IsFlat
    <3>2. CASE i <= n
      BY <3>1, <3>2
    <3>3. CASE i = n + 1
      BY <3>3
    <3> QED
      BY <3>2, <3>3
  <2> QED
    BY <2>2
<1>3. Nat \subseteq T
  <2> HIDE DEF T
  <2> QED
    BY <1>1, <1>2, Induct
<1> QED
  BY <1>3

\* FlattenSeq puts one sequence behind the other.
LEMMA FlattenFrom ==
    ASSUME NEW S, NEW ss \in Seq(Seq(S))
    PROVE  \E f \in [0 .. Len(ss) -> Seq(S)] :
              /\ f[0] = <<>> /\ FlattenSeq(ss) = f[Len(ss)]
              /\ \A i \in 1 .. Len(ss) : f[i] = f[i - 1] \o ss[i]
<1> DEFINE n == Len(ss)
<1>0. n \in Nat /\ \A i \in 1 .. n : ss[i] \in Seq(S)
  BY LenProperties, ElementOfSeq
<1>1. CASE n = 0
  <2>1. ss = <<>> /\ FlattenSeq(ss) = <<>>
    BY <1>1 DEF FlattenSeq
  <2> DEFINE f == [i \in 0 .. 0 |-> <<>>]
  <2>2. f \in [0 .. n -> Seq(S)] /\ f[0] = <<>>
    BY <1>1
  <2>3. FlattenSeq(ss) = f[n] /\ \A i \in 1 .. n : f[i] = f[i - 1] \o ss[i]
    BY <1>1, <2>1, <2>2
  <2> HIDE DEF f
  <2> QED
    BY <2>2, <2>3
<1>2. CASE n # 0
  <2> DEFINE f == CHOOSE g : IsFlat(g, ss, n)
  <2>1. \E g : IsFlat(g, ss, n)
    BY <1>0, FlatExists
  <2>2. IsFlat(f, ss, n)
    BY <2>1, Zenon
  <2>3. FlattenSeq(ss) = f[n]
    BY <1>2, Zenon DEF FlattenSeq, IsFlat
  <2> DEFINE g == [i \in 0 .. n |-> IF i = 0 THEN <<>> ELSE f[i]]
  <2> HIDE DEF f, n
  <2>4. \A i \in 1 .. n : f[i] = IF i = 1 THEN ss[i] ELSE f[i - 1] \o ss[i]
    BY <2>2 DEF IsFlat
  <2>5. ASSUME NEW i \in 1 .. n PROVE g[i] = g[i - 1] \o ss[i]
    <3>1. CASE i = 1
      <4>1. ss[1] \in Seq(S) /\ g[0] = <<>> /\ g[1] = ss[1]
        BY <1>0, <2>4, <3>1
      <4>2. <<>> \o ss[1] = ss[1]
        BY <4>1, ConcatEmptySeq
      <4>3. i - 1 = 0
        BY <3>1
      <4> HIDE DEF g
      <4>4. g[1] = g[0] \o ss[1]
        BY <4>1, <4>2
      <4> QED
        BY <3>1, <4>3, <4>4
    <3>2. CASE i # 1
      <4>1. f[i] = f[i - 1] \o ss[i]
        BY <2>4, <3>2
      <4>2. g[i] = f[i] /\ g[i - 1] = f[i - 1]
        BY <1>0, <3>2
      <4> HIDE DEF g
      <4> QED
        BY <4>1, <4>2
    <3> QED
      BY <3>1, <3>2
  <2> DEFINE T == {i \in Nat : i <= n => g[i] \in Seq(S)}
  <2>6. 0 \in T
    BY <1>0
  <2>7. ASSUME NEW i \in Nat, i \in T PROVE i + 1 \in T
    <3> SUFFICES ASSUME i + 1 <= n PROVE g[i + 1] \in Seq(S)
      OBVIOUS
    <3>1. g[i + 1] = g[i] \o ss[i + 1] /\ ss[i + 1] \in Seq(S) /\ g[i] \in Seq(S)
      <4>1. i + 1 \in 1 .. n /\ i <= n /\ (i + 1) - 1 = i
        BY <1>0
      <4>2. g[i] \in Seq(S)
        BY <2>7, <4>1
      <4> HIDE DEF g
      <4>3. g[i + 1] = g[(i + 1) - 1] \o ss[i + 1]
        BY <2>5, <4>1
      <4> QED
        BY <1>0, <4>1, <4>2, <4>3
    <3> HIDE DEF g
    <3> QED
      BY <3>1
  <2>8. Nat \subseteq T
    <3> HIDE DEF T
    <3> QED
      BY <2>6, <2>7, Induct
  <2>9. g \in [0 .. n -> Seq(S)]
    <3>1. ASSUME NEW i \in 0 .. n PROVE g[i] \in Seq(S)
      <4>1. i \in Nat /\ i <= n
        BY <1>0
      <4> HIDE DEF g
      <4> QED
        BY <2>8, <4>1
    <3> QED
      BY <3>1
  <2>10. g[0] = <<>> /\ g[n] = f[n]
    BY <1>0, <1>2
  <2> HIDE DEF g
  <2> QED
    BY <2>3, <2>5, <2>9, <2>10 DEF n
<1> QED
  BY <1>1, <1>2

\* What flattening gives, one sequence at a time.
LEMMA FlattenBy ==
    ASSUME NEW S, NEW ss \in Seq(Seq(S)), NEW g, g[0] = <<>>,
           \A i \in 1 .. Len(ss) : g[i] = g[i - 1] \o ss[i]
    PROVE  FlattenSeq(ss) = g[Len(ss)]
<1>1. PICK f \in [0 .. Len(ss) -> Seq(S)] :
          /\ f[0] = <<>> /\ FlattenSeq(ss) = f[Len(ss)]
          /\ \A i \in 1 .. Len(ss) : f[i] = f[i - 1] \o ss[i]
  BY FlattenFrom
<1> DEFINE T == {i \in Nat : i <= Len(ss) => f[i] = g[i]}
<1>0. Len(ss) \in Nat
  OBVIOUS
<1>2. 0 \in T
  BY <1>1
<1>3. ASSUME NEW i \in Nat, i \in T PROVE i + 1 \in T
  <2> SUFFICES ASSUME i + 1 <= Len(ss) PROVE f[i + 1] = g[i + 1]
    OBVIOUS
  <2>1. i + 1 \in 1 .. Len(ss) /\ (i + 1) - 1 = i /\ f[i] = g[i]
    BY <1>0, <1>3
  <2>2. f[i + 1] = f[(i + 1) - 1] \o ss[i + 1] /\ g[i + 1] = g[(i + 1) - 1] \o ss[i + 1]
    BY <1>1, <2>1
  <2> QED
    BY <2>1, <2>2
<1>4. Nat \subseteq T
  <2> HIDE DEF T
  <2> QED
    BY <1>2, <1>3, Induct
<1> QED
  BY <1>0, <1>1, <1>4

LEMMA FlattenType ==
    ASSUME NEW S, NEW ss \in Seq(Seq(S))
    PROVE  FlattenSeq(ss) \in Seq(S)
<1>1. PICK f \in [0 .. Len(ss) -> Seq(S)] : FlattenSeq(ss) = f[Len(ss)]
  BY FlattenFrom
<1>2. Len(ss) \in 0 .. Len(ss)
  OBVIOUS
<1> QED
  BY <1>1, <1>2

LEMMA FlattenEmpty == FlattenSeq(<<>>) = <<>>
BY DEF FlattenSeq

LEMMA FlattenAppend ==
    ASSUME NEW S, NEW ss \in Seq(Seq(S)), NEW x \in Seq(S)
    PROVE  FlattenSeq(Append(ss, x)) = FlattenSeq(ss) \o x
<1> DEFINE n == Len(ss)
           r == Append(ss, x)
<1>1. PICK f \in [0 .. n -> Seq(S)] :
          /\ f[0] = <<>> /\ FlattenSeq(ss) = f[n]
          /\ \A i \in 1 .. n : f[i] = f[i - 1] \o ss[i]
  BY FlattenFrom
<1>2. /\ n \in Nat /\ r \in Seq(Seq(S)) /\ Len(r) = n + 1
      /\ r[n + 1] = x /\ \A i \in 1 .. n : r[i] = ss[i]
  BY AppendProperties
<1> DEFINE g == [i \in 0 .. n + 1 |-> IF i <= n THEN f[i] ELSE f[n] \o x]
<1> HIDE DEF n, r
<1>3. /\ g[0] = <<>> /\ g[n + 1] = f[n] \o x
      /\ \A i \in 1 .. n + 1 : g[i] = g[i - 1] \o r[i]
  <2>1. g[0] = <<>> /\ g[n + 1] = f[n] \o x /\ g[n] = f[n]
    BY <1>1, <1>2, SMTT(30)
  <2>2. ASSUME NEW i \in 1 .. n PROVE g[i] = g[i - 1] \o r[i]
    <3>1. g[i] = f[i] /\ g[i - 1] = f[i - 1]
      BY <1>2
    <3> HIDE DEF g
    <3> QED
      BY <1>1, <1>2, <3>1
  <2>3. g[n + 1] = g[(n + 1) - 1] \o r[n + 1]
    <3>1. (n + 1) - 1 = n
      BY <1>2
    <3> HIDE DEF g
    <3> QED
      BY <1>2, <2>1, <3>1
  <2>4. \A i \in 1 .. n + 1 : i \in 1 .. n \/ i = n + 1
    BY <1>2
  <2> HIDE DEF g
  <2> QED
    BY <2>1, <2>2, <2>3, <2>4
<1> HIDE DEF g
<1>4. FlattenSeq(r) = g[Len(r)]
  <2>1. \A i \in 1 .. Len(r) : g[i] = g[i - 1] \o r[i]
    BY <1>2, <1>3
  <2> QED
    BY <1>2, <1>3, <2>1, FlattenBy
<1> QED
  BY <1>1, <1>2, <1>3, <1>4 DEF r

LEMMA FlattenOne ==
    ASSUME NEW S, NEW x \in Seq(S)
    PROVE  FlattenSeq(<<x>>) = x
<1>1. <<>> \in Seq(Seq(S)) /\ Append(<<>>, x) = <<x>>
  OBVIOUS
<1>2. FlattenSeq(Append(<<>>, x)) = FlattenSeq(<<>>) \o x
  BY <1>1, FlattenAppend
<1>3. <<>> \o x = x
  BY ConcatEmptySeq
<1> QED
  BY <1>1, <1>2, <1>3, FlattenEmpty

LEMMA FlattenCat ==
    ASSUME NEW S, NEW a \in Seq(Seq(S)), NEW b \in Seq(Seq(S))
    PROVE  FlattenSeq(a \o b) = FlattenSeq(a) \o FlattenSeq(b)
<1> DEFINE T == {t \in Seq(Seq(S)) : FlattenSeq(a \o t) = FlattenSeq(a) \o FlattenSeq(t)}
<1>1. <<>> \in T
  BY FlattenEmpty, FlattenType, ConcatEmptySeq
<1>2. ASSUME NEW t \in Seq(Seq(S)), NEW x \in Seq(S), t \in T
      PROVE  Append(t, x) \in T
  <2>1. Append(t, x) \in Seq(Seq(S)) /\ a \o t \in Seq(Seq(S))
    OBVIOUS
  <2>2. a \o Append(t, x) = Append(a \o t, x)
    <3>1. Append(t, x) = t \o <<x>> /\ Append(a \o t, x) = (a \o t) \o <<x>>
      BY <2>1, AppendIsConcat
    <3>2. <<x>> \in Seq(Seq(S))
      OBVIOUS
    <3> QED
      BY <3>1, <3>2, ConcatAssociative
  <2>3. FlattenSeq(a \o Append(t, x)) = (FlattenSeq(a) \o FlattenSeq(t)) \o x
    BY <1>2, <2>1, <2>2, FlattenAppend
  <2>4. FlattenSeq(Append(t, x)) = FlattenSeq(t) \o x
    BY FlattenAppend
  <2>5. FlattenSeq(a) \in Seq(S) /\ FlattenSeq(t) \in Seq(S)
    BY FlattenType
  <2>6. (FlattenSeq(a) \o FlattenSeq(t)) \o x = FlattenSeq(a) \o (FlattenSeq(t) \o x)
    <3> DEFINE fa == FlattenSeq(a)
               ft == FlattenSeq(t)
    <3>1. fa \in Seq(S) /\ ft \in Seq(S)
      BY <2>5
    <3> HIDE DEF fa, ft, T
    <3>2. (fa \o ft) \o x = fa \o (ft \o x)
      BY <3>1, ConcatAssociative, SMTT(30)
    <3> QED
      BY <3>2 DEF fa, ft
  <2> QED
    BY <2>1, <2>3, <2>4, <2>6
<1>3. Seq(Seq(S)) \subseteq T
  <2> HIDE DEF T
  <2> QED
    BY <1>1, <1>2, SeqInduct
<1> QED
  BY <1>3

-----------------------------------------------------------------------------
(* A sequence with each element replaced by what g gives for it             *)

\* Kept folded in the proofs: what they do is in the lemmas below.
Map(S, R) == [S -> R]
Each(g, s) == [i \in DOMAIN s |-> g[s[i]]]
FlatMap(g, s) == FlattenSeq(Each(g, s))

LEMMA EachIs ==
    ASSUME NEW S, NEW R, NEW g \in Map(S, R), NEW s \in Seq(S)
    PROVE  /\ Each(g, s) \in Seq(R) /\ Len(Each(g, s)) = Len(s)
           /\ \A i \in 1 .. Len(s) : Each(g, s)[i] = g[s[i]]
<1>1. Len(s) \in Nat /\ DOMAIN s = 1 .. Len(s) /\ \A i \in 1 .. Len(s) : s[i] \in S
  BY LenProperties, ElementOfSeq
<1>2. Each(g, s) = [i \in 1 .. Len(s) |-> g[s[i]]]
  BY <1>1 DEF Each
<1>3. \A i \in 1 .. Len(s) : g[s[i]] \in R
  BY <1>1 DEF Map
<1> QED
  BY <1>1, <1>2, <1>3

LEMMA EachCat ==
    ASSUME NEW S, NEW R, NEW g \in Map(S, R), NEW a \in Seq(S), NEW b \in Seq(S)
    PROVE  Each(g, a \o b) = Each(g, a) \o Each(g, b)
<1> DEFINE r == a \o b
           l == Each(g, r)
           m == Each(g, a)
           n == Each(g, b)
<1>1. /\ r \in Seq(S) /\ Len(r) = Len(a) + Len(b) /\ Len(a) \in Nat /\ Len(b) \in Nat
      /\ \A i \in 1 .. Len(a) + Len(b) :
            r[i] = IF i <= Len(a) THEN a[i] ELSE b[i - Len(a)]
  BY ConcatProperties
<1> HIDE DEF r
<1>2. l \in Seq(R) /\ Len(l) = Len(r) /\ \A i \in 1 .. Len(r) : l[i] = g[r[i]]
  BY <1>1, EachIs
<1>3. m \in Seq(R) /\ Len(m) = Len(a) /\ \A i \in 1 .. Len(a) : m[i] = g[a[i]]
  BY EachIs
<1>4. n \in Seq(R) /\ Len(n) = Len(b) /\ \A i \in 1 .. Len(b) : n[i] = g[b[i]]
  BY EachIs
<1> HIDE DEF l, m, n
<1>5. /\ m \o n \in Seq(R) /\ Len(m \o n) = Len(m) + Len(n)
      /\ \A i \in 1 .. Len(m) + Len(n) :
            (m \o n)[i] = IF i <= Len(m) THEN m[i] ELSE n[i - Len(m)]
  BY <1>3, <1>4, ConcatProperties, ZenonT(40)
<1>51. /\ m \o n \in Seq(R) /\ Len(m \o n) = Len(a) + Len(b)
       /\ \A i \in 1 .. Len(a) + Len(b) :
            (m \o n)[i] = IF i <= Len(a) THEN m[i] ELSE n[i - Len(a)]
  BY <1>3, <1>4, <1>5
<1>6. ASSUME NEW i \in 1 .. Len(l) PROVE l[i] = (m \o n)[i]
  <2>1. CASE i <= Len(a)
    <3>1. i \in 1 .. Len(a) /\ i \in 1 .. Len(a) + Len(b) /\ i \in 1 .. Len(r)
      BY <1>1, <1>2, <2>1
    <3>2. r[i] = a[i]
      BY <1>1, <2>1, <3>1
    <3>3. (m \o n)[i] = m[i]
      BY <1>51, <2>1, <3>1
    <3> QED
      BY <1>2, <1>3, <3>1, <3>2, <3>3
  <2>2. CASE i > Len(a)
    <3>1. /\ i - Len(a) \in 1 .. Len(b) /\ i \in 1 .. Len(a) + Len(b) /\ i \in 1 .. Len(r)
          /\ ~(i <= Len(a))
      BY <1>1, <1>2, <2>2
    <3>2. r[i] = b[i - Len(a)]
      BY <1>1, <3>1
    <3>3. (m \o n)[i] = n[i - Len(a)]
      BY <1>51, <3>1
    <3> QED
      BY <1>2, <1>4, <3>1, <3>2, <3>3
  <2>3. i <= Len(a) \/ i > Len(a)
    BY <1>1, <1>2
  <2> QED
    BY <2>1, <2>2, <2>3, Zenon
<1>7. l = m \o n
  BY <1>1, <1>2, <1>51, <1>6, SeqEqual
<1> QED
  BY <1>7 DEF l, m, n, r

LEMMA FlatMapType ==
    ASSUME NEW S, NEW R, NEW g \in Map(S, Seq(R)), NEW s \in Seq(S)
    PROVE  FlatMap(g, s) \in Seq(R)
BY EachIs, FlattenType DEF FlatMap

LEMMA FlatMapEmpty == ASSUME NEW g PROVE FlatMap(g, <<>>) = <<>>
<1>1. Each(g, <<>>) = <<>>
  BY DEF Each
<1> QED
  BY <1>1, FlattenEmpty DEF FlatMap

LEMMA FlatMapOne ==
    ASSUME NEW S, NEW R, NEW g \in Map(S, Seq(R)), NEW x \in S
    PROVE  FlatMap(g, <<x>>) = g[x]
<1>1. Each(g, <<x>>) = <<g[x]>>
  BY DEF Each
<1>2. g[x] \in Seq(R)
  BY DEF Map
<1> QED
  BY <1>1, <1>2, FlattenOne DEF FlatMap

LEMMA FlatMapCat ==
    ASSUME NEW S, NEW R, NEW g \in Map(S, Seq(R)), NEW a \in Seq(S), NEW b \in Seq(S)
    PROVE  FlatMap(g, a \o b) = FlatMap(g, a) \o FlatMap(g, b)
<1>1. Each(g, a \o b) = Each(g, a) \o Each(g, b)
  <2>1. g \in Map(S, Seq(R))
    OBVIOUS
  <2> QED
    BY <2>1, EachCat
<1>2. Each(g, a) \in Seq(Seq(R)) /\ Each(g, b) \in Seq(Seq(R))
  BY EachIs
<1> QED
  BY <1>1, <1>2, FlattenCat DEF FlatMap

\* Replacing the elements of the pieces, or of the whole, is the same.
LEMMA FlatMapFlatten ==
    ASSUME NEW S, NEW R, NEW g \in Map(S, Seq(R)), NEW ss \in Seq(Seq(S))
    PROVE  FlatMap(g, FlattenSeq(ss)) = FlattenSeq([i \in DOMAIN ss |-> FlatMap(g, ss[i])])
<1> DEFINE h == [s \in Seq(S) |-> FlatMap(g, s)]
           T == {t \in Seq(Seq(S)) : FlatMap(g, FlattenSeq(t)) = FlatMap(h, t)}
<1>1. h \in Map(Seq(S), Seq(R))
  BY FlatMapType DEF Map
<1>2. <<>> \in T
  BY FlatMapEmpty, FlattenEmpty
<1>3. ASSUME NEW t \in Seq(Seq(S)), NEW x \in Seq(S), t \in T
      PROVE  Append(t, x) \in T
  <2>1. h[x] = FlatMap(g, x) /\ FlatMap(g, FlattenSeq(t)) = FlatMap(h, t)
    BY <1>3
  <2> HIDE DEF h
  <2>2. Append(t, x) \in Seq(Seq(S)) /\ <<x>> \in Seq(Seq(S)) /\ Append(t, x) = t \o <<x>>
    BY AppendIsConcat
  <2>3. FlattenSeq(Append(t, x)) = FlattenSeq(t) \o x /\ FlattenSeq(t) \in Seq(S)
    BY FlattenAppend, FlattenType
  <2>4. FlatMap(g, FlattenSeq(t) \o x) = FlatMap(g, FlattenSeq(t)) \o FlatMap(g, x)
    BY <2>3, FlatMapCat
  <2>5. FlatMap(h, t \o <<x>>) = FlatMap(h, t) \o FlatMap(h, <<x>>)
    <3> DEFINE one == <<x>>
    <3>1. one \in Seq(Seq(S))
      BY <2>2
    <3> HIDE DEF one, T
    <3>2. FlatMap(h, t \o one) = FlatMap(h, t) \o FlatMap(h, one)
      BY <1>1, <3>1, FlatMapCat
    <3> QED
      BY <3>2 DEF one
  <2>6. FlatMap(h, <<x>>) = h[x]
    BY <1>1, FlatMapOne
  <2> QED
    BY <2>1, <2>2, <2>3, <2>4, <2>5, <2>6
<1>4. Seq(Seq(S)) \subseteq T
  <2> HIDE DEF T
  <2> QED
    BY <1>2, <1>3, SeqInduct
<1>5. Each(h, ss) = [i \in DOMAIN ss |-> FlatMap(g, ss[i])]
  <2>1. \A i \in DOMAIN ss : ss[i] \in Seq(S)
    BY ElementOfSeq, LenProperties
  <2> QED
    BY <2>1 DEF Each
<1> QED
  <2> HIDE DEF h
  <2>1. FlatMap(g, FlattenSeq(ss)) = FlatMap(h, ss)
    BY <1>4
  <2> QED
    BY <1>5, <2>1 DEF FlatMap

\* Functions that agree on the elements give the same sequence.
LEMMA FlatMapSame ==
    ASSUME NEW S, NEW g \in Map(S, Seq(S)), NEW s \in Seq(S),
           \A i \in 1 .. Len(s) : g[s[i]] = <<s[i]>>
    PROVE  FlatMap(g, s) = s
<1> DEFINE T == {t \in Seq(S) : (\A i \in 1 .. Len(t) : g[t[i]] = <<t[i]>>)
                                   => FlatMap(g, t) = t}
<1>1. <<>> \in T
  BY FlatMapEmpty
<1>2. ASSUME NEW t \in Seq(S), NEW x \in S, t \in T PROVE Append(t, x) \in T
  <2> DEFINE r == Append(t, x)
  <2>0. r \in Seq(S)
    OBVIOUS
  <2> SUFFICES ASSUME \A i \in 1 .. Len(r) : g[r[i]] = <<r[i]>>
               PROVE  FlatMap(g, r) = r
    BY <2>0, Zenon
  <2>1. /\ Append(t, x) \in Seq(S) /\ Append(t, x) = t \o <<x>> /\ Len(t) \in Nat
        /\ Len(Append(t, x)) = Len(t) + 1 /\ Append(t, x)[Len(t) + 1] = x
        /\ \A i \in 1 .. Len(t) : Append(t, x)[i] = t[i]
    BY AppendProperties, AppendIsConcat
  <2> HIDE DEF r
  <2>2. ASSUME NEW i \in 1 .. Len(t) PROVE g[t[i]] = <<t[i]>>
    <3>1. i \in 1 .. Len(r) /\ r[i] = t[i]
      BY <2>1 DEF r
    <3> QED
      BY <3>1
  <2>3. g[x] = <<x>>
    <3>1. Len(t) + 1 \in 1 .. Len(r) /\ r[Len(t) + 1] = x
      BY <2>1 DEF r
    <3> QED
      BY <3>1
  <2>4. FlatMap(g, t) = t
    BY <1>2, <2>2
  <2>5. FlatMap(g, t \o <<x>>) = FlatMap(g, t) \o FlatMap(g, <<x>>)
    <3> DEFINE one == <<x>>
    <3>1. one \in Seq(S)
      OBVIOUS
    <3> HIDE DEF one, T
    <3>2. FlatMap(g, t \o one) = FlatMap(g, t) \o FlatMap(g, one)
      BY <3>1, FlatMapCat
    <3> QED
      BY <3>2 DEF one
  <2>6. FlatMap(g, <<x>>) = g[x]
    BY FlatMapOne
  <2> QED
    BY <2>1, <2>3, <2>4, <2>5, <2>6 DEF r
<1>3. Seq(S) \subseteq T
  <2> HIDE DEF T
  <2> QED
    BY <1>1, <1>2, SeqInduct
<1> QED
  BY <1>3

\* Where each part of a flattened sequence begins.
LEMMA FlattenParts ==
    ASSUME NEW S, NEW ss \in Seq(Seq(S))
    PROVE  \E at \in [1 .. Len(ss) -> Nat] :
              /\ \A i \in 1 .. Len(ss) :
                    /\ at[i] + Len(ss[i]) <= Len(FlattenSeq(ss))
                    /\ \A k \in 1 .. Len(ss[i]) : FlattenSeq(ss)[at[i] + k] = ss[i][k]
              /\ \A i, j \in 1 .. Len(ss) : i < j => at[i] + Len(ss[i]) <= at[j]
<1> DEFINE Good(t, at) ==
              /\ at \in [1 .. Len(t) -> Nat]
              /\ \A i \in 1 .. Len(t) :
                    /\ at[i] + Len(t[i]) <= Len(FlattenSeq(t))
                    /\ \A k \in 1 .. Len(t[i]) : FlattenSeq(t)[at[i] + k] = t[i][k]
              /\ \A i, j \in 1 .. Len(t) : i < j => at[i] + Len(t[i]) <= at[j]
           T == {t \in Seq(Seq(S)) : \E at : Good(t, at)}
<1>1. <<>> \in T
  <2>1. Good(<<>>, <<>>)
    OBVIOUS
  <2> HIDE DEF Good
  <2> QED
    BY <2>1
<1>2. ASSUME NEW t \in Seq(Seq(S)), NEW x \in Seq(S), t \in T
      PROVE  Append(t, x) \in T
  <2>1. PICK at : Good(t, at)
    BY <1>2
  <2> DEFINE r == Append(t, x)
             f == FlattenSeq(t)
             n == Len(t)
             c == f \o x
             new == [i \in 1 .. n + 1 |-> IF i <= n THEN at[i] ELSE Len(f)]
  <2>2. /\ r \in Seq(Seq(S)) /\ n \in Nat /\ Len(r) = n + 1 /\ r[n + 1] = x
        /\ \A i \in 1 .. n : r[i] = t[i] /\ t[i] \in Seq(S)
    BY AppendProperties, ElementOfSeq
  <2>3. FlattenSeq(r) = c /\ f \in Seq(S)
    BY FlattenAppend, FlattenType
  <2>4. /\ Len(c) = Len(f) + Len(x) /\ Len(f) \in Nat /\ Len(x) \in Nat
        /\ \A i \in 1 .. Len(f) + Len(x) :
              c[i] = IF i <= Len(f) THEN f[i] ELSE x[i - Len(f)]
    <3> HIDE DEF f
    <3> QED
      BY <2>3, ConcatProperties
  <2>5. /\ at \in [1 .. n -> Nat]
        /\ \A i \in 1 .. n : /\ at[i] + Len(t[i]) <= Len(f)
                             /\ \A k \in 1 .. Len(t[i]) : f[at[i] + k] = t[i][k]
        /\ \A i, j \in 1 .. n : i < j => at[i] + Len(t[i]) <= at[j]
    BY <2>1
  <2>6. \A i \in 1 .. n : Len(t[i]) \in Nat
    BY <2>2
  <2> HIDE DEF r, f, n, c, Good
  <2>7. new \in [1 .. n + 1 -> Nat]
    BY <2>2, <2>4, <2>5
  <2>8. ASSUME NEW i \in 1 .. n + 1
        PROVE  /\ new[i] + Len(r[i]) <= Len(c)
               /\ \A k \in 1 .. Len(r[i]) : c[new[i] + k] = r[i][k]
    <3>1. CASE i \in 1 .. n
      <4>1. new[i] = at[i] /\ r[i] = t[i] /\ at[i] \in Nat /\ Len(t[i]) \in Nat
        BY <2>2, <2>5, <2>6, <3>1
      <4> HIDE DEF new
      <4>2. \A k \in 1 .. Len(t[i]) : at[i] + k \in 1 .. Len(f)
        BY <2>4, <2>5, <3>1, <4>1, SMTT(30)
      <4>3. at[i] + Len(t[i]) <= Len(c)
        BY <2>4, <2>5, <3>1, <4>1
      <4>4. \A k \in 1 .. Len(t[i]) : c[at[i] + k] = f[at[i] + k]
        BY <2>4, <4>2
      <4>5. \A k \in 1 .. Len(t[i]) : f[at[i] + k] = t[i][k]
        BY <2>5, <3>1
      <4> QED
        BY <4>1, <4>3, <4>4, <4>5
    <3>2. CASE i = n + 1
      <4>1. new[i] = Len(f) /\ r[i] = x
        BY <2>2, <3>2
      <4> HIDE DEF new
      <4>2. \A k \in 1 .. Len(x) : Len(f) + k \in 1 .. Len(f) + Len(x)
                                    /\ ~(Len(f) + k <= Len(f)) /\ (Len(f) + k) - Len(f) = k
        BY <2>4
      <4> QED
        BY <2>4, <4>1, <4>2
    <3> QED
      BY <2>2, <3>1, <3>2
  <2>9. ASSUME NEW i \in 1 .. n + 1, NEW j \in 1 .. n + 1, i < j
        PROVE  new[i] + Len(r[i]) <= new[j]
    <3>1. i \in 1 .. n /\ r[i] = t[i] /\ new[i] = at[i]
      BY <2>2, <2>9
    <3>2. CASE j \in 1 .. n
      <4>1. new[j] = at[j]
        BY <3>2
      <4> HIDE DEF new
      <4> QED
        BY <2>5, <2>9, <3>1, <3>2, <4>1
    <3>3. CASE j = n + 1
      <4>1. new[j] = Len(f)
        BY <2>2, <3>3
      <4> HIDE DEF new
      <4> QED
        BY <2>5, <3>1, <4>1
    <3> QED
      BY <2>2, <3>2, <3>3
  <2> HIDE DEF new
  <2>10. Good(r, new)
    BY <2>2, <2>3, <2>7, <2>8, <2>9 DEF Good
  <2> QED
    BY <2>2, <2>10 DEF r
<1>3. Seq(Seq(S)) \subseteq T
  <2> HIDE DEF T
  <2> QED
    BY <1>1, <1>2, SeqInduct
<1>4. PICK at : Good(ss, at)
  BY <1>3
<1> QED
  BY <1>4

-----------------------------------------------------------------------------
(* Nodes: a node of depth d is a leaf, or a split of nodes of depth d - 1.   *)

IsLevels(f, n) ==
    f = [d \in 0 .. n |-> Leaves \cup IF d = 0 THEN {} ELSE Splits(f[d - 1])]

LEMMA LevelsExist ==
    ASSUME NEW k \in Nat
    PROVE  \E f : IsLevels(f, k)
<1> DEFINE T == {n \in Nat : \E f : IsLevels(f, n)}
<1>1. 0 \in T
  <2>1. IsLevels([d \in 0 .. 0 |-> Leaves], 0)
    BY DEF IsLevels
  <2> QED
    BY <2>1
<1>2. ASSUME NEW n \in Nat, n \in T PROVE n + 1 \in T
  <2>1. PICK f : IsLevels(f, n)
    BY <1>2
  <2> DEFINE g == [d \in 0 .. n + 1 |-> IF d <= n THEN f[d] ELSE Leaves \cup Splits(f[n])]
  <2>2. IsLevels(g, n + 1)
    <3>1. \A d \in 0 .. n : f[d] = Leaves \cup IF d = 0 THEN {} ELSE Splits(f[d - 1])
      BY <2>1 DEF IsLevels
    <3> SUFFICES ASSUME NEW d \in 0 .. n + 1
                 PROVE  g[d] = Leaves \cup IF d = 0 THEN {} ELSE Splits(g[d - 1])
      BY Zenon DEF IsLevels
    <3>2. CASE d <= n
      BY <3>1, <3>2
    <3>3. CASE d = n + 1
      BY <3>3
    <3> QED
      BY <3>2, <3>3
  <2> QED
    BY <2>2
<1>3. Nat \subseteq T
  <2> HIDE DEF T
  <2> QED
    BY <1>1, <1>2, Induct
<1> QED
  BY <1>3

LEMMA NodesToIs ==
    ASSUME NEW d \in 0 .. MaxDepth
    PROVE  NodesTo[d] = Leaves \cup IF d = 0 THEN {} ELSE Splits(NodesTo[d - 1])
<1>1. \E f : IsLevels(f, MaxDepth)
  BY LevelsExist, DepthAssumption
<1>2. IsLevels(NodesTo, MaxDepth)
  BY <1>1, Zenon DEF NodesTo, IsLevels
<1> HIDE DEF NodesTo
<1>3. NodesTo = [e \in 0 .. MaxDepth |->
                    Leaves \cup IF e = 0 THEN {} ELSE Splits(NodesTo[e - 1])]
  BY <1>2, Zenon DEF IsLevels
<1> DEFINE N == NodesTo
           F(e) == Leaves \cup IF e = 0 THEN {} ELSE Splits(N[e - 1])
<1>4. N = [e \in 0 .. MaxDepth |-> F(e)]
  BY <1>3
<1> HIDE DEF N, F
<1>5. N[d] = F(d)
  BY <1>4
<1> QED
  BY <1>5 DEF N, F

LEMMA NodesToGrow ==
    ASSUME NEW e \in 0 .. MaxDepth, NEW d \in 0 .. e
    PROVE  NodesTo[d] \subseteq NodesTo[e]
<1> HIDE DEF NodesTo
<1> DEFINE T == {n \in Nat : n <= MaxDepth => \A m \in 0 .. n : NodesTo[m] \subseteq NodesTo[n]}
<1>0. MaxDepth \in Nat
  BY DepthAssumption
<1>1. 0 \in T
  OBVIOUS
<1>2. ASSUME NEW n \in Nat, n \in T PROVE n + 1 \in T
  <2> SUFFICES ASSUME n + 1 <= MaxDepth, NEW m \in 0 .. n + 1
               PROVE  NodesTo[m] \subseteq NodesTo[n + 1]
    OBVIOUS
  <2>1. NodesTo[n + 1] = Leaves \cup Splits(NodesTo[n])
    <3>1. n + 1 \in 0 .. MaxDepth /\ n + 1 # 0 /\ (n + 1) - 1 = n
      BY <1>0
    <3> QED
      BY <3>1, NodesToIs
  <2>2. NodesTo[n] \subseteq NodesTo[n + 1]
    <3>1. CASE n = 0
      <4>1. NodesTo[0] = Leaves
        <5>1. 0 \in 0 .. MaxDepth
          BY <1>0
        <5>2. NodesTo[0] = Leaves \cup {}
          BY <5>1, NodesToIs
        <5> QED
          BY <5>2
      <4> QED
        BY <2>1, <3>1, <4>1
    <3>2. CASE n # 0
      <4>1. NodesTo[n] = Leaves \cup Splits(NodesTo[n - 1])
        BY <1>0, <3>2, NodesToIs
      <4>2. NodesTo[n - 1] \subseteq NodesTo[n]
        BY <1>0, <1>2, <3>2
      <4>3. Seq(NodesTo[n - 1]) \subseteq Seq(NodesTo[n])
        BY <4>2, SeqMonotonic
      <4>4. Splits(NodesTo[n - 1]) \subseteq Splits(NodesTo[n])
        BY <4>3 DEF Splits
      <4> QED
        BY <2>1, <4>1, <4>4
    <3> QED
      BY <3>1, <3>2
  <2>3. CASE m <= n
    BY <1>0, <1>2, <2>2, <2>3
  <2>4. CASE m = n + 1
    BY <2>4
  <2> QED
    BY <2>3, <2>4
<1>3. Nat \subseteq T
  <2> HIDE DEF T
  <2> QED
    BY <1>1, <1>2, Induct
<1> QED
  BY <1>0, <1>3

\* A node is a leaf, or a split of nodes that are less deep.
IsSplit(node, d) ==
    /\ d \in Nat \ {0} /\ node.type \in {"row", "column"} /\ node.type # "leaf"
    /\ node.children \in Seq(NodesTo[d - 1])
    /\ node = Split(node.type, node.children)

IsLeaf(node) == node.type = "leaf" /\ node.paneId \in Nat /\ node = Leaf(node.paneId)

LEMMA NodeCases ==
    ASSUME NEW d \in 0 .. MaxDepth, NEW node \in NodesTo[d]
    PROVE  IsLeaf(node) \/ IsSplit(node, d)
<1> HIDE DEF NodesTo
<1>1. CASE node \in Leaves
  BY <1>1 DEF Leaves, IsLeaf, Leaf
<1>2. CASE node \notin Leaves
  <2>1. d # 0 /\ node \in Splits(NodesTo[d - 1])
    BY <1>2, NodesToIs
  <2> QED
    BY <2>1, DepthAssumption DEF Splits, IsSplit, Split
<1> QED
  BY <1>1, <1>2

LEMMA LeafIs ==
    ASSUME NEW p \in Nat, NEW d \in 0 .. MaxDepth
    PROVE  /\ Leaf(p) \in NodesTo[d] /\ Leaf(p).type = "leaf" /\ Leaf(p).paneId = p
<1> HIDE DEF NodesTo
<1>1. Leaf(p) \in Leaves
  BY DEF Leaf, Leaves
<1> QED
  BY <1>1, NodesToIs DEF Leaf

LEMMA SplitIs ==
    ASSUME NEW d \in Nat, d + 1 <= MaxDepth, NEW dir \in {"row", "column"},
           NEW kids \in Seq(NodesTo[d])
    PROVE  /\ Split(dir, kids) \in NodesTo[d + 1] /\ IsSplit(Split(dir, kids), d + 1)
           /\ Split(dir, kids).type = dir /\ Split(dir, kids).children = kids
<1> HIDE DEF NodesTo
<1>1. Split(dir, kids).type = dir /\ Split(dir, kids).children = kids
  BY DEF Split
<1>2. d + 1 \in 0 .. MaxDepth /\ d + 1 # 0 /\ (d + 1) - 1 = d /\ d + 1 \in Nat \ {0}
  BY DepthAssumption
<1>3. Split(dir, kids) \in Splits(NodesTo[d])
  BY DEF Split, Splits
<1>4. NodesTo[d + 1] = Leaves \cup Splits(NodesTo[d])
  BY <1>2, NodesToIs
<1> QED
  BY <1>1, <1>2, <1>3, <1>4 DEF IsSplit

\* Whatever a split has as children are nodes, and all nodes are of the greatest depth.
LEMMA ChildIs ==
    ASSUME NEW d \in 0 .. MaxDepth, NEW node, IsSplit(node, d), NEW i \in DOMAIN node.children
    PROVE  node.children[i] \in NodesTo[d - 1] /\ node.children[i] \in Node
<1> HIDE DEF NodesTo
<1>1. node.children[i] \in NodesTo[d - 1]
  BY ElementOfSeq, LenProperties DEF IsSplit
<1>2. NodesTo[d - 1] \subseteq NodesTo[MaxDepth]
  BY NodesToGrow, DepthAssumption DEF IsSplit
<1> QED
  BY <1>1, <1>2 DEF Node

LEMMA NodesToNode == ASSUME NEW d \in 0 .. MaxDepth PROVE NodesTo[d] \subseteq Node
<1> HIDE DEF NodesTo
<1> QED
  BY NodesToGrow, DepthAssumption DEF Node

-----------------------------------------------------------------------------
(* The functions on nodes.  For each, its Body says what it gives at one     *)
(* node from what it gives at the children; Local: that nothing else of it   *)
(* is used; Exist: that there is such a function on the nodes of each depth; *)
(* Is: that the operator of SplitTree is that function on every node.        *)

Agree(f, g, s) == \A i \in DOMAIN s : f[s[i]] = g[s[i]]

LEMMA AgreeEach ==
    ASSUME NEW f, NEW g, NEW s, Agree(f, g, s) PROVE Each(f, s) = Each(g, s)
BY Zenon DEF Agree, Each

\* The panes below a node.
IdsBody(f, node) ==
    IF node.type = "leaf" THEN <<node.paneId>> ELSE FlattenSeq(Each(f, node.children))
IsIds(f, d) == f = [node \in NodesTo[d] |-> IdsBody(f, node)]
collect == [node \in Node |-> CollectPaneIds(node)]

LEMMA IdsLocal ==
    ASSUME NEW f, NEW g, NEW node, IsLeaf(node) \/ Agree(f, g, node.children)
    PROVE  IdsBody(f, node) = IdsBody(g, node)
<1>1. CASE IsLeaf(node)
  BY <1>1, Zenon DEF IdsBody, IsLeaf
<1>2. CASE Agree(f, g, node.children)
  <2>1. Each(f, node.children) = Each(g, node.children)
    BY <1>2, AgreeEach
  <2> QED
    BY <2>1, Zenon DEF IdsBody
<1> QED
  BY <1>1, <1>2

LEMMA IdsExist ==
    ASSUME NEW k \in 0 .. MaxDepth
    PROVE  \E f : IsIds(f, k)
<1> HIDE DEF NodesTo
<1> DEFINE T == {n \in Nat : n <= MaxDepth => \E f : IsIds(f, n)}
<1>0. MaxDepth \in Nat
  BY DepthAssumption
<1>1. 0 \in T
  <2> DEFINE g == [node \in NodesTo[0] |-> IdsBody(<<>>, node)]
  <2>1. ASSUME NEW node \in NodesTo[0]
        PROVE  IdsBody(<<>>, node) = IdsBody(g, node)
    <3>1. 0 \in 0 .. MaxDepth
      BY <1>0
    <3>2. IsLeaf(node)
      BY <3>1, NodeCases DEF IsSplit
    <3> HIDE DEF g
    <3> QED
      BY <3>2, IdsLocal
  <2>2. IsIds(g, 0)
    BY <2>1, Zenon DEF IsIds
  <2> QED
    BY <2>2
<1>2. ASSUME NEW n \in Nat, n \in T PROVE n + 1 \in T
  <2> SUFFICES ASSUME n + 1 <= MaxDepth PROVE \E f : IsIds(f, n + 1)
    OBVIOUS
  <2>0. n + 1 \in 0 .. MaxDepth /\ n \in 0 .. n + 1 /\ (n + 1) - 1 = n
    BY <1>0
  <2>1. PICK f : IsIds(f, n)
    BY <1>0, <1>2
  <2> DEFINE g == [node \in NodesTo[n + 1] |-> IdsBody(f, node)]
  <2>2. ASSUME NEW node \in NodesTo[n + 1]
        PROVE  IdsBody(f, node) = IdsBody(g, node)
    <3>1. CASE IsSplit(node, n + 1)
      <4>1. ASSUME NEW i \in DOMAIN node.children
            PROVE  f[node.children[i]] = g[node.children[i]]
        <5> DEFINE c == node.children[i]
        <5>1. c \in NodesTo[n] /\ c \in NodesTo[n + 1]
          BY <2>0, <3>1, ChildIs, NodesToGrow
        <5> HIDE DEF c
        <5>2. f[c] = IdsBody(f, c)
          BY <2>1, <5>1, Zenon DEF IsIds
        <5> QED
          BY <5>1, <5>2, Zenon DEF c
      <4>2. Agree(f, g, node.children)
        BY <4>1, Zenon DEF Agree
      <4> HIDE DEF g
      <4> QED
        BY <4>2, IdsLocal
    <3>2. CASE IsLeaf(node)
      <4> HIDE DEF g
      <4> QED
        BY <3>2, IdsLocal
    <3> QED
      BY <2>0, <3>1, <3>2, NodeCases
  <2>3. IsIds(g, n + 1)
    BY <2>2, Zenon DEF IsIds
  <2> QED
    BY <2>3
<1>3. Nat \subseteq T
  <2> HIDE DEF T
  <2> QED
    BY <1>1, <1>2, Induct
<1> QED
  BY <1>0, <1>3

LEMMA IdsIs ==
    ASSUME NEW node \in Node
    PROVE  CollectPaneIds(node) = IdsBody(collect, node) /\ collect[node] = CollectPaneIds(node)
<1> HIDE DEF NodesTo
<1> DEFINE h == CHOOSE f : IsIds(f, MaxDepth)
<1>1. \E f : IsIds(f, MaxDepth)
  BY IdsExist, DepthAssumption
<1>2. IsIds(h, MaxDepth)
  BY <1>1, Zenon
<1>3. ASSUME NEW n \in Node PROVE CollectPaneIds(n) = h[n]
  BY Zenon DEF CollectPaneIds, IsIds, IdsBody, Each, Node
<1> HIDE DEF h
<1>4. h = [n \in Node |-> IdsBody(h, n)]
  BY <1>2, Zenon DEF IsIds, Node
<1>5. h = collect
  <2>1. h = [n \in Node |-> h[n]]
    BY <1>4, Zenon
  <2> QED
    BY <1>3, <2>1, Zenon DEF collect
<1>6. h[node] = IdsBody(h, node)
  BY <1>4, Zenon
<1> QED
  BY <1>3, <1>5, <1>6, Zenon

\* A node tidied.
CleanBody(f, node) ==
    IF node.type = "leaf" \/ node.children = <<>> THEN node
    ELSE Spliced(node.type, Each(f, node.children))
IsClean(f, d) == f = [node \in NodesTo[d] |-> CleanBody(f, node)]
clean == [node \in Node |-> CleanupTree(node)]

LEMMA CleanLocal ==
    ASSUME NEW f, NEW g, NEW node, IsLeaf(node) \/ Agree(f, g, node.children)
    PROVE  CleanBody(f, node) = CleanBody(g, node)
<1>1. CASE IsLeaf(node)
  BY <1>1, Zenon DEF CleanBody, IsLeaf
<1>2. CASE Agree(f, g, node.children)
  <2>1. Each(f, node.children) = Each(g, node.children)
    BY <1>2, AgreeEach
  <2> QED
    BY <2>1, Zenon DEF CleanBody
<1> QED
  BY <1>1, <1>2

LEMMA CleanExist ==
    ASSUME NEW k \in 0 .. MaxDepth
    PROVE  \E f : IsClean(f, k)
<1> HIDE DEF NodesTo
<1> DEFINE T == {n \in Nat : n <= MaxDepth => \E f : IsClean(f, n)}
<1>0. MaxDepth \in Nat
  BY DepthAssumption
<1>1. 0 \in T
  <2> DEFINE g == [node \in NodesTo[0] |-> CleanBody(<<>>, node)]
  <2>1. ASSUME NEW node \in NodesTo[0]
        PROVE  CleanBody(<<>>, node) = CleanBody(g, node)
    <3>1. 0 \in 0 .. MaxDepth
      BY <1>0
    <3>2. IsLeaf(node)
      BY <3>1, NodeCases DEF IsSplit
    <3> HIDE DEF g
    <3> QED
      BY <3>2, CleanLocal
  <2>2. IsClean(g, 0)
    BY <2>1, Zenon DEF IsClean
  <2> QED
    BY <2>2
<1>2. ASSUME NEW n \in Nat, n \in T PROVE n + 1 \in T
  <2> SUFFICES ASSUME n + 1 <= MaxDepth PROVE \E f : IsClean(f, n + 1)
    OBVIOUS
  <2>0. n + 1 \in 0 .. MaxDepth /\ n \in 0 .. n + 1 /\ (n + 1) - 1 = n
    BY <1>0
  <2>1. PICK f : IsClean(f, n)
    BY <1>0, <1>2
  <2> DEFINE g == [node \in NodesTo[n + 1] |-> CleanBody(f, node)]
  <2>2. ASSUME NEW node \in NodesTo[n + 1]
        PROVE  CleanBody(f, node) = CleanBody(g, node)
    <3>1. CASE IsSplit(node, n + 1)
      <4>1. ASSUME NEW i \in DOMAIN node.children
            PROVE  f[node.children[i]] = g[node.children[i]]
        <5> DEFINE c == node.children[i]
        <5>1. c \in NodesTo[n] /\ c \in NodesTo[n + 1]
          BY <2>0, <3>1, ChildIs, NodesToGrow
        <5> HIDE DEF c
        <5>2. f[c] = CleanBody(f, c)
          BY <2>1, <5>1, Zenon DEF IsClean
        <5> QED
          BY <5>1, <5>2, Zenon DEF c
      <4>2. Agree(f, g, node.children)
        BY <4>1, Zenon DEF Agree
      <4> HIDE DEF g
      <4> QED
        BY <4>2, CleanLocal
    <3>2. CASE IsLeaf(node)
      <4> HIDE DEF g
      <4> QED
        BY <3>2, CleanLocal
    <3> QED
      BY <2>0, <3>1, <3>2, NodeCases
  <2>3. IsClean(g, n + 1)
    BY <2>2, Zenon DEF IsClean
  <2> QED
    BY <2>3
<1>3. Nat \subseteq T
  <2> HIDE DEF T
  <2> QED
    BY <1>1, <1>2, Induct
<1> QED
  BY <1>0, <1>3

LEMMA CleanIs ==
    ASSUME NEW node \in Node
    PROVE  CleanupTree(node) = CleanBody(clean, node) /\ clean[node] = CleanupTree(node)
<1> HIDE DEF NodesTo
<1> DEFINE h == CHOOSE f : IsClean(f, MaxDepth)
<1>1. \E f : IsClean(f, MaxDepth)
  BY CleanExist, DepthAssumption
<1>2. IsClean(h, MaxDepth)
  BY <1>1, Zenon
<1>3. ASSUME NEW n \in Node PROVE CleanupTree(n) = h[n]
  BY Zenon DEF CleanupTree, IsClean, CleanBody, Each, Node
<1> HIDE DEF h
<1>4. h = [n \in Node |-> CleanBody(h, n)]
  BY <1>2, Zenon DEF IsClean, Node
<1>5. h = clean
  <2>1. h = [n \in Node |-> h[n]]
    BY <1>4, Zenon
  <2> QED
    BY <1>3, <2>1, Zenon DEF clean
<1>6. h[node] = CleanBody(h, node)
  BY <1>4, Zenon
<1> QED
  BY <1>3, <1>5, <1>6, Zenon

\* Whether a node is in normal form.
NormalBody(f, node) ==
    \/ node.type = "leaf"
    \/ /\ Len(node.children) >= 2
       /\ \A i \in DOMAIN node.children : /\ node.children[i].type # node.type
                                          /\ f[node.children[i]]
IsNormal(f, d) == f = [node \in NodesTo[d] |-> NormalBody(f, node)]
normal == [node \in Node |-> NormalForm(node)]

LEMMA NormalLocal ==
    ASSUME NEW f, NEW g, NEW node, IsLeaf(node) \/ Agree(f, g, node.children)
    PROVE  NormalBody(f, node) = NormalBody(g, node)
<1>1. CASE IsLeaf(node)
  BY <1>1, Zenon DEF NormalBody, IsLeaf
<1>2. CASE Agree(f, g, node.children)
  BY <1>2, Zenon DEF NormalBody, Agree
<1> QED
  BY <1>1, <1>2

LEMMA NormalExist ==
    ASSUME NEW k \in 0 .. MaxDepth
    PROVE  \E f : IsNormal(f, k)
<1> HIDE DEF NodesTo
<1> DEFINE T == {n \in Nat : n <= MaxDepth => \E f : IsNormal(f, n)}
<1>0. MaxDepth \in Nat
  BY DepthAssumption
<1>1. 0 \in T
  <2> DEFINE g == [node \in NodesTo[0] |-> NormalBody(<<>>, node)]
  <2>1. ASSUME NEW node \in NodesTo[0]
        PROVE  NormalBody(<<>>, node) = NormalBody(g, node)
    <3>1. 0 \in 0 .. MaxDepth
      BY <1>0
    <3>2. IsLeaf(node)
      BY <3>1, NodeCases DEF IsSplit
    <3> HIDE DEF g
    <3> QED
      BY <3>2, NormalLocal
  <2>2. IsNormal(g, 0)
    BY <2>1, Zenon DEF IsNormal
  <2> QED
    BY <2>2
<1>2. ASSUME NEW n \in Nat, n \in T PROVE n + 1 \in T
  <2> SUFFICES ASSUME n + 1 <= MaxDepth PROVE \E f : IsNormal(f, n + 1)
    OBVIOUS
  <2>0. n + 1 \in 0 .. MaxDepth /\ n \in 0 .. n + 1 /\ (n + 1) - 1 = n
    BY <1>0
  <2>1. PICK f : IsNormal(f, n)
    BY <1>0, <1>2
  <2> DEFINE g == [node \in NodesTo[n + 1] |-> NormalBody(f, node)]
  <2>2. ASSUME NEW node \in NodesTo[n + 1]
        PROVE  NormalBody(f, node) = NormalBody(g, node)
    <3>1. CASE IsSplit(node, n + 1)
      <4>1. ASSUME NEW i \in DOMAIN node.children
            PROVE  f[node.children[i]] = g[node.children[i]]
        <5> DEFINE c == node.children[i]
        <5>1. c \in NodesTo[n] /\ c \in NodesTo[n + 1]
          BY <2>0, <3>1, ChildIs, NodesToGrow
        <5> HIDE DEF c
        <5>2. f[c] = NormalBody(f, c)
          BY <2>1, <5>1, Zenon DEF IsNormal
        <5> QED
          BY <5>1, <5>2, Zenon DEF c
      <4>2. Agree(f, g, node.children)
        BY <4>1, Zenon DEF Agree
      <4> HIDE DEF g
      <4> QED
        BY <4>2, NormalLocal
    <3>2. CASE IsLeaf(node)
      <4> HIDE DEF g
      <4> QED
        BY <3>2, NormalLocal
    <3> QED
      BY <2>0, <3>1, <3>2, NodeCases
  <2>3. IsNormal(g, n + 1)
    BY <2>2, Zenon DEF IsNormal
  <2> QED
    BY <2>3
<1>3. Nat \subseteq T
  <2> HIDE DEF T
  <2> QED
    BY <1>1, <1>2, Induct
<1> QED
  BY <1>0, <1>3

LEMMA NormalIs ==
    ASSUME NEW node \in Node
    PROVE  NormalForm(node) = NormalBody(normal, node) /\ normal[node] = NormalForm(node)
<1> HIDE DEF NodesTo
<1> DEFINE h == CHOOSE f : IsNormal(f, MaxDepth)
<1>1. \E f : IsNormal(f, MaxDepth)
  BY NormalExist, DepthAssumption
<1>2. IsNormal(h, MaxDepth)
  BY <1>1, Zenon
<1>3. ASSUME NEW n \in Node PROVE NormalForm(n) = h[n]
  BY Zenon DEF NormalForm, IsNormal, NormalBody, Each, Node
<1> HIDE DEF h
<1>4. h = [n \in Node |-> NormalBody(h, n)]
  BY <1>2, Zenon DEF IsNormal, Node
<1>5. h = normal
  <2>1. h = [n \in Node |-> h[n]]
    BY <1>4, Zenon
  <2> QED
    BY <1>3, <2>1, Zenon DEF normal
<1>6. h[node] = NormalBody(h, node)
  BY <1>4, Zenon
<1> QED
  BY <1>3, <1>5, <1>6, Zenon

\* A node without the leaf of pane p.
RemovedBody(p, f, node) ==
    IF node.type = "leaf" THEN node
    ELSE CleanupTree(Split(node.type,
             FlattenSeq([i \in DOMAIN node.children |->
                 IF node.children[i] = Leaf(p) THEN <<>> ELSE <<f[node.children[i]]>>])))
IsRemoved(p, f, d) == f = [node \in NodesTo[d] |-> RemovedBody(p, f, node)]
remove(p) == [node \in Node |-> RemoveLeaf(node, p)]

LEMMA RemovedLocal ==
    ASSUME NEW p, NEW f, NEW g, NEW node, IsLeaf(node) \/ Agree(f, g, node.children)
    PROVE  RemovedBody(p, f, node) = RemovedBody(p, g, node)
<1>1. CASE IsLeaf(node)
  BY <1>1, Zenon DEF RemovedBody, IsLeaf
<1>2. CASE Agree(f, g, node.children)
  <2>1. [i \in DOMAIN node.children |->
            IF node.children[i] = Leaf(p) THEN <<>> ELSE <<f[node.children[i]]>>] =
        [i \in DOMAIN node.children |->
            IF node.children[i] = Leaf(p) THEN <<>> ELSE <<g[node.children[i]]>>]
    BY <1>2, Zenon DEF Agree
  <2> QED
    BY <2>1, Zenon DEF RemovedBody
<1> QED
  BY <1>1, <1>2

LEMMA RemovedExist ==
    ASSUME NEW p, NEW k \in 0 .. MaxDepth
    PROVE  \E f : IsRemoved(p, f, k)
<1> HIDE DEF NodesTo
<1> DEFINE T == {n \in Nat : n <= MaxDepth => \E f : IsRemoved(p, f, n)}
<1>0. MaxDepth \in Nat
  BY DepthAssumption
<1>1. 0 \in T
  <2> DEFINE g == [node \in NodesTo[0] |-> RemovedBody(p, <<>>, node)]
  <2>1. ASSUME NEW node \in NodesTo[0]
        PROVE  RemovedBody(p, <<>>, node) = RemovedBody(p, g, node)
    <3>1. 0 \in 0 .. MaxDepth
      BY <1>0
    <3>2. IsLeaf(node)
      BY <3>1, NodeCases DEF IsSplit
    <3> HIDE DEF g
    <3> QED
      BY <3>2, RemovedLocal
  <2>2. IsRemoved(p, g, 0)
    BY <2>1, Zenon DEF IsRemoved
  <2> QED
    BY <2>2
<1>2. ASSUME NEW n \in Nat, n \in T PROVE n + 1 \in T
  <2> SUFFICES ASSUME n + 1 <= MaxDepth PROVE \E f : IsRemoved(p, f, n + 1)
    OBVIOUS
  <2>0. n + 1 \in 0 .. MaxDepth /\ n \in 0 .. n + 1 /\ (n + 1) - 1 = n
    BY <1>0
  <2>1. PICK f : IsRemoved(p, f, n)
    BY <1>0, <1>2
  <2> DEFINE g == [node \in NodesTo[n + 1] |-> RemovedBody(p, f, node)]
  <2>2. ASSUME NEW node \in NodesTo[n + 1]
        PROVE  RemovedBody(p, f, node) = RemovedBody(p, g, node)
    <3>1. CASE IsSplit(node, n + 1)
      <4>1. ASSUME NEW i \in DOMAIN node.children
            PROVE  f[node.children[i]] = g[node.children[i]]
        <5> DEFINE c == node.children[i]
        <5>1. c \in NodesTo[n] /\ c \in NodesTo[n + 1]
          BY <2>0, <3>1, ChildIs, NodesToGrow
        <5> HIDE DEF c
        <5>2. f[c] = RemovedBody(p, f, c)
          BY <2>1, <5>1, Zenon DEF IsRemoved
        <5> QED
          BY <5>1, <5>2, Zenon DEF c
      <4>2. Agree(f, g, node.children)
        BY <4>1, Zenon DEF Agree
      <4> HIDE DEF g
      <4> QED
        BY <4>2, RemovedLocal
    <3>2. CASE IsLeaf(node)
      <4> HIDE DEF g
      <4> QED
        BY <3>2, RemovedLocal
    <3> QED
      BY <2>0, <3>1, <3>2, NodeCases
  <2>3. IsRemoved(p, g, n + 1)
    BY <2>2, Zenon DEF IsRemoved
  <2> QED
    BY <2>3
<1>3. Nat \subseteq T
  <2> HIDE DEF T
  <2> QED
    BY <1>1, <1>2, Induct
<1> QED
  BY <1>0, <1>3

LEMMA RemovedIs ==
    ASSUME NEW p, NEW node \in Node
    PROVE  RemoveLeaf(node, p) = RemovedBody(p, remove(p), node) /\ remove(p)[node] = RemoveLeaf(node, p)
<1> HIDE DEF NodesTo
<1> DEFINE h == CHOOSE f : IsRemoved(p, f, MaxDepth)
<1>1. \E f : IsRemoved(p, f, MaxDepth)
  BY RemovedExist, DepthAssumption
<1>2. IsRemoved(p, h, MaxDepth)
  BY <1>1, Zenon
<1>3. ASSUME NEW n \in Node PROVE RemoveLeaf(n, p) = h[n]
  BY Zenon DEF RemoveLeaf, IsRemoved, RemovedBody, Each, Node
<1> HIDE DEF h
<1>4. h = [n \in Node |-> RemovedBody(p, h, n)]
  BY <1>2, Zenon DEF IsRemoved, Node
<1>5. h = remove(p)
  <2>1. h = [n \in Node |-> h[n]]
    BY <1>4, Zenon
  <2> QED
    BY <1>3, <2>1, Zenon DEF remove
<1>6. h[node] = RemovedBody(p, h, node)
  BY <1>4, Zenon
<1> QED
  BY <1>3, <1>5, <1>6, Zenon

\* A node with a leaf for pane new beside the one of target.
GrownBody(target, new, zone, f, node) ==
    IF node = Leaf(target)
    THEN Split(Direction(zone), IF zone \in {"left", "top"}
                                THEN <<Leaf(new), node>> ELSE <<node, Leaf(new)>>)
    ELSE IF node.type = "leaf" THEN node
    ELSE CleanupTree(Split(node.type, Each(f, node.children)))
IsGrown(target, new, zone, f, d) == f = [node \in NodesTo[d] |-> GrownBody(target, new, zone, f, node)]
insert(target, new, zone) == [node \in Node |-> InsertAtLeaf(node, target, new, zone)]

LEMMA GrownLocal ==
    ASSUME NEW target, NEW new, NEW zone, NEW f, NEW g, NEW node, IsLeaf(node) \/ Agree(f, g, node.children)
    PROVE  GrownBody(target, new, zone, f, node) = GrownBody(target, new, zone, g, node)
<1>1. CASE IsLeaf(node)
  BY <1>1, Zenon DEF GrownBody, IsLeaf
<1>2. CASE Agree(f, g, node.children)
  <2>1. Each(f, node.children) = Each(g, node.children)
    BY <1>2, AgreeEach
  <2> QED
    BY <2>1, Zenon DEF GrownBody
<1> QED
  BY <1>1, <1>2

LEMMA GrownExist ==
    ASSUME NEW target, NEW new, NEW zone, NEW k \in 0 .. MaxDepth
    PROVE  \E f : IsGrown(target, new, zone, f, k)
<1> HIDE DEF NodesTo
<1> DEFINE T == {n \in Nat : n <= MaxDepth => \E f : IsGrown(target, new, zone, f, n)}
<1>0. MaxDepth \in Nat
  BY DepthAssumption
<1>1. 0 \in T
  <2> DEFINE g == [node \in NodesTo[0] |-> GrownBody(target, new, zone, <<>>, node)]
  <2>1. ASSUME NEW node \in NodesTo[0]
        PROVE  GrownBody(target, new, zone, <<>>, node) = GrownBody(target, new, zone, g, node)
    <3>1. 0 \in 0 .. MaxDepth
      BY <1>0
    <3>2. IsLeaf(node)
      BY <3>1, NodeCases DEF IsSplit
    <3> HIDE DEF g
    <3> QED
      BY <3>2, GrownLocal
  <2>2. IsGrown(target, new, zone, g, 0)
    BY <2>1, Zenon DEF IsGrown
  <2> QED
    BY <2>2
<1>2. ASSUME NEW n \in Nat, n \in T PROVE n + 1 \in T
  <2> SUFFICES ASSUME n + 1 <= MaxDepth PROVE \E f : IsGrown(target, new, zone, f, n + 1)
    OBVIOUS
  <2>0. n + 1 \in 0 .. MaxDepth /\ n \in 0 .. n + 1 /\ (n + 1) - 1 = n
    BY <1>0
  <2>1. PICK f : IsGrown(target, new, zone, f, n)
    BY <1>0, <1>2
  <2> DEFINE g == [node \in NodesTo[n + 1] |-> GrownBody(target, new, zone, f, node)]
  <2>2. ASSUME NEW node \in NodesTo[n + 1]
        PROVE  GrownBody(target, new, zone, f, node) = GrownBody(target, new, zone, g, node)
    <3>1. CASE IsSplit(node, n + 1)
      <4>1. ASSUME NEW i \in DOMAIN node.children
            PROVE  f[node.children[i]] = g[node.children[i]]
        <5> DEFINE c == node.children[i]
        <5>1. c \in NodesTo[n] /\ c \in NodesTo[n + 1]
          BY <2>0, <3>1, ChildIs, NodesToGrow
        <5> HIDE DEF c
        <5>2. f[c] = GrownBody(target, new, zone, f, c)
          BY <2>1, <5>1, Zenon DEF IsGrown
        <5> QED
          BY <5>1, <5>2, Zenon DEF c
      <4>2. Agree(f, g, node.children)
        BY <4>1, Zenon DEF Agree
      <4> HIDE DEF g
      <4> QED
        BY <4>2, GrownLocal
    <3>2. CASE IsLeaf(node)
      <4> HIDE DEF g
      <4> QED
        BY <3>2, GrownLocal
    <3> QED
      BY <2>0, <3>1, <3>2, NodeCases
  <2>3. IsGrown(target, new, zone, g, n + 1)
    BY <2>2, Zenon DEF IsGrown
  <2> QED
    BY <2>3
<1>3. Nat \subseteq T
  <2> HIDE DEF T
  <2> QED
    BY <1>1, <1>2, Induct
<1> QED
  BY <1>0, <1>3

LEMMA GrownIs ==
    ASSUME NEW target, NEW new, NEW zone, NEW node \in Node
    PROVE  InsertAtLeaf(node, target, new, zone) = GrownBody(target, new, zone, insert(target, new, zone), node) /\ insert(target, new, zone)[node] = InsertAtLeaf(node, target, new, zone)
<1> HIDE DEF NodesTo
<1> DEFINE h == CHOOSE f : IsGrown(target, new, zone, f, MaxDepth)
<1>1. \E f : IsGrown(target, new, zone, f, MaxDepth)
  BY GrownExist, DepthAssumption
<1>2. IsGrown(target, new, zone, h, MaxDepth)
  BY <1>1, Zenon
<1>3. ASSUME NEW n \in Node PROVE InsertAtLeaf(n, target, new, zone) = h[n]
  BY Zenon DEF InsertAtLeaf, IsGrown, GrownBody, Each, Node
<1> HIDE DEF h
<1>4. h = [n \in Node |-> GrownBody(target, new, zone, h, n)]
  BY <1>2, Zenon DEF IsGrown, Node
<1>5. h = insert(target, new, zone)
  <2>1. h = [n \in Node |-> h[n]]
    BY <1>4, Zenon
  <2> QED
    BY <1>3, <2>1, Zenon DEF insert
<1>6. h[node] = GrownBody(target, new, zone, h, node)
  BY <1>4, Zenon
<1> QED
  BY <1>3, <1>5, <1>6, Zenon

LEMMA LeafPanes ==
    ASSUME NEW p \in Nat
    PROVE  CollectPaneIds(Leaf(p)) = <<p>>
<1> HIDE DEF NodesTo
<1>1. Leaf(p) \in Node /\ Leaf(p).type = "leaf" /\ Leaf(p).paneId = p
  BY LeafIs, DepthAssumption DEF Node
<1>2. CollectPaneIds(Leaf(p)) = IdsBody(collect, Leaf(p))
  BY <1>1, IdsIs
<1> QED
  BY <1>1, <1>2 DEF IdsBody

LEMMA SplitPanes ==
    ASSUME NEW node \in Node, NEW d, IsSplit(node, d)
    PROVE  CollectPaneIds(node) = FlatMap(collect, node.children)
<1> HIDE DEF NodesTo
<1>1. CollectPaneIds(node) = IdsBody(collect, node) /\ node.type # "leaf"
  BY IdsIs DEF IsSplit
<1> QED
  BY <1>1, Zenon DEF IdsBody, FlatMap

LEMMA CollectType == collect \in Map(Node, Seq(Nat))
<1> HIDE DEF NodesTo
<1> DEFINE T == {n \in Nat : n <= MaxDepth => \A node \in NodesTo[n] : CollectPaneIds(node) \in Seq(Nat)}
<1>0. MaxDepth \in Nat
  BY DepthAssumption
<1>1. ASSUME NEW d \in 0 .. MaxDepth, NEW node \in NodesTo[d],
             d # 0 => \A c \in NodesTo[d - 1] : CollectPaneIds(c) \in Seq(Nat)
      PROVE  CollectPaneIds(node) \in Seq(Nat)
  <2>0. node \in Node
    BY NodesToNode
  <2>1. CASE IsLeaf(node)
    <3>1. CollectPaneIds(node) = <<node.paneId>> /\ node.paneId \in Nat
      BY <2>1, LeafPanes DEF IsLeaf
    <3> QED
      BY <3>1
  <2>2. CASE IsSplit(node, d)
    <3>1. d # 0 /\ node.children \in Seq(NodesTo[d - 1]) /\ d - 1 \in 0 .. MaxDepth
      BY <2>2, <1>0 DEF IsSplit
    <3>2. ASSUME NEW c \in NodesTo[d - 1] PROVE collect[c] \in Seq(Nat)
      <4>1. c \in Node
        BY <3>1, NodesToNode
      <4>2. collect[c] = CollectPaneIds(c)
        BY <4>1, IdsIs
      <4> QED
        BY <1>1, <3>1, <4>2
    <3> DEFINE few == [c \in NodesTo[d - 1] |-> collect[c]]
    <3>3. few \in Map(NodesTo[d - 1], Seq(Nat))
      BY <3>2 DEF Map
    <3>4. Each(few, node.children) = Each(collect, node.children)
      <4>1. \A i \in DOMAIN node.children : node.children[i] \in NodesTo[d - 1]
        BY <3>1, ElementOfSeq, LenProperties
      <4> QED
        BY <4>1, Zenon DEF Each
    <3> HIDE DEF few
    <3>5. FlatMap(few, node.children) \in Seq(Nat)
      BY <3>1, <3>3, FlatMapType
    <3>6. FlatMap(few, node.children) = FlatMap(collect, node.children)
      BY <3>4, Zenon DEF FlatMap
    <3>7. CollectPaneIds(node) = FlatMap(collect, node.children)
      BY <2>0, <2>2, SplitPanes
    <3> QED
      BY <3>5, <3>6, <3>7
  <2> QED
    BY <2>1, <2>2, NodeCases
<1>2. 0 \in T
  BY <1>0, <1>1
<1>3. ASSUME NEW n \in Nat, n \in T PROVE n + 1 \in T
  <2> SUFFICES ASSUME n + 1 <= MaxDepth, NEW node \in NodesTo[n + 1]
               PROVE  CollectPaneIds(node) \in Seq(Nat)
    OBVIOUS
  <2>1. n + 1 \in 0 .. MaxDepth /\ (n + 1) - 1 = n
    BY <1>0
  <2>2. \A c \in NodesTo[n] : CollectPaneIds(c) \in Seq(Nat)
    BY <1>0, <1>3
  <2> QED
    BY <1>1, <2>1, <2>2
<1>4. Nat \subseteq T
  <2> HIDE DEF T
  <2> QED
    BY <1>2, <1>3, Induct
<1>5. \A node \in Node : CollectPaneIds(node) \in Seq(Nat)
  BY <1>0, <1>4 DEF Node
<1> QED
  BY <1>5 DEF collect, Map

\* A split with children that are nodes is a node.
LEMMA SplitNode ==
    ASSUME NEW d \in Nat, d + 1 <= MaxDepth, NEW dir \in {"row", "column"},
           NEW kids \in Seq(NodesTo[d])
    PROVE  /\ Split(dir, kids) \in Node /\ IsSplit(Split(dir, kids), d + 1)
           /\ Split(dir, kids).type = dir /\ Split(dir, kids).children = kids
           /\ CollectPaneIds(Split(dir, kids)) = FlatMap(collect, kids)
<1> HIDE DEF NodesTo
<1>1. /\ Split(dir, kids) \in NodesTo[d + 1] /\ IsSplit(Split(dir, kids), d + 1)
      /\ Split(dir, kids).type = dir /\ Split(dir, kids).children = kids
  BY SplitIs
<1>2. Split(dir, kids) \in Node
  BY <1>1, NodesToNode, DepthAssumption
<1>3. CollectPaneIds(Split(dir, kids)) = FlatMap(collect, Split(dir, kids).children)
  BY <1>1, <1>2, SplitPanes
<1> QED
  BY <1>1, <1>2, <1>3

-----------------------------------------------------------------------------
(* Nodes in normal form.  Splicing nodes in normal form gives one that shows *)
(* the same panes (SplicedGood), and cleaning one changes nothing.           *)

NormalTo(d) == {n \in NodesTo[d] : NormalForm(n)}

LEMMA NormalGrow ==
    ASSUME NEW e \in 0 .. MaxDepth, NEW d \in 0 .. e
    PROVE  NormalTo(d) \subseteq NormalTo(e) /\ NormalTo(e) \subseteq Node
<1> HIDE DEF NodesTo
<1> QED
  BY NodesToGrow, NodesToNode DEF NormalTo

LEMMA NormalLeaf ==
    ASSUME NEW p \in Nat, NEW d \in 0 .. MaxDepth
    PROVE  Leaf(p) \in NormalTo(d)
<1> HIDE DEF NodesTo
<1>1. Leaf(p) \in NodesTo[d] /\ Leaf(p).type = "leaf" /\ Leaf(p) \in Node
  BY LeafIs, NodesToNode
<1>2. NormalForm(Leaf(p)) = NormalBody(normal, Leaf(p))
  BY <1>1, NormalIs
<1> QED
  BY <1>1, <1>2 DEF NormalBody, NormalTo

\* What makes a split normal.
Apart(kids, dir) == Len(kids) >= 2 /\ \A i \in 1 .. Len(kids) : kids[i].type # dir

LEMMA NormalSplit ==
    ASSUME NEW node \in Node, NEW d \in 0 .. MaxDepth, IsSplit(node, d)
    PROVE  NormalForm(node) <=> /\ Apart(node.children, node.type)
                                /\ \A i \in 1 .. Len(node.children) :
                                      NormalForm(node.children[i])
<1> HIDE DEF NodesTo
<1>1. NormalForm(node) = NormalBody(normal, node) /\ node.type # "leaf"
  BY NormalIs DEF IsSplit
<1>2. DOMAIN node.children = 1 .. Len(node.children)
  BY LenProperties DEF IsSplit
<1>3. ASSUME NEW i \in 1 .. Len(node.children)
      PROVE  normal[node.children[i]] = NormalForm(node.children[i])
  <2>1. node.children[i] \in Node
    BY <1>2, ChildIs
  <2> QED
    BY <2>1, NormalIs
<1> QED
  BY <1>1, <1>2, <1>3, Zenon DEF NormalBody, Apart

LEMMA NormalCases ==
    ASSUME NEW d \in 0 .. MaxDepth, NEW node \in NormalTo(d)
    PROVE  \/ IsLeaf(node)
           \/ /\ IsSplit(node, d) /\ node.children \in Seq(NormalTo(d - 1))
              /\ Apart(node.children, node.type)
<1> HIDE DEF NodesTo
<1>1. node \in NodesTo[d] /\ NormalForm(node) /\ node \in Node
  BY NodesToNode DEF NormalTo
<1>2. CASE IsSplit(node, d)
  <2> DEFINE kids == node.children
  <2>1. Apart(kids, node.type) /\ \A i \in 1 .. Len(kids) : NormalForm(kids[i])
    BY <1>1, <1>2, NormalSplit
  <2>2. kids \in Seq(NodesTo[d - 1])
    BY <1>2 DEF IsSplit
  <2> HIDE DEF kids
  <2>3. \A i \in 1 .. Len(kids) : kids[i] \in NodesTo[d - 1]
    BY <2>2, ElementOfSeq
  <2>4. \A i \in 1 .. Len(kids) : kids[i] \in NormalTo(d - 1)
    BY <2>1, <2>3 DEF NormalTo
  <2>5. kids \in Seq(NormalTo(d - 1))
    BY <2>2, <2>4
  <2> QED
    BY <1>2, <2>1, <2>5 DEF kids
<1> QED
  BY <1>1, <1>2, NodeCases

LEMMA NormalMade ==
    ASSUME NEW d \in Nat, d + 1 <= MaxDepth, NEW dir \in {"row", "column"},
           NEW kids \in Seq(NormalTo(d)), Apart(kids, dir)
    PROVE  Split(dir, kids) \in NormalTo(d + 1)
<1> HIDE DEF NodesTo
<1>0. d + 1 \in 0 .. MaxDepth
  BY DepthAssumption
<1>1. kids \in Seq(NodesTo[d]) /\ \A i \in 1 .. Len(kids) : NormalForm(kids[i])
  <2>1. \A i \in 1 .. Len(kids) : kids[i] \in NormalTo(d)
    BY ElementOfSeq
  <2>2. NormalTo(d) \subseteq NodesTo[d]
    BY DEF NormalTo
  <2>3. kids \in Seq(NodesTo[d])
    BY <2>2, SeqMonotonic
  <2> QED
    BY <2>1, <2>3 DEF NormalTo
<1> DEFINE node == Split(dir, kids)
<1>2. node \in NodesTo[d + 1] /\ IsSplit(node, d + 1) /\ node.type = dir /\ node.children = kids
  BY <1>1, SplitIs
<1> HIDE DEF node
<1>3. node \in Node
  BY <1>0, <1>2, NodesToNode
<1>4. NormalForm(node)
  BY <1>0, <1>1, <1>2, <1>3, NormalSplit
<1>5. node \in NormalTo(d + 1)
  BY <1>2, <1>4 DEF NormalTo
<1> QED
  BY <1>5 DEF node

LEMMA CollectOn ==
    ASSUME NEW d \in 0 .. MaxDepth, NEW kids \in Seq(NormalTo(d))
    PROVE  kids \in Seq(Node) /\ FlatMap(collect, kids) \in Seq(Nat)
<1>1. NormalTo(d) \subseteq Node
  BY NormalGrow
<1>2. kids \in Seq(Node)
  BY <1>1, SeqMonotonic
<1> QED
  BY <1>2, CollectType, FlatMapType

\* The children that go up when a child splits the way its parent does.
part(dir, d) ==
    [k \in NormalTo(d) |-> IF k.type = dir /\ k.children # <<>> THEN k.children ELSE <<k>>]

Others(dir, d) == {k \in NormalTo(d) : k.type # dir}

LEMMA PartIs ==
    ASSUME NEW d \in 0 .. MaxDepth, NEW dir \in {"row", "column"}, NEW k \in NormalTo(d)
    PROVE  /\ part(dir, d)[k] \in Seq(Others(dir, d)) /\ Len(part(dir, d)[k]) >= 1
           /\ k.type # dir => part(dir, d)[k] = <<k>>
           /\ FlatMap(collect, part(dir, d)[k]) = CollectPaneIds(k)
<1> HIDE DEF NodesTo
<1>0. k \in Node
  BY NormalGrow
<1>1. CASE k.type # dir
  <2>1. part(dir, d)[k] = <<k>>
    BY <1>1 DEF part
  <2>2. k \in Others(dir, d)
    BY <1>1 DEF Others
  <2>3. FlatMap(collect, <<k>>) = collect[k]
    BY <1>0, CollectType, FlatMapOne
  <2>4. collect[k] = CollectPaneIds(k)
    BY <1>0, IdsIs
  <2>5. <<k>> \in Seq(Others(dir, d)) /\ Len(<<k>>) = 1
    BY <2>2
  <2> QED
    BY <1>1, <2>1, <2>3, <2>4, <2>5
<1>2. CASE k.type = dir
  <2> DEFINE kids == k.children
  <2>1. IsSplit(k, d) /\ kids \in Seq(NormalTo(d - 1)) /\ Apart(kids, dir)
    BY <1>2, NormalCases DEF IsLeaf
  <2>2. NormalTo(d - 1) \subseteq NormalTo(d)
    BY <2>1, NormalGrow DEF IsSplit
  <2> HIDE DEF kids
  <2>3. \A i \in 1 .. Len(kids) : kids[i] \in Others(dir, d)
    <3>1. \A i \in 1 .. Len(kids) : kids[i] \in NormalTo(d - 1)
      BY <2>1, ElementOfSeq
    <3> QED
      BY <2>1, <2>2, <3>1 DEF Others, Apart
  <2>4. kids \in Seq(Others(dir, d))
    BY <2>1, <2>3
  <2>5. Len(kids) >= 2 /\ kids # <<>>
    BY <2>1 DEF Apart
  <2>6. part(dir, d)[k] = kids
    BY <1>2, <2>5 DEF part, kids
  <2>7. FlatMap(collect, kids) = CollectPaneIds(k)
    BY <1>0, <2>1, SplitPanes DEF kids
  <2> QED
    BY <1>2, <2>4, <2>5, <2>6, <2>7
<1> QED
  BY <1>1, <1>2

\* A flattened sequence is as long as each of its parts.
LEMMA FlatMapLong ==
    ASSUME NEW S, NEW R, NEW g \in Map(S, Seq(R)), NEW s \in Seq(S), NEW i \in 1 .. Len(s)
    PROVE  Len(g[s[i]]) <= Len(FlatMap(g, s))
<1> DEFINE ss == Each(g, s)
<1>1. ss \in Seq(Seq(R)) /\ Len(ss) = Len(s) /\ ss[i] = g[s[i]]
  BY EachIs
<1>2. g[s[i]] \in Seq(R) /\ FlatMap(g, s) \in Seq(R)
  BY ElementOfSeq, FlatMapType DEF Map
<1> HIDE DEF ss
<1>3. PICK at \in [1 .. Len(ss) -> Nat] :
          \A j \in 1 .. Len(ss) : at[j] + Len(ss[j]) <= Len(FlattenSeq(ss))
  BY <1>1, FlattenParts
<1>4. at[i] + Len(g[s[i]]) <= Len(FlatMap(g, s)) /\ at[i] \in Nat
  BY <1>1, <1>3 DEF FlatMap, ss
<1>5. Len(g[s[i]]) \in Nat /\ Len(FlatMap(g, s)) \in Nat
  BY <1>2, LenProperties
<1> QED
  BY <1>4, <1>5

LEMMA SplicedGood ==
    ASSUME NEW d \in Nat, d + 1 <= MaxDepth, NEW dir \in {"row", "column"},
           NEW kids \in Seq(NormalTo(d)), Len(kids) >= 1
    PROVE  /\ Spliced(dir, kids) \in NormalTo(d + 1)
           /\ CollectPaneIds(Spliced(dir, kids)) = FlatMap(collect, kids)
<1> HIDE DEF NodesTo
<1> DEFINE S == Others(dir, d)
           g == part(dir, d)
           ss == Each(g, kids)
           flat == FlatMap(g, kids)
<1>0. d \in 0 .. MaxDepth /\ d + 1 \in 0 .. MaxDepth /\ d \in 0 .. d + 1
  BY DepthAssumption
<1>1. \A k \in NormalTo(d) : /\ g[k] \in Seq(S) /\ Len(g[k]) >= 1
                             /\ FlatMap(collect, g[k]) = CollectPaneIds(k)
  BY <1>0, PartIs
<1>2. g \in Map(NormalTo(d), Seq(S))
  <2>1. g = [k \in NormalTo(d) |-> g[k]]
    BY DEF part
  <2> HIDE DEF g, S
  <2> QED
    BY <1>1, <2>1 DEF Map
<1>3. Spliced(dir, kids) = IF Len(flat) = 1 THEN flat[1] ELSE Split(dir, flat)
  <2>1. \A i \in DOMAIN kids : kids[i] \in NormalTo(d)
    BY ElementOfSeq, LenProperties
  <2>2. ss = [i \in DOMAIN kids |->
                 IF kids[i].type = dir /\ kids[i].children # <<>>
                 THEN kids[i].children ELSE <<kids[i]>>]
    BY <2>1, Zenon DEF Each, part
  <2> QED
    BY <2>2, Zenon DEF Spliced, FlatMap
<1> HIDE DEF g, S
<1>4. flat \in Seq(S)
  BY <1>2, FlatMapType
<1>5. Len(flat) >= 1
  <2>1. 1 \in 1 .. Len(kids) /\ kids[1] \in NormalTo(d)
    BY ElementOfSeq
  <2>2. Len(g[kids[1]]) <= Len(flat) /\ Len(g[kids[1]]) >= 1
    BY <1>1, <1>2, <2>1, FlatMapLong
  <2>3. Len(g[kids[1]]) \in Nat /\ Len(flat) \in Nat
    BY <1>1, <1>4, <2>1, LenProperties
  <2> HIDE DEF flat
  <2> QED
    BY <2>2, <2>3
<1>6. ss \in Seq(Seq(S)) /\ Len(ss) = Len(kids) /\ \A i \in 1 .. Len(kids) : ss[i] = g[kids[i]]
  BY <1>2, EachIs
<1>7. S \subseteq NormalTo(d) /\ S \subseteq Node
  BY <1>0, NormalGrow DEF S, Others
<1>8. FlatMap(collect, flat) = FlatMap(collect, kids)
  <2> HIDE DEF ss
  <2>1. Seq(S) \subseteq Seq(Node)
    BY <1>7, SeqMonotonic
  <2>2. ss \in Seq(Seq(Node))
    BY <1>6, <2>1, SeqMonotonic
  <2>3. FlatMap(collect, FlattenSeq(ss)) = FlattenSeq([i \in DOMAIN ss |-> FlatMap(collect, ss[i])])
    BY <2>2, CollectType, FlatMapFlatten
  <2>4. DOMAIN ss = 1 .. Len(ss) /\ DOMAIN kids = 1 .. Len(kids)
    BY <1>6, LenProperties
  <2>5. ASSUME NEW i \in DOMAIN kids PROVE FlatMap(collect, ss[i]) = collect[kids[i]]
    <3>1. kids[i] \in NormalTo(d) /\ ss[i] = g[kids[i]]
      BY <1>6, <2>4, ElementOfSeq
    <3>2. kids[i] \in Node
      BY <1>0, <3>1, NormalGrow
    <3>3. collect[kids[i]] = CollectPaneIds(kids[i])
      BY <3>2, IdsIs
    <3> QED
      BY <1>1, <3>1, <3>3
  <2>6. [i \in DOMAIN ss |-> FlatMap(collect, ss[i])] = Each(collect, kids)
    BY <1>6, <2>4, <2>5, Zenon DEF Each
  <2> QED
    BY <2>3, <2>6, Zenon DEF FlatMap, ss
<1> HIDE DEF flat, ss
<1>9. \A i \in 1 .. Len(flat) : flat[i] \in S
  BY <1>4, ElementOfSeq
<1>10. CASE Len(flat) = 1
  <2>1. flat[1] \in S
    BY <1>9, <1>10
  <2>2. flat = <<flat[1]>>
    BY <1>4, <1>10
  <2>3. flat[1] \in NormalTo(d + 1) /\ flat[1] \in Node
    BY <1>0, <1>7, <2>1, NormalGrow
  <2>4. FlatMap(collect, <<flat[1]>>) = collect[flat[1]]
    BY <2>3, CollectType, FlatMapOne
  <2>5. collect[flat[1]] = CollectPaneIds(flat[1])
    BY <2>3, IdsIs
  <2> QED
    BY <1>3, <1>8, <1>10, <2>2, <2>3, <2>4, <2>5
<1>11. CASE Len(flat) # 1
  <2>0. Len(flat) \in Nat
    BY <1>4, LenProperties
  <2>1. Len(flat) >= 2
    <3> DEFINE m == Len(flat)
    <3>1. m \in Nat /\ m >= 1 /\ m # 1
      BY <1>5, <1>11, <2>0
    <3> HIDE DEF m
    <3>2. m >= 2
      BY <3>1
    <3> QED
      BY <3>2 DEF m
  <2>2. Apart(flat, dir)
    BY <1>9, <2>1 DEF Apart, S, Others
  <2>3. flat \in Seq(NormalTo(d))
    BY <1>4, <1>7, SeqMonotonic
  <2>4. Split(dir, flat) \in NormalTo(d + 1)
    BY <2>2, <2>3, NormalMade
  <2>5. flat \in Seq(NodesTo[d])
    <3>1. NormalTo(d) \subseteq NodesTo[d]
      BY DEF NormalTo
    <3> QED
      BY <2>3, <3>1, SeqMonotonic
  <2>6. CollectPaneIds(Split(dir, flat)) = FlatMap(collect, flat)
    BY <2>5, SplitNode
  <2> QED
    BY <1>3, <1>8, <1>11, <2>4, <2>6
<1> QED
  BY <1>10, <1>11

\* Splicing the children of a normal split changes nothing.
LEMMA SplicedSame ==
    ASSUME NEW d \in 0 .. MaxDepth, NEW dir \in {"row", "column"},
           NEW kids \in Seq(NormalTo(d)), Apart(kids, dir)
    PROVE  Spliced(dir, kids) = Split(dir, kids)
<1> DEFINE one == [k \in NormalTo(d) |-> <<k>>]
           flat == FlatMap(one, kids)
<1>1. one \in Map(NormalTo(d), Seq(NormalTo(d))) /\ \A k \in NormalTo(d) : one[k] = <<k>>
  BY DEF Map
<1>2. DOMAIN kids = 1 .. Len(kids) /\ \A i \in 1 .. Len(kids) : kids[i] \in NormalTo(d)
  BY ElementOfSeq, LenProperties
<1>3. Each(one, kids) = [i \in DOMAIN kids |->
                            IF kids[i].type = dir /\ kids[i].children # <<>>
                            THEN kids[i].children ELSE <<kids[i]>>]
  BY <1>2, Zenon DEF Each, Apart
<1> HIDE DEF one
<1>4. flat = kids
  BY <1>1, <1>2, FlatMapSame
<1>5. Spliced(dir, kids) = IF Len(flat) = 1 THEN flat[1] ELSE Split(dir, flat)
  BY <1>3, Zenon DEF Spliced, FlatMap
<1>6. Len(kids) # 1
  BY DEF Apart
<1> HIDE DEF flat
<1> QED
  BY <1>4, <1>5, <1>6

\* A tree in normal form has nothing to clean up.
LEMMA CleanNormal ==
    ASSUME NEW d \in 0 .. MaxDepth, NEW node \in NormalTo(d)
    PROVE  CleanupTree(node) = node
<1> HIDE DEF NodesTo
<1> DEFINE T == {n \in Nat : n <= MaxDepth => \A x \in NormalTo(n) : CleanupTree(x) = x}
<1>0. MaxDepth \in Nat
  BY DepthAssumption
<1>1. ASSUME NEW n \in 0 .. MaxDepth, NEW x \in NormalTo(n),
             n # 0 => \A c \in NormalTo(n - 1) : CleanupTree(c) = c
      PROVE  CleanupTree(x) = x
  <2>0. x \in Node
    BY <1>0, NormalGrow
  <2>1. CleanupTree(x) = CleanBody(clean, x)
    BY <2>0, CleanIs
  <2>2. CASE IsLeaf(x)
    BY <2>1, <2>2, Zenon DEF CleanBody, IsLeaf
  <2>3. CASE IsSplit(x, n) /\ x.children \in Seq(NormalTo(n - 1)) /\ Apart(x.children, x.type)
    <3> DEFINE kids == x.children
    <3>1. n # 0 /\ n - 1 \in 0 .. MaxDepth /\ x.type \in {"row", "column"} /\ x.type # "leaf"
      BY <1>0, <2>3 DEF IsSplit
    <3>2. kids \in Seq(NormalTo(n - 1)) /\ Apart(kids, x.type) /\ x = Split(x.type, kids)
      BY <2>3 DEF IsSplit
    <3> HIDE DEF kids
    <3>3. DOMAIN kids = 1 .. Len(kids) /\ \A i \in 1 .. Len(kids) : kids[i] \in NormalTo(n - 1)
      BY <3>2, ElementOfSeq, LenProperties
    <3>4. ASSUME NEW i \in 1 .. Len(kids) PROVE clean[kids[i]] = kids[i]
      <4>1. kids[i] \in Node
        BY <3>1, <3>3, NormalGrow
      <4>2. clean[kids[i]] = CleanupTree(kids[i])
        BY <4>1, CleanIs
      <4> QED
        BY <1>1, <3>1, <3>3, <4>2
    <3>5. Each(clean, kids) = kids
      <4>1. Each(clean, kids) = [i \in DOMAIN kids |-> kids[i]]
        BY <3>3, <3>4, Zenon DEF Each
      <4>2. [i \in DOMAIN kids |-> kids[i]] = kids
        BY <3>2
      <4> QED
        BY <4>1, <4>2
    <3>6. kids # <<>>
      BY <3>2 DEF Apart
    <3>7. CleanupTree(x) = Spliced(x.type, kids)
      BY <2>1, <3>1, <3>5, <3>6, Zenon DEF CleanBody, kids
    <3>8. Spliced(x.type, kids) = Split(x.type, kids)
      BY <3>1, <3>2, SplicedSame
    <3> QED
      BY <3>2, <3>7, <3>8
  <2> QED
    BY <2>2, <2>3, NormalCases
<1>2. 0 \in T
  BY <1>0, <1>1
<1>3. ASSUME NEW n \in Nat, n \in T PROVE n + 1 \in T
  <2> SUFFICES ASSUME n + 1 <= MaxDepth, NEW x \in NormalTo(n + 1)
               PROVE  CleanupTree(x) = x
    OBVIOUS
  <2>1. n + 1 \in 0 .. MaxDepth /\ (n + 1) - 1 = n
    BY <1>0
  <2>2. \A c \in NormalTo(n) : CleanupTree(c) = c
    BY <1>0, <1>3
  <2> QED
    BY <1>1, <2>1, <2>2
<1>4. Nat \subseteq T
  <2> HIDE DEF T
  <2> QED
    BY <1>2, <1>3, Induct
<1> QED
  BY <1>0, <1>4

\* Tidying a split of normal children.
LEMMA CleanSplit ==
    ASSUME NEW d \in Nat, d + 1 <= MaxDepth, NEW dir \in {"row", "column"},
           NEW kids \in Seq(NormalTo(d)), Len(kids) >= 1
    PROVE  /\ CleanupTree(Split(dir, kids)) \in NormalTo(d + 1)
           /\ CollectPaneIds(CleanupTree(Split(dir, kids))) = FlatMap(collect, kids)
<1> HIDE DEF NodesTo
<1> DEFINE x == Split(dir, kids)
<1>0. d \in 0 .. MaxDepth
  BY DepthAssumption
<1>1. kids \in Seq(NodesTo[d])
  <2>1. NormalTo(d) \subseteq NodesTo[d]
    BY DEF NormalTo
  <2> QED
    BY <2>1, SeqMonotonic
<1>2. x \in Node /\ x.type = dir /\ x.children = kids
  BY <1>1, SplitNode
<1> HIDE DEF x
<1>3. CleanupTree(x) = CleanBody(clean, x)
  BY <1>2, CleanIs
<1>4. DOMAIN kids = 1 .. Len(kids) /\ \A i \in 1 .. Len(kids) : kids[i] \in NormalTo(d)
  BY ElementOfSeq, LenProperties
<1>5. ASSUME NEW i \in 1 .. Len(kids) PROVE clean[kids[i]] = kids[i]
  <2>1. kids[i] \in Node
    BY <1>0, <1>4, NormalGrow
  <2>2. clean[kids[i]] = CleanupTree(kids[i])
    BY <2>1, CleanIs
  <2> QED
    BY <1>0, <1>4, <2>2, CleanNormal
<1>6. Each(clean, kids) = kids
  <2>1. Each(clean, kids) = [i \in DOMAIN kids |-> kids[i]]
    BY <1>4, <1>5, Zenon DEF Each
  <2>2. [i \in DOMAIN kids |-> kids[i]] = kids
    OBVIOUS
  <2> QED
    BY <2>1, <2>2
<1>7. kids # <<>> /\ dir # "leaf"
  OBVIOUS
<1>8. CleanupTree(x) = Spliced(dir, kids)
  BY <1>2, <1>3, <1>6, <1>7, Zenon DEF CleanBody
<1>9. Spliced(dir, kids) \in NormalTo(d + 1) /\ CollectPaneIds(Spliced(dir, kids)) = FlatMap(collect, kids)
  BY SplicedGood
<1> QED
  BY <1>8, <1>9 DEF x

-----------------------------------------------------------------------------
(* Taking a leaf out                                                       *)

\* The pieces of a sequence without repetition have no element in common.
LEMMA InjectiveParts ==
    ASSUME NEW S, NEW ss \in Seq(Seq(S)), IsInjective(FlattenSeq(ss)), NEW i \in 1 .. Len(ss)
    PROVE  /\ IsInjective(ss[i])
           /\ \A j \in 1 .. Len(ss) : i # j =>
                 \A k \in 1 .. Len(ss[i]), m \in 1 .. Len(ss[j]) : ss[i][k] # ss[j][m]
<1> DEFINE f == FlattenSeq(ss)
<1>1. f \in Seq(S) /\ DOMAIN f = 1 .. Len(f) /\ Len(f) \in Nat
  BY FlattenType, LenProperties
<1>2. \A a, b \in 1 .. Len(f) : f[a] = f[b] => a = b
  BY <1>1 DEF IsInjective
<1>3. PICK at \in [1 .. Len(ss) -> Nat] :
        /\ \A j \in 1 .. Len(ss) : /\ at[j] + Len(ss[j]) <= Len(f)
                                   /\ \A k \in 1 .. Len(ss[j]) : f[at[j] + k] = ss[j][k]
        /\ \A a, b \in 1 .. Len(ss) : a < b => at[a] + Len(ss[a]) <= at[b]
  BY FlattenParts
<1> HIDE DEF f
<1>4. \A j \in 1 .. Len(ss) : ss[j] \in Seq(S) /\ Len(ss[j]) \in Nat /\ DOMAIN ss[j] = 1 .. Len(ss[j])
  BY ElementOfSeq, LenProperties
<1>5. \A j \in 1 .. Len(ss) : at[j] \in Nat
  OBVIOUS
<1>6. ASSUME NEW j \in 1 .. Len(ss), NEW k \in 1 .. Len(ss[j])
      PROVE  at[j] + k \in 1 .. Len(f)
  BY <1>1, <1>3, <1>4, <1>5, SMTT(30)
<1>7. ASSUME NEW k \in 1 .. Len(ss[i]), NEW m \in 1 .. Len(ss[i]), ss[i][k] = ss[i][m]
      PROVE  k = m
  <2>1. f[at[i] + k] = f[at[i] + m]
    BY <1>3, <1>7
  <2>2. at[i] + k = at[i] + m
    BY <1>2, <1>6, <2>1
  <2>3. k \in Int /\ m \in Int /\ at[i] \in Int
    BY <1>4, <1>5
  <2> QED
    BY <2>2, <2>3
<1>8. ASSUME NEW j \in 1 .. Len(ss), i # j,
             NEW k \in 1 .. Len(ss[i]), NEW m \in 1 .. Len(ss[j]), ss[i][k] = ss[j][m]
      PROVE  FALSE
  <2>1. f[at[i] + k] = f[at[j] + m]
    BY <1>3, <1>8
  <2>2. at[i] + k = at[j] + m
    BY <1>2, <1>6, <2>1
  <2>3. /\ k \in Nat /\ m \in Nat /\ at[i] \in Nat /\ at[j] \in Nat /\ k >= 1 /\ m >= 1
        /\ Len(ss[i]) \in Nat /\ Len(ss[j]) \in Nat /\ k <= Len(ss[i]) /\ m <= Len(ss[j])
    BY <1>4, <1>5
  <2>4. CASE i < j
    <3>1. at[i] + Len(ss[i]) <= at[j]
      BY <1>3, <2>4
    <3> QED
      BY <2>2, <2>3, <3>1, SMTT(30)
  <2>5. CASE j < i
    <3>1. at[j] + Len(ss[j]) <= at[i]
      BY <1>3, <2>5
    <3> QED
      BY <2>2, <2>3, <3>1, SMTT(30)
  <2> QED
    BY <1>8, <2>4, <2>5
<1>9. IsInjective(ss[i])
  BY <1>4, <1>7 DEF IsInjective
<1> QED
  BY <1>8, <1>9

\* The children of a split show different panes.
LEMMA InjectiveKids ==
    ASSUME NEW d \in 0 .. MaxDepth, NEW kids \in Seq(NormalTo(d)),
           IsInjective(FlatMap(collect, kids)), NEW i \in 1 .. Len(kids)
    PROVE  /\ kids[i] \in NormalTo(d) /\ IsInjective(CollectPaneIds(kids[i]))
           /\ \A j \in 1 .. Len(kids), p \in Nat : kids[i] = Leaf(p) /\ kids[j] = Leaf(p) => i = j
<1> HIDE DEF NodesTo
<1> DEFINE ss == Each(collect, kids)
<1>1. kids \in Seq(Node)
  BY CollectOn
<1>2. ss \in Seq(Seq(Nat)) /\ Len(ss) = Len(kids) /\ \A j \in 1 .. Len(kids) : ss[j] = collect[kids[j]]
  BY <1>1, CollectType, EachIs
<1>3. IsInjective(FlattenSeq(ss))
  BY DEF FlatMap
<1> HIDE DEF ss
<1>4. \A j \in 1 .. Len(kids) : kids[j] \in NormalTo(d) /\ kids[j] \in Node
  BY <1>1, ElementOfSeq
<1>5. \A j \in 1 .. Len(kids) : ss[j] = CollectPaneIds(kids[j])
  BY <1>2, <1>4, IdsIs
<1>6. /\ IsInjective(ss[i])
      /\ \A j \in 1 .. Len(ss) : i # j =>
             \A k \in 1 .. Len(ss[i]), m \in 1 .. Len(ss[j]) : ss[i][k] # ss[j][m]
  BY <1>2, <1>3, InjectiveParts
<1>7. ASSUME NEW j \in 1 .. Len(kids), NEW p \in Nat, kids[i] = Leaf(p), kids[j] = Leaf(p), i # j
      PROVE  FALSE
  <2>1. ss[i] = <<p>> /\ ss[j] = <<p>>
    BY <1>5, <1>7, LeafPanes
  <2>2. 1 \in 1 .. Len(ss[i]) /\ 1 \in 1 .. Len(ss[j]) /\ ss[i][1] = ss[j][1]
    BY <2>1
  <2> QED
    BY <1>2, <1>6, <1>7, <2>2
<1> QED
  BY <1>4, <1>5, <1>6, <1>7

\* What is done to every child shows in the panes of all.
LEMMA Through ==
    ASSUME NEW S, S \subseteq Node, NEW kids \in Seq(S), NEW g \in Map(S, Seq(Node)),
           NEW h \in Map(Nat, Seq(Nat)),
           \A c \in S : FlatMap(collect, g[c]) = FlatMap(h, CollectPaneIds(c))
    PROVE  FlatMap(collect, FlatMap(g, kids)) = FlatMap(h, FlatMap(collect, kids))
<1> HIDE DEF NodesTo
<1> DEFINE ss == Each(g, kids)
           tt == Each(collect, kids)
<1>1. kids \in Seq(Node)
  BY SeqMonotonic
<1>2. ss \in Seq(Seq(Node)) /\ Len(ss) = Len(kids) /\ \A i \in 1 .. Len(kids) : ss[i] = g[kids[i]]
  BY EachIs
<1>3. tt \in Seq(Seq(Nat)) /\ Len(tt) = Len(kids) /\ \A i \in 1 .. Len(kids) : tt[i] = collect[kids[i]]
  BY <1>1, CollectType, EachIs
<1>4. FlatMap(g, kids) = FlattenSeq(ss) /\ FlatMap(collect, kids) = FlattenSeq(tt)
  BY DEF FlatMap
<1> HIDE DEF ss, tt
<1>5. FlatMap(collect, FlattenSeq(ss)) = FlattenSeq([i \in DOMAIN ss |-> FlatMap(collect, ss[i])])
  BY <1>2, CollectType, FlatMapFlatten
<1>6. FlatMap(h, FlattenSeq(tt)) = FlattenSeq([i \in DOMAIN tt |-> FlatMap(h, tt[i])])
  BY <1>3, FlatMapFlatten
<1>7. DOMAIN ss = 1 .. Len(kids) /\ DOMAIN tt = 1 .. Len(kids)
  BY <1>2, <1>3, LenProperties
<1>8. ASSUME NEW i \in 1 .. Len(kids) PROVE FlatMap(collect, ss[i]) = FlatMap(h, tt[i])
  <2>1. kids[i] \in S /\ kids[i] \in Node
    BY ElementOfSeq
  <2>2. tt[i] = CollectPaneIds(kids[i])
    BY <1>3, <2>1, IdsIs
  <2> QED
    BY <1>2, <2>1, <2>2
<1>9. [i \in DOMAIN ss |-> FlatMap(collect, ss[i])] = [i \in DOMAIN tt |-> FlatMap(h, tt[i])]
  BY <1>7, <1>8, Zenon
<1> QED
  BY <1>4, <1>5, <1>6, <1>9, Zenon

\* The effect on the leaves: nothing in the place of p.
drop(p) == [q \in Nat |-> IF q = p THEN <<>> ELSE <<q>>]

LEMMA DropIs ==
    ASSUME NEW p \in Nat
    PROVE  /\ drop(p) \in Map(Nat, Seq(Nat))
           /\ FlatMap(drop(p), <<p>>) = <<>>
           /\ \A q \in Nat \ {p} : FlatMap(drop(p), <<q>>) = <<q>>
<1>1. drop(p) \in Map(Nat, Seq(Nat))
  <2>1. \A q \in Nat : (IF q = p THEN <<>> ELSE <<q>>) \in Seq(Nat)
    OBVIOUS
  <2> QED
    BY <2>1, Zenon DEF drop, Map
<1>2. drop(p)[p] = <<>> /\ \A q \in Nat \ {p} : drop(p)[q] = <<q>>
  BY DEF drop
<1>3. \A q \in Nat : FlatMap(drop(p), <<q>>) = drop(p)[q]
  BY <1>1, FlatMapOne
<1> QED
  BY <1>1, <1>2, <1>3

\* One level of the removal.
LEMMA RemoveStep ==
    ASSUME NEW p \in Nat, NEW n \in 0 .. MaxDepth, NEW x \in NormalTo(n),
           x # Leaf(p), IsInjective(CollectPaneIds(x)),
           n # 0 => \A c \in NormalTo(n - 1) :
                       c # Leaf(p) /\ IsInjective(CollectPaneIds(c)) =>
                          /\ RemoveLeaf(c, p) \in NormalTo(n - 1)
                          /\ CollectPaneIds(RemoveLeaf(c, p)) = FlatMap(drop(p), CollectPaneIds(c))
    PROVE  /\ RemoveLeaf(x, p) \in NormalTo(n)
           /\ CollectPaneIds(RemoveLeaf(x, p)) = FlatMap(drop(p), CollectPaneIds(x))
<1> HIDE DEF NodesTo
<1>0. x \in Node
  BY NormalGrow
<1>1. RemoveLeaf(x, p) = RemovedBody(p, remove(p), x)
  BY <1>0, RemovedIs
<1>2. CASE IsLeaf(x)
  <2>1. RemoveLeaf(x, p) = x
    BY <1>1, <1>2, Zenon DEF RemovedBody, IsLeaf
  <2>2. x.paneId \in Nat \ {p} /\ CollectPaneIds(x) = <<x.paneId>>
    BY <1>2, LeafPanes DEF IsLeaf
  <2> QED
    BY <2>1, <2>2, DropIs
<1>3. CASE IsSplit(x, n) /\ x.children \in Seq(NormalTo(n - 1)) /\ Apart(x.children, x.type)
  <2> DEFINE kids == x.children
             m == n - 1
             D == {c \in NormalTo(m) : IsInjective(CollectPaneIds(c))}
             g == [c \in D |-> IF c = Leaf(p) THEN <<>> ELSE <<RemoveLeaf(c, p)>>]
             rest == FlatMap(g, kids)
  <2>1. /\ n # 0 /\ m \in 0 .. MaxDepth /\ m \in Nat /\ m + 1 <= MaxDepth /\ m + 1 = n
        /\ x.type \in {"row", "column"} /\ x.type # "leaf"
    BY <1>3, DepthAssumption DEF IsSplit
  <2>2. kids \in Seq(NormalTo(m)) /\ Len(kids) >= 2 /\ CollectPaneIds(x) = FlatMap(collect, kids)
    BY <1>0, <1>3, SplitPanes DEF Apart
  <2>3. \A c \in NormalTo(m) : c # Leaf(p) /\ IsInjective(CollectPaneIds(c)) =>
                          /\ RemoveLeaf(c, p) \in NormalTo(m)
                          /\ CollectPaneIds(RemoveLeaf(c, p)) = FlatMap(drop(p), CollectPaneIds(c))
    BY <2>1
  <2>4. [i \in DOMAIN kids |-> IF kids[i] = Leaf(p) THEN <<>> ELSE <<remove(p)[kids[i]]>>]
            = Each(g, kids) /\ kids \in Seq(D)
    <3> HIDE DEF kids, m
    <3>1. DOMAIN kids = 1 .. Len(kids)
      BY <2>2, LenProperties
    <3>2. ASSUME NEW i \in 1 .. Len(kids) PROVE kids[i] \in D
      BY <2>1, <2>2, InjectiveKids
    <3>3. ASSUME NEW i \in 1 .. Len(kids) PROVE remove(p)[kids[i]] = RemoveLeaf(kids[i], p)
      <4>1. kids[i] \in Node
        BY <2>1, <3>2, NormalGrow
      <4> QED
        BY <4>1, RemovedIs
    <3> HIDE DEF D
    <3>4. kids \in Seq(D)
      BY <2>2, <3>2
    <3> QED
      BY <3>1, <3>2, <3>3, <3>4, Zenon DEF Each
  <2>5. RemoveLeaf(x, p) = CleanupTree(Split(x.type, rest))
    BY <1>1, <2>1, <2>4, Zenon DEF RemovedBody, FlatMap
  <2> HIDE DEF kids, m
  <2>6. ASSUME NEW c \in D
        PROVE  /\ g[c] \in Seq(NormalTo(m)) /\ g[c] \in Seq(Node)
               /\ FlatMap(collect, g[c]) = FlatMap(drop(p), CollectPaneIds(c))
    <3>1. CASE c = Leaf(p)
      <4>1. g[c] = <<>>
        BY <3>1
      <4>2. FlatMap(collect, <<>>) = <<>>
        BY FlatMapEmpty
      <4>3. CollectPaneIds(c) = <<p>>
        BY <3>1, LeafPanes
      <4> QED
        BY <4>1, <4>2, <4>3, DropIs
    <3>2. CASE c # Leaf(p)
      <4> DEFINE y == RemoveLeaf(c, p)
      <4>1. g[c] = <<y>>
        BY <3>2
      <4>2. y \in NormalTo(m) /\ CollectPaneIds(y) = FlatMap(drop(p), CollectPaneIds(c))
        BY <2>3, <3>2
      <4>3. y \in Node
        BY <2>1, <4>2, NormalGrow
      <4> HIDE DEF y, g
      <4>4. FlatMap(collect, <<y>>) = collect[y]
        BY <4>3, CollectType, FlatMapOne
      <4>5. collect[y] = CollectPaneIds(y)
        BY <4>3, IdsIs
      <4>6. <<y>> \in Seq(NormalTo(m)) /\ <<y>> \in Seq(Node)
        BY <4>2, <4>3
      <4> QED
        BY <4>1, <4>2, <4>4, <4>5, <4>6
    <3> QED
      BY <3>1, <3>2
  <2>7. g \in Map(D, Seq(NormalTo(m))) /\ g \in Map(D, Seq(Node))
    BY <2>6, Zenon DEF Map
  <2>8. D \subseteq Node
    BY <2>1, NormalGrow
  <2>9. Len(rest) >= 1 /\ rest \in Seq(NormalTo(m))
    <3>1. 1 \in 1 .. Len(kids) /\ 2 \in 1 .. Len(kids)
      BY <2>2, LenProperties
    <3>2. ~(kids[1] = Leaf(p) /\ kids[2] = Leaf(p))
      <4>1. \A j \in 1 .. Len(kids), q \in Nat : kids[1] = Leaf(q) /\ kids[j] = Leaf(q) => 1 = j
        BY <2>1, <2>2, <3>1, InjectiveKids
      <4> QED
        BY <3>1, <4>1
    <3>3. PICK i \in 1 .. Len(kids) : kids[i] # Leaf(p)
      BY <3>1, <3>2
    <3>4. kids[i] \in D
      <4> HIDE DEF D
      <4> QED
        BY <2>4, ElementOfSeq
    <3>5. g[kids[i]] = <<RemoveLeaf(kids[i], p)>>
      BY <3>3, <3>4
    <3>6. Len(g[kids[i]]) = 1
      BY <3>5, SMTT(30)
    <3> HIDE DEF g, D
    <3>7. Len(g[kids[i]]) <= Len(rest)
      BY <2>4, <2>7, FlatMapLong
    <3>8. rest \in Seq(NormalTo(m))
      BY <2>4, <2>7, FlatMapType
    <3> QED
      BY <3>6, <3>7, <3>8
  <2> HIDE DEF g, D
  <2>10. FlatMap(collect, rest) = FlatMap(drop(p), FlatMap(collect, kids))
    BY <2>4, <2>6, <2>7, <2>8, DropIs, Through
  <2> HIDE DEF rest
  <2>11. /\ CleanupTree(Split(x.type, rest)) \in NormalTo(m + 1)
         /\ CollectPaneIds(CleanupTree(Split(x.type, rest))) = FlatMap(collect, rest)
    BY <2>1, <2>9, CleanSplit
  <2> QED
    BY <2>1, <2>2, <2>5, <2>10, <2>11
<1> QED
  BY <1>2, <1>3, NormalCases

\* removeLeaf drops one pane from the leaves, keeps the form, and makes no
\* tree deeper.
LEMMA RemoveGood ==
    ASSUME NEW p \in Nat, NEW d \in 0 .. MaxDepth, NEW node \in NormalTo(d),
           node # Leaf(p), IsInjective(CollectPaneIds(node))
    PROVE  /\ RemoveLeaf(node, p) \in NormalTo(d)
           /\ CollectPaneIds(RemoveLeaf(node, p)) = FlatMap(drop(p), CollectPaneIds(node))
<1> HIDE DEF NodesTo
<1> DEFINE Good(x, n) ==
              x # Leaf(p) /\ IsInjective(CollectPaneIds(x)) =>
                 /\ RemoveLeaf(x, p) \in NormalTo(n)
                 /\ CollectPaneIds(RemoveLeaf(x, p)) = FlatMap(drop(p), CollectPaneIds(x))
           T == {n \in Nat : n <= MaxDepth => \A x \in NormalTo(n) : Good(x, n)}
<1>0. MaxDepth \in Nat
  BY DepthAssumption
<1>1. ASSUME NEW n \in 0 .. MaxDepth, NEW x \in NormalTo(n),
             n # 0 => \A c \in NormalTo(n - 1) : Good(c, n - 1)
      PROVE  Good(x, n)
  BY <1>1, RemoveStep
<1> HIDE DEF Good
<1>2. 0 \in T
  BY <1>0, <1>1
<1>3. ASSUME NEW n \in Nat, n \in T PROVE n + 1 \in T
  <2> SUFFICES ASSUME n + 1 <= MaxDepth, NEW x \in NormalTo(n + 1) PROVE Good(x, n + 1)
    OBVIOUS
  <2>1. n + 1 \in 0 .. MaxDepth /\ (n + 1) - 1 = n
    BY <1>0
  <2>2. \A c \in NormalTo(n) : Good(c, n)
    BY <1>0, <1>3
  <2> QED
    BY <1>1, <2>1, <2>2
<1>4. Nat \subseteq T
  <2> HIDE DEF T
  <2> QED
    BY <1>2, <1>3, Induct
<1>5. Good(node, d)
  BY <1>0, <1>4
<1> QED
  BY <1>5 DEF Good

-----------------------------------------------------------------------------
(* Putting a leaf in                                                       *)

\* The effect on the leaves: two in the place of the target.
beside(target, new, zone) ==
    [q \in Nat |-> IF q = target
                   THEN IF zone \in {"left", "top"} THEN <<new, q>> ELSE <<q, new>>
                   ELSE <<q>>]

LEMMA BesideIs ==
    ASSUME NEW target \in Nat, NEW new \in Nat, NEW zone
    PROVE  /\ beside(target, new, zone) \in Map(Nat, Seq(Nat))
           /\ FlatMap(beside(target, new, zone), <<target>>) =
                 IF zone \in {"left", "top"} THEN <<new, target>> ELSE <<target, new>>
           /\ \A q \in Nat \ {target} : FlatMap(beside(target, new, zone), <<q>>) = <<q>>
<1> DEFINE h == beside(target, new, zone)
<1>1. h \in Map(Nat, Seq(Nat))
  <2>1. \A q \in Nat : (IF q = target
                        THEN IF zone \in {"left", "top"} THEN <<new, q>> ELSE <<q, new>>
                        ELSE <<q>>) \in Seq(Nat)
    OBVIOUS
  <2> QED
    BY <2>1, Zenon DEF beside, Map
<1>2. /\ h[target] = IF zone \in {"left", "top"} THEN <<new, target>> ELSE <<target, new>>
      /\ \A q \in Nat \ {target} : h[q] = <<q>>
  BY DEF beside
<1> HIDE DEF h
<1>3. \A q \in Nat : FlatMap(h, <<q>>) = h[q]
  BY <1>1, FlatMapOne
<1>4. \A q \in Nat \ {target} : FlatMap(h, <<q>>) = <<q>>
  BY <1>2, <1>3
<1>5. FlatMap(h, <<target>>) = IF zone \in {"left", "top"} THEN <<new, target>> ELSE <<target, new>>
  BY <1>2, <1>3
<1> QED
  BY <1>1, <1>4, <1>5 DEF h

LEMMA TwoIs ==
    ASSUME NEW a, NEW b
    PROVE  <<a, b>> = <<a>> \o <<b>>
<1> DEFINE one == <<a>>
           S == {a, b}
<1>1. one \in Seq(S) /\ b \in S
  OBVIOUS
<1> DEFINE two == <<a, b>>
<1>4. two \in Seq(S) /\ Len(two) = 2 /\ two[1] = a /\ two[2] = b
  OBVIOUS
<1>5. Len(one) = 1 /\ one[1] = a
  OBVIOUS
<1> HIDE DEF one, S, two
<1>6. /\ Append(one, b) \in Seq(S) /\ Len(Append(one, b)) = 2
      /\ Append(one, b)[1] = a /\ Append(one, b)[2] = b
  <2>1. /\ Append(one, b) \in Seq(S) /\ Len(Append(one, b)) = Len(one) + 1
        /\ \A i \in 1 .. Len(one) : Append(one, b)[i] = one[i]
        /\ Append(one, b)[Len(one) + 1] = b
    BY <1>1, AppendProperties
  <2> DEFINE r == Append(one, b)
             n == Len(one)
  <2> HIDE DEF r, n
  <2>2. /\ r \in Seq(S) /\ Len(r) = n + 1 /\ r[n + 1] = b /\ n = 1
        /\ \A i \in 1 .. n : r[i] = one[i]
    BY <1>5, <2>1, Zenon DEF r, n
  <2>3. n + 1 = 2 /\ 1 \in 1 .. n
    BY <2>2
  <2>4. r \in Seq(S) /\ Len(r) = 2 /\ r[1] = a /\ r[2] = b
    BY <1>5, <2>2, <2>3
  <2> QED
    BY <2>4 DEF r
<1>2. Append(one, b) = two
  <2>1. \A i \in 1 .. Len(two) : two[i] = Append(one, b)[i]
    BY <1>4, <1>6
  <2> QED
    BY <1>4, <1>6, <2>1, SeqEqual
<1>3. Append(one, b) = one \o <<b>>
  BY <1>1, AppendIsConcat
<1> QED
  BY <1>2, <1>3 DEF one, two

LEMMA BesideOther ==
    ASSUME NEW target \in Nat, NEW new \in Nat, NEW zone, NEW q \in Nat, q # target
    PROVE  FlatMap(beside(target, new, zone), <<q>>) = <<q>>
<1> DEFINE h == beside(target, new, zone)
<1>1. h \in Map(Nat, Seq(Nat))
  BY BesideIs
<1>2. h[q] = <<q>>
  BY DEF beside
<1> HIDE DEF h
<1>3. FlatMap(h, <<q>>) = h[q]
  BY <1>1, FlatMapOne
<1> QED
  BY <1>2, <1>3 DEF h

\* The split that takes the place of a leaf.
LEMMA PairGood ==
    ASSUME NEW a \in Nat, NEW b \in Nat, NEW dir \in {"row", "column"},
           NEW n \in 0 .. MaxDepth, n + 1 <= MaxDepth
    PROVE  /\ Split(dir, <<Leaf(a), Leaf(b)>>) \in NormalTo(n + 1)
           /\ CollectPaneIds(Split(dir, <<Leaf(a), Leaf(b)>>)) = <<a, b>>
<1> HIDE DEF NodesTo
<1> DEFINE x == Leaf(a)
           y == Leaf(b)
<1>0. n \in Nat /\ n \in 0 .. MaxDepth
  OBVIOUS
<1>1. x \in NormalTo(n) /\ y \in NormalTo(n) /\ x.type = "leaf" /\ y.type = "leaf"
  BY NormalLeaf, LeafIs
<1>2. x \in Node /\ y \in Node /\ CollectPaneIds(x) = <<a>> /\ CollectPaneIds(y) = <<b>>
  BY <1>1, NormalGrow, LeafPanes
<1> HIDE DEF x, y
<1> DEFINE kids == <<x, y>>
<1>3. kids \in Seq(NormalTo(n)) /\ Len(kids) = 2 /\ kids[1] = x /\ kids[2] = y
  BY <1>1
<1>41. kids = <<x>> \o <<y>>
  BY TwoIs
<1>42. <<x>> \in Seq(Node) /\ <<y>> \in Seq(Node)
  BY <1>2
<1>4. kids = <<x>> \o <<y>> /\ <<x>> \in Seq(Node) /\ <<y>> \in Seq(Node)
  BY <1>41, <1>42, Zenon
<1> HIDE DEF kids
<1>5. Apart(kids, dir)
  BY <1>1, <1>3 DEF Apart
<1>6. Split(dir, kids) \in NormalTo(n + 1)
  BY <1>0, <1>3, <1>5, NormalMade
<1>7. CollectPaneIds(Split(dir, kids)) = FlatMap(collect, kids)
  <2>1. NormalTo(n) \subseteq NodesTo[n]
    BY DEF NormalTo
  <2>2. kids \in Seq(NodesTo[n])
    BY <1>3, <2>1, SeqMonotonic
  <2> QED
    BY <1>0, <2>2, SplitNode
<1>8. FlatMap(collect, kids) = FlatMap(collect, <<x>>) \o FlatMap(collect, <<y>>)
  <2> DEFINE u == <<x>>
             v == <<y>>
  <2>1. u \in Seq(Node) /\ v \in Seq(Node) /\ kids = u \o v
    BY <1>4
  <2> HIDE DEF u, v
  <2>2. FlatMap(collect, u \o v) = FlatMap(collect, u) \o FlatMap(collect, v)
    BY <2>1, CollectType, FlatMapCat
  <2> QED
    BY <2>1, <2>2 DEF u, v
<1>9. FlatMap(collect, <<x>>) = <<a>> /\ FlatMap(collect, <<y>>) = <<b>>
  <2>1. FlatMap(collect, <<x>>) = collect[x] /\ FlatMap(collect, <<y>>) = collect[y]
    BY <1>2, CollectType, FlatMapOne
  <2>2. collect[x] = CollectPaneIds(x) /\ collect[y] = CollectPaneIds(y)
    BY <1>2, IdsIs
  <2> QED
    BY <1>2, <2>1, <2>2
<1>10. <<a>> \o <<b>> = <<a, b>>
  BY TwoIs
<1> QED
  BY <1>6, <1>7, <1>8, <1>9, <1>10 DEF kids, x, y

\* One level of the insertion.
LEMMA InsertStep ==
    ASSUME NEW target \in Nat, NEW new \in Nat, NEW zone,
           NEW n \in 0 .. MaxDepth, n + 1 <= MaxDepth, NEW x \in NormalTo(n),
           n # 0 => \A c \in NormalTo(n - 1) :
                       /\ InsertAtLeaf(c, target, new, zone) \in NormalTo(n)
                       /\ CollectPaneIds(InsertAtLeaf(c, target, new, zone)) =
                             FlatMap(beside(target, new, zone), CollectPaneIds(c))
    PROVE  /\ InsertAtLeaf(x, target, new, zone) \in NormalTo(n + 1)
           /\ CollectPaneIds(InsertAtLeaf(x, target, new, zone)) =
                 FlatMap(beside(target, new, zone), CollectPaneIds(x))
<1> HIDE DEF NodesTo
<1> DEFINE h == beside(target, new, zone)
           g == insert(target, new, zone)
           y == InsertAtLeaf(x, target, new, zone)
<1>0. x \in Node /\ n + 1 \in 0 .. MaxDepth
  BY NormalGrow, DepthAssumption
<1>1. y = GrownBody(target, new, zone, g, x)
  BY <1>0, GrownIs
<1>2. h \in Map(Nat, Seq(Nat))
  BY BesideIs
<1>3. CASE x = Leaf(target)
  <2>1. y = Split(Direction(zone), IF zone \in {"left", "top"}
                      THEN <<Leaf(new), Leaf(target)>> ELSE <<Leaf(target), Leaf(new)>>)
    BY <1>1, <1>3, Zenon DEF GrownBody
  <2>2. Direction(zone) \in {"row", "column"}
    BY DEF Direction
  <2>3. CollectPaneIds(x) = <<target>>
    BY <1>3, LeafPanes
  <2> HIDE DEF y
  <2>4. CASE zone \in {"left", "top"}
    <3>1. y = Split(Direction(zone), <<Leaf(new), Leaf(target)>>)
      BY <2>1, <2>4
    <3>2. FlatMap(h, <<target>>) = <<new, target>>
      BY <2>4, BesideIs
    <3> HIDE DEF h
    <3>3. y \in NormalTo(n + 1) /\ CollectPaneIds(y) = <<new, target>>
      BY <2>2, <3>1, PairGood
    <3> QED
      BY <2>3, <3>2, <3>3 DEF y, h
  <2>5. CASE zone \notin {"left", "top"}
    <3>1. y = Split(Direction(zone), <<Leaf(target), Leaf(new)>>)
      BY <2>1, <2>5
    <3>2. FlatMap(h, <<target>>) = <<target, new>>
      BY <2>5, BesideIs, ZenonT(40)
    <3> HIDE DEF h
    <3>3. y \in NormalTo(n + 1) /\ CollectPaneIds(y) = <<target, new>>
      BY <2>2, <3>1, PairGood
    <3> QED
      BY <2>3, <3>2, <3>3 DEF y, h
  <2> QED
    BY <2>4, <2>5
<1>4. CASE IsLeaf(x) /\ x # Leaf(target)
  <2>1. y = x
    BY <1>1, <1>4, Zenon DEF GrownBody, IsLeaf
  <2>2. x.paneId \in Nat \ {target} /\ CollectPaneIds(x) = <<x.paneId>>
    BY <1>4, LeafPanes DEF IsLeaf
  <2>3. FlatMap(h, <<x.paneId>>) = <<x.paneId>>
    <3> DEFINE q == x.paneId
    <3>1. q \in Nat /\ q # target
      BY <2>2
    <3> HIDE DEF q, h, y, g
    <3>2. FlatMap(h, <<q>>) = <<q>>
      BY <3>1, BesideOther DEF h
    <3> QED
      BY <3>2 DEF q
  <2>4. x \in NormalTo(n + 1)
    BY <1>0, NormalGrow
  <2> QED
    BY <2>1, <2>2, <2>3, <2>4
<1>5. CASE /\ IsSplit(x, n) /\ x.children \in Seq(NormalTo(n - 1))
           /\ Apart(x.children, x.type)
  <2> DEFINE kids == x.children
             m == n - 1
             rest == Each(g, kids)
  <2>1. /\ n # 0 /\ m \in 0 .. MaxDepth /\ m \in Nat /\ n \in Nat
        /\ x.type \in {"row", "column"} /\ x.type # "leaf" /\ x # Leaf(target)
    BY <1>5, DepthAssumption DEF IsSplit, Leaf
  <2>2. kids \in Seq(NormalTo(m)) /\ Len(kids) >= 2 /\ CollectPaneIds(x) = FlatMap(collect, kids)
    BY <1>0, <1>5, SplitPanes DEF Apart
  <2>3. \A c \in NormalTo(m) :
            /\ InsertAtLeaf(c, target, new, zone) \in NormalTo(n)
            /\ CollectPaneIds(InsertAtLeaf(c, target, new, zone)) = FlatMap(h, CollectPaneIds(c))
    BY <2>1
  <2>4. y = CleanupTree(Split(x.type, rest))
    BY <1>1, <2>1, Zenon DEF GrownBody
  <2> HIDE DEF kids, m, h, y
  <2>5. DOMAIN kids = 1 .. Len(kids) /\ \A i \in 1 .. Len(kids) : kids[i] \in NormalTo(m)
    BY <2>2, ElementOfSeq, LenProperties
  <2>6. ASSUME NEW c \in NormalTo(m)
        PROVE  g[c] \in NormalTo(n) /\ g[c] \in Node /\ CollectPaneIds(g[c]) = FlatMap(h, collect[c])
    <3>1. c \in Node
      BY <2>1, NormalGrow
    <3>2. g[c] = InsertAtLeaf(c, target, new, zone)
      BY <3>1, GrownIs
    <3>3. collect[c] = CollectPaneIds(c)
      BY <3>1, IdsIs
    <3>4. g[c] \in NormalTo(n) /\ CollectPaneIds(g[c]) = FlatMap(h, collect[c])
      BY <2>3, <3>2, <3>3
    <3>5. g[c] \in Node
      BY <3>4, NormalGrow
    <3> QED
      BY <3>4, <3>5
  <2> HIDE DEF g
  <2>7. rest \in Seq(NormalTo(n)) /\ Len(rest) >= 1
    <3>1. \A i \in 1 .. Len(kids) : g[kids[i]] \in NormalTo(n)
      BY <2>5, <2>6
    <3>2. rest = [i \in 1 .. Len(kids) |-> g[kids[i]]]
      BY <2>5, Zenon DEF Each
    <3>3. Len(kids) \in Nat
      BY <2>2, LenProperties
    <3> QED
      BY <2>2, <3>1, <3>2, <3>3
  <2>8. FlatMap(collect, rest) = FlatMap(h, FlatMap(collect, kids))
    <3> DEFINE tt == Each(collect, kids)
    <3>1. kids \in Seq(Node)
      BY <2>1, <2>2, CollectOn
    <3>2. tt \in Seq(Seq(Nat)) /\ Len(tt) = Len(kids) /\ \A i \in 1 .. Len(kids) : tt[i] = collect[kids[i]]
      BY <3>1, CollectType, EachIs
    <3>3. FlatMap(collect, kids) = FlattenSeq(tt)
      BY DEF FlatMap
    <3> HIDE DEF tt
    <3>4. FlatMap(h, FlattenSeq(tt)) = FlattenSeq([i \in DOMAIN tt |-> FlatMap(h, tt[i])])
      BY <1>2, <3>2, FlatMapFlatten DEF h
    <3>5. DOMAIN tt = 1 .. Len(kids) /\ DOMAIN rest = 1 .. Len(kids)
      <4>1. DOMAIN tt = 1 .. Len(kids)
        BY <3>2, LenProperties
      <4>2. DOMAIN rest = 1 .. Len(kids)
        BY <2>5, Zenon DEF Each
      <4> QED
        BY <4>1, <4>2
    <3>6. ASSUME NEW i \in 1 .. Len(kids) PROVE collect[rest[i]] = FlatMap(h, tt[i])
      <4>1. rest[i] = g[kids[i]]
        BY <2>5, Zenon DEF Each
      <4>2. kids[i] \in NormalTo(m)
        BY <2>5
      <4>3. g[kids[i]] \in Node /\ CollectPaneIds(g[kids[i]]) = FlatMap(h, collect[kids[i]])
        BY <2>6, <4>2
      <4>4. collect[g[kids[i]]] = CollectPaneIds(g[kids[i]])
        BY <4>3, IdsIs
      <4> HIDE DEF rest
      <4> QED
        BY <3>2, <4>1, <4>3, <4>4
    <3> HIDE DEF rest
    <3>7. Each(collect, rest) = [i \in DOMAIN tt |-> FlatMap(h, tt[i])]
      BY <3>5, <3>6, Zenon DEF Each
    <3> QED
      BY <3>3, <3>4, <3>7, Zenon DEF FlatMap
  <2> HIDE DEF rest
  <2>9. /\ CleanupTree(Split(x.type, rest)) \in NormalTo(n + 1)
        /\ CollectPaneIds(CleanupTree(Split(x.type, rest))) = FlatMap(collect, rest)
    BY <2>1, <2>7, CleanSplit
  <2>10. y \in NormalTo(n + 1) /\ CollectPaneIds(y) = FlatMap(h, CollectPaneIds(x))
    BY <2>2, <2>4, <2>8, <2>9
  <2> QED
    BY <2>10 DEF y, h
<1> HIDE DEF y, g, h
<1>6. IsLeaf(x) \/ (/\ IsSplit(x, n) /\ x.children \in Seq(NormalTo(n - 1))
                    /\ Apart(x.children, x.type))
  BY NormalCases
<1> QED
  BY <1>3, <1>4, <1>5, <1>6 DEF y, h

\* insertAtLeaf puts the new pane beside its target and keeps the form.
LEMMA InsertGood ==
    ASSUME NEW target \in Nat, NEW new \in Nat, NEW zone,
           NEW d \in 0 .. MaxDepth, d + 1 <= MaxDepth, NEW node \in NormalTo(d)
    PROVE  /\ InsertAtLeaf(node, target, new, zone) \in NormalTo(d + 1)
           /\ CollectPaneIds(InsertAtLeaf(node, target, new, zone)) =
                 FlatMap(beside(target, new, zone), CollectPaneIds(node))
<1> HIDE DEF NodesTo
<1> DEFINE Good(x, n) ==
              /\ InsertAtLeaf(x, target, new, zone) \in NormalTo(n + 1)
              /\ CollectPaneIds(InsertAtLeaf(x, target, new, zone)) =
                    FlatMap(beside(target, new, zone), CollectPaneIds(x))
           T == {n \in Nat : n + 1 <= MaxDepth => \A x \in NormalTo(n) : Good(x, n)}
<1>0. MaxDepth \in Nat
  BY DepthAssumption
<1>1. ASSUME NEW n \in 0 .. MaxDepth, n + 1 <= MaxDepth, NEW x \in NormalTo(n),
             n # 0 => \A c \in NormalTo(n - 1) : Good(c, n - 1)
      PROVE  Good(x, n)
  <2>1. n # 0 => \A c \in NormalTo(n - 1) :
                       /\ InsertAtLeaf(c, target, new, zone) \in NormalTo(n)
                       /\ CollectPaneIds(InsertAtLeaf(c, target, new, zone)) =
                             FlatMap(beside(target, new, zone), CollectPaneIds(c))
    <3>1. (n - 1) + 1 = n
      OBVIOUS
    <3> QED
      BY <1>1, <3>1
  <2> QED
    BY <1>1, <2>1, InsertStep
<1> HIDE DEF Good
<1>2. 0 \in T
  BY <1>0, <1>1
<1>3. ASSUME NEW n \in Nat, n \in T PROVE n + 1 \in T
  <2> SUFFICES ASSUME (n + 1) + 1 <= MaxDepth, NEW x \in NormalTo(n + 1) PROVE Good(x, n + 1)
    OBVIOUS
  <2>1. n + 1 \in 0 .. MaxDepth /\ (n + 1) - 1 = n
    BY <1>0
  <2>2. \A c \in NormalTo(n) : Good(c, n)
    BY <1>0, <1>3
  <2> QED
    BY <1>1, <2>1, <2>2
<1>4. Nat \subseteq T
  <2> HIDE DEF T
  <2> QED
    BY <1>2, <1>3, Induct
<1>5. Good(node, d)
  BY <1>0, <1>4
<1> QED
  BY <1>5 DEF Good

-----------------------------------------------------------------------------
(* How deep a tree can be                                                  *)

LEMMA PartShorter ==
    ASSUME NEW S, NEW ss \in Seq(Seq(S)), NEW i \in 1 .. Len(ss), NEW j \in 1 .. Len(ss), i # j
    PROVE  Len(ss[i]) + Len(ss[j]) <= Len(FlattenSeq(ss))
<1> DEFINE f == FlattenSeq(ss)
<1>1. PICK at \in [1 .. Len(ss) -> Nat] :
        /\ \A k \in 1 .. Len(ss) : at[k] + Len(ss[k]) <= Len(f)
        /\ \A a, b \in 1 .. Len(ss) : a < b => at[a] + Len(ss[a]) <= at[b]
  BY FlattenParts
<1>2. Len(f) \in Nat
  BY FlattenType, LenProperties
<1>3. Len(ss[i]) \in Nat /\ Len(ss[j]) \in Nat
  BY ElementOfSeq, LenProperties
<1>4. at[i] \in Nat /\ at[j] \in Nat
  OBVIOUS
<1> HIDE DEF f
<1>5. at[i] + Len(ss[i]) <= Len(f) /\ at[j] + Len(ss[j]) <= Len(f)
  BY <1>1
<1>6. at[i] + Len(ss[i]) <= at[j] \/ at[j] + Len(ss[j]) <= at[i]
  BY <1>1
<1> DEFINE u == Len(ss[i])
           v == Len(ss[j])
           w == Len(f)
<1>7. /\ u \in Nat /\ v \in Nat /\ w \in Nat /\ at[i] \in Nat /\ at[j] \in Nat
      /\ at[i] + u <= w /\ at[j] + v <= w
      /\ at[i] + u <= at[j] \/ at[j] + v <= at[i]
  BY <1>2, <1>3, <1>4, <1>5, <1>6
<1> HIDE DEF u, v, w
<1>8. u + v <= w
  BY <1>7
<1> QED
  BY <1>8 DEF u, v, w, f

\* A node shows at least one pane; one that shows few is not deep.
LEMMA BoundStep ==
    ASSUME NEW n \in 0 .. MaxDepth, NEW x \in NormalTo(n),
           n # 0 => \A c \in NormalTo(n - 1) :
                       /\ Len(CollectPaneIds(c)) >= 1
                       /\ \A m \in 0 .. MaxDepth :
                             Len(CollectPaneIds(c)) <= m + 1 => c \in NodesTo[m]
    PROVE  /\ Len(CollectPaneIds(x)) >= 1
           /\ \A m \in 0 .. MaxDepth : Len(CollectPaneIds(x)) <= m + 1 => x \in NodesTo[m]
<1> HIDE DEF NodesTo
<1>0. x \in Node
  BY NormalGrow
<1>1. CASE IsLeaf(x)
  <2>1. CollectPaneIds(x) = <<x.paneId>>
    BY <1>1, LeafPanes DEF IsLeaf
  <2>2. Len(CollectPaneIds(x)) = 1
    BY <2>1
  <2>3. \A m \in 0 .. MaxDepth : x \in NodesTo[m]
    BY <1>1, LeafIs DEF IsLeaf
  <2> QED
    BY <2>2, <2>3
<1>2. CASE IsSplit(x, n) /\ x.children \in Seq(NormalTo(n - 1)) /\ Apart(x.children, x.type)
  <2> DEFINE kids == x.children
             e == n - 1
             ss == Each(collect, kids)
             total == Len(CollectPaneIds(x))
  <2>1. /\ n # 0 /\ e \in 0 .. MaxDepth /\ MaxDepth \in Nat
        /\ x.type \in {"row", "column"} /\ x = Split(x.type, kids)
    BY <1>2, DepthAssumption DEF IsSplit
  <2>2. kids \in Seq(NormalTo(e)) /\ Len(kids) >= 2 /\ CollectPaneIds(x) = FlatMap(collect, kids)
    BY <1>0, <1>2, SplitPanes DEF Apart
  <2>3. \A c \in NormalTo(e) : /\ Len(CollectPaneIds(c)) >= 1
                               /\ \A m \in 0 .. MaxDepth :
                                    Len(CollectPaneIds(c)) <= m + 1 => c \in NodesTo[m]
    BY <2>1
  <2> HIDE DEF kids, e
  <2>4. kids \in Seq(Node) /\ Len(kids) \in Nat
    BY <2>1, <2>2, CollectOn, LenProperties
  <2>5. ss \in Seq(Seq(Nat)) /\ Len(ss) = Len(kids) /\ \A i \in 1 .. Len(kids) : ss[i] = collect[kids[i]]
    BY <2>4, CollectType, EachIs
  <2>6. total = Len(FlattenSeq(ss))
    BY <2>2 DEF FlatMap
  <2>61. total \in Nat
    <3>1. FlattenSeq(ss) \in Seq(Nat)
      BY <2>5, FlattenType
    <3> QED
      BY <2>6, <3>1, LenProperties
  <2> HIDE DEF ss, total
  <2>7. ASSUME NEW i \in 1 .. Len(kids)
        PROVE  /\ kids[i] \in NormalTo(e) /\ ss[i] = CollectPaneIds(kids[i])
               /\ Len(ss[i]) \in Nat /\ Len(ss[i]) >= 1
    <3>1. kids[i] \in NormalTo(e) /\ kids[i] \in Node
      BY <2>2, <2>4, ElementOfSeq
    <3>2. ss[i] = CollectPaneIds(kids[i])
      BY <2>5, <3>1, IdsIs
    <3>3. ss[i] \in Seq(Nat)
      BY <2>5, ElementOfSeq
    <3>4. Len(ss[i]) \in Nat
      BY <3>3, LenProperties
    <3>5. Len(CollectPaneIds(kids[i])) >= 1
      BY <2>3, <3>1
    <3> QED
      BY <3>1, <3>2, <3>4, <3>5
  <2>8. ASSUME NEW i \in 1 .. Len(kids) PROVE Len(ss[i]) + 1 <= total
    <3>1. PICK j \in 1 .. Len(kids) : j # i
      <4>1. 1 \in 1 .. Len(kids) /\ 2 \in 1 .. Len(kids)
        BY <2>2, <2>4
      <4> QED
        BY <4>1
    <3>2. Len(ss[i]) + Len(ss[j]) <= total
      BY <2>5, <2>6, <3>1, PartShorter
    <3>3. Len(ss[j]) \in Nat /\ Len(ss[j]) >= 1 /\ Len(ss[i]) \in Nat
      BY <2>7
    <3> DEFINE u == Len(ss[i])
               v == Len(ss[j])
    <3>4. u \in Nat /\ v \in Nat /\ v >= 1 /\ u + v <= total /\ total \in Nat
      BY <2>61, <3>2, <3>3
    <3> HIDE DEF u, v
    <3>5. u + 1 <= total
      BY <3>4
    <3> QED
      BY <3>5 DEF u
  <2>9. total >= 2
    <3>1. 1 \in 1 .. Len(kids)
      BY <2>2, <2>4
    <3>2. Len(ss[1]) \in Nat /\ Len(ss[1]) >= 1 /\ Len(ss[1]) + 1 <= total
      BY <2>7, <2>8, <3>1
    <3> QED
      BY <2>61, <3>2
  <2>10. ASSUME NEW m \in 0 .. MaxDepth, total <= m + 1 PROVE x \in NodesTo[m]
    <3>1. /\ m - 1 \in 0 .. MaxDepth /\ m - 1 \in Nat /\ (m - 1) + 1 = m /\ m <= MaxDepth
          /\ m \in Nat
      BY <2>1, <2>9, <2>10, <2>61
    <3>2. ASSUME NEW i \in 1 .. Len(kids) PROVE kids[i] \in NodesTo[m - 1]
      <4>1. Len(ss[i]) <= (m - 1) + 1
        BY <2>7, <2>8, <2>10, <2>61, <3>1
      <4>2. Len(CollectPaneIds(kids[i])) <= (m - 1) + 1 /\ kids[i] \in NormalTo(e)
        BY <2>7, <4>1
      <4> QED
        BY <2>3, <3>1, <4>2
    <3>3. kids \in Seq(NodesTo[m - 1])
      BY <2>2, <3>2
    <3>4. Split(x.type, kids) \in NodesTo[(m - 1) + 1]
      BY <2>1, <3>1, <3>3, SplitIs
    <3> QED
      BY <2>1, <3>1, <3>4
  <2> QED
    BY <2>9, <2>10, <2>61 DEF total
<1> QED
  BY <1>1, <1>2, NormalCases

\* Every level of a tree in normal form shows one more pane, so that the bound
\* on the depth is never reached by the panes of a board.
LEMMA DepthBound ==
    ASSUME NEW d \in 0 .. MaxDepth, NEW node \in NormalTo(d), NEW m \in 0 .. MaxDepth,
           Len(CollectPaneIds(node)) <= m + 1
    PROVE  node \in NormalTo(m)
<1> HIDE DEF NodesTo
<1> DEFINE Good(x) == /\ Len(CollectPaneIds(x)) >= 1
                      /\ \A k \in 0 .. MaxDepth :
                            Len(CollectPaneIds(x)) <= k + 1 => x \in NodesTo[k]
           T == {n \in Nat : n <= MaxDepth => \A x \in NormalTo(n) : Good(x)}
<1>0. MaxDepth \in Nat
  BY DepthAssumption
<1>1. ASSUME NEW n \in 0 .. MaxDepth, NEW x \in NormalTo(n),
             n # 0 => \A c \in NormalTo(n - 1) : Good(c)
      PROVE  Good(x)
  BY <1>1, BoundStep
<1> HIDE DEF Good
<1>2. 0 \in T
  BY <1>0, <1>1
<1>3. ASSUME NEW n \in Nat, n \in T PROVE n + 1 \in T
  <2> SUFFICES ASSUME n + 1 <= MaxDepth, NEW x \in NormalTo(n + 1) PROVE Good(x)
    OBVIOUS
  <2>1. n + 1 \in 0 .. MaxDepth /\ (n + 1) - 1 = n
    BY <1>0
  <2>2. \A c \in NormalTo(n) : Good(c)
    BY <1>0, <1>3
  <2> QED
    BY <1>1, <2>1, <2>2
<1>4. Nat \subseteq T
  <2> HIDE DEF T
  <2> QED
    BY <1>2, <1>3, Induct
<1>5. Good(node)
  BY <1>0, <1>4
<1>6. node \in NodesTo[m]
  BY <1>5 DEF Good
<1> QED
  BY <1>6 DEF NormalTo

\* A sequence of different panes is no longer than there are panes.
LEMMA FewPanes ==
    ASSUME NEW n \in Nat, NEW s \in Seq(1 .. n), IsInjective(s)
    PROVE  Len(s) <= n
<1> SUFFICES ASSUME ~(Len(s) <= n) PROVE FALSE
  OBVIOUS
<1>1. Len(s) \in Nat /\ DOMAIN s = 1 .. Len(s) /\ s \in [1 .. Len(s) -> 1 .. n]
  BY LenProperties
<1> DEFINE A == 1 .. Len(s)
           B == 1 .. n
<1>2. IsFiniteSet(A) /\ Cardinality(A) = Len(s)
  <2>1. 1 \in Int /\ Len(s) \in Int
    BY <1>1
  <2>2. IsFiniteSet(1 .. Len(s)) /\ Cardinality(1 .. Len(s)) = IF 1 > Len(s) THEN 0 ELSE Len(s) - 1 + 1
    BY <2>1, FS_Interval
  <2> QED
    BY <1>1, <2>2
<1>3. IsFiniteSet(B) /\ Cardinality(B) = n
  <2>1. IsFiniteSet(1 .. n) /\ Cardinality(1 .. n) = IF 1 > n THEN 0 ELSE n - 1 + 1
    BY FS_Interval
  <2> QED
    BY <2>1
<1>4. Cardinality(B) < Cardinality(A)
  BY <1>1, <1>2, <1>3
<1>5. s \in [A -> B]
  BY <1>1
<1> HIDE DEF A, B
<1>6. \E x, y \in A : x # y /\ s[x] = s[y]
  BY <1>2, <1>3, <1>4, <1>5, FS_PigeonHole
<1> QED
  BY <1>1, <1>6 DEF IsInjective, A

-----------------------------------------------------------------------------
(* The same changes made to the sequence of panes                          *)

\* The sequence around an element, and what FlatMap makes of it.
LEMMA Around ==
    ASSUME NEW S, NEW s \in Seq(S), IsInjective(s), NEW k \in 1 .. Len(s),
           NEW h \in Map(S, Seq(S)), \A q \in S : q # s[k] => h[q] = <<q>>
    PROVE  FlatMap(h, s) = (SubSeq(s, 1, k - 1) \o h[s[k]]) \o SubSeq(s, k + 1, Len(s))
<1> DEFINE a == SubSeq(s, 1, k - 1)
           x == <<s[k]>>
           b == SubSeq(s, k + 1, Len(s))
           c == SubSeq(s, 1, k)
<1>0. /\ Len(s) \in Nat /\ DOMAIN s = 1 .. Len(s) /\ \A i \in 1 .. Len(s) : s[i] \in S
      /\ k \in Nat /\ k >= 1 /\ k <= Len(s)
  BY LenProperties, ElementOfSeq
<1>1. \A i, j \in 1 .. Len(s) : s[i] = s[j] => i = j
  BY <1>0 DEF IsInjective
<1>2. /\ a \in Seq(S) /\ Len(a) = k - 1
      /\ \A i \in 1 .. k - 1 : a[i] = s[i]
  BY <1>0
<1>3. /\ b \in Seq(S) /\ Len(b) = Len(s) - k
      /\ \A i \in 1 .. Len(s) - k : b[i] = s[i + k]
  OBVIOUS
<1>4. c = a \o x
  <2>1. 1 \in 1 .. Len(s) /\ k \in 1 .. Len(s)
    BY <1>0
  <2> QED
    BY <2>1, SubSeqRecursiveSecond
<1>5. s = c \o b
  <2>1. SubSeq(s, 1, k) \o SubSeq(s, k + 1, Len(s)) = SubSeq(s, 1, Len(s))
    <3>1. 1 \in 1 .. Len(s) + 1 /\ k \in 1 - 1 .. Len(s) /\ Len(s) \in k .. Len(s)
      BY <1>0
    <3> QED
      BY <3>1, ConcatAdjacentSubSeq
  <2> QED
    BY <2>1, SubSeqFull
<1>6. x \in Seq(S) /\ s[k] \in S
  BY <1>0
<1> HIDE DEF a, b, c
<1>7. c \in Seq(S)
  BY <1>2, <1>4, <1>6, ConcatProperties
<1>8. FlatMap(h, x) = h[s[k]]
  BY <1>6, FlatMapOne
<1>9. FlatMap(h, a) = a
  <2>1. ASSUME NEW i \in 1 .. Len(a) PROVE h[a[i]] = <<a[i]>>
    <3>1. i \in 1 .. k - 1 /\ i \in 1 .. Len(s) /\ i # k
      BY <1>0, <1>2
    <3>2. a[i] = s[i] /\ s[i] # s[k] /\ s[i] \in S
      BY <1>0, <1>1, <1>2, <3>1
    <3> QED
      BY <3>2
  <2> QED
    BY <1>2, <2>1, FlatMapSame
<1>10. FlatMap(h, b) = b
  <2>1. ASSUME NEW i \in 1 .. Len(b) PROVE h[b[i]] = <<b[i]>>
    <3>1. i \in 1 .. Len(s) - k /\ i + k \in 1 .. Len(s) /\ i + k # k
      BY <1>0, <1>3
    <3>2. b[i] = s[i + k] /\ s[i + k] # s[k] /\ s[i + k] \in S
      BY <1>0, <1>1, <1>3, <3>1
    <3> QED
      BY <3>2
  <2> QED
    BY <1>3, <2>1, FlatMapSame
<1> HIDE DEF x
<1>11. FlatMap(h, c) = FlatMap(h, a) \o FlatMap(h, x)
  BY <1>2, <1>4, <1>6, FlatMapCat
<1>12. FlatMap(h, c \o b) = FlatMap(h, c) \o FlatMap(h, b)
  BY <1>3, <1>7, FlatMapCat
<1> QED
  BY <1>5, <1>8, <1>9, <1>10, <1>11, <1>12, Zenon DEF a, b

LEMMA DropOrder ==
    ASSUME NEW s \in Seq(Nat), IsInjective(s), NEW p \in Nat
    PROVE  FlatMap(drop(p), s) = Without(s, p)
<1> DEFINE h == drop(p)
<1>0. h \in Map(Nat, Seq(Nat))
  BY DropIs
<1>1. h[p] = <<>> /\ \A q \in Nat : q # p => h[q] = <<q>>
  BY DEF drop
<1>2. \A i \in 1 .. Len(s) : s[i] \in Nat
  BY ElementOfSeq
<1>3. DOMAIN s = 1 .. Len(s)
  BY LenProperties
<1> HIDE DEF h
<1>4. CASE p \notin Range(s)
  <2>1. \A i \in 1 .. Len(s) : s[i] # p
    BY <1>3, <1>4 DEF Range
  <2>2. \A i \in 1 .. Len(s) : h[s[i]] = <<s[i]>>
    BY <1>1, <1>2, <2>1
  <2>3. FlatMap(h, s) = s
    BY <1>0, <2>2, FlatMapSame
  <2> QED
    BY <1>4, <2>3 DEF Without, h
<1>5. CASE p \in Range(s)
  <2> DEFINE k == IndexOf(s, p)
  <2>1. k \in 1 .. Len(s) /\ s[k] = p
    BY <1>5, IndexOfType
  <2>2. Without(s, p) = SubSeq(s, 1, k - 1) \o SubSeq(s, k + 1, Len(s))
    BY <1>5 DEF Without, RemoveAt
  <2> HIDE DEF k
  <2>3. FlatMap(h, s) = (SubSeq(s, 1, k - 1) \o h[s[k]]) \o SubSeq(s, k + 1, Len(s))
    BY <1>0, <1>1, <2>1, Around
  <2>4. SubSeq(s, 1, k - 1) \o <<>> = SubSeq(s, 1, k - 1)
    <3> DEFINE a == SubSeq(s, 1, k - 1)
    <3>1. a \in Seq(Nat)
      BY <2>1
    <3> HIDE DEF a
    <3>2. a \o <<>> = a
      BY <3>1, ConcatEmptySeq
    <3> QED
      BY <3>2 DEF a
  <2> QED
    BY <1>1, <2>1, <2>2, <2>3, <2>4 DEF h
<1> QED
  BY <1>4, <1>5

LEMMA Associative == \A u, v, w \in Seq(Nat) : (u \o v) \o w = u \o (v \o w)
<1> DEFINE N == Nat
<1> SUFFICES ASSUME NEW u \in Seq(N), NEW v \in Seq(N), NEW w \in Seq(N)
             PROVE  (u \o v) \o w = u \o (v \o w)
  OBVIOUS
<1> HIDE DEF N
<1> DEFINE l == (u \o v) \o w
           r == u \o (v \o w)
<1>1. l \in Seq(N) /\ r \in Seq(N) /\ Len(l) = Len(r)
  OBVIOUS
<1>2. ASSUME NEW i \in 1 .. Len(l) PROVE l[i] = r[i]
  BY SMTT(30)
<1> HIDE DEF l, r
<1>3. l = r
  BY <1>1, <1>2, SeqEqual
<1> QED
  BY <1>3 DEF l, r

LEMMA BesideOrder ==
    ASSUME NEW s \in Seq(Nat), IsInjective(s), NEW target \in Range(s), NEW new \in Nat, NEW zone,
           NEW side, side = IF zone \in {"left", "top"} THEN "left" ELSE "right"
    PROVE  FlatMap(beside(target, new, zone), s) = WithLeaf(s, target, side, new)
<1> DEFINE h == beside(target, new, zone)
           k == IndexOf(s, target)
           a == SubSeq(s, 1, k - 1)
           b == SubSeq(s, k + 1, Len(s))
           t == <<target>>
           n == <<new>>
<1>0. k \in 1 .. Len(s) /\ s[k] = target /\ Len(s) \in Nat /\ target \in Nat
  <2>1. k \in 1 .. Len(s) /\ s[k] = target
    BY IndexOfType
  <2> QED
    BY <2>1, ElementOfSeq, LenProperties
<1>1. h \in Map(Nat, Seq(Nat))
  BY <1>0, BesideIs
<1>2. /\ h[target] = IF zone \in {"left", "top"} THEN <<new, target>> ELSE <<target, new>>
      /\ \A q \in Nat : q # target => h[q] = <<q>>
  BY <1>0 DEF beside
<1> HIDE DEF h
<1>3. WithLeaf(s, target, side, new) =
         IF zone \in {"left", "top"} THEN SubSeq(s, 1, k - 1) \o n \o SubSeq(s, k, Len(s))
         ELSE SubSeq(s, 1, k) \o n \o SubSeq(s, k + 1, Len(s))
  <2> DEFINE l == k + 1
  <2>1. CASE zone \in {"left", "top"}
    <3>1. WithLeaf(s, target, side, new) = InsertAt(s, k + 0, new)
      BY <2>1 DEF WithLeaf
    <3>2. k + 0 = k
      BY <1>0
    <3> HIDE DEF k
    <3> QED
      BY <2>1, <3>1, <3>2 DEF InsertAt
  <2>2. CASE zone \notin {"left", "top"}
    <3>1. WithLeaf(s, target, side, new) = InsertAt(s, k + 1, new)
      BY <2>2 DEF WithLeaf
    <3>2. (k + 1) - 1 = k
      BY <1>0
    <3> HIDE DEF k
    <3> QED
      BY <2>2, <3>1, <3>2 DEF InsertAt
  <2> QED
    BY <2>1, <2>2
<1> HIDE DEF k
<1>4. SubSeq(s, 1, k) = a \o t /\ SubSeq(s, k, Len(s)) = t \o b
  <2>1. 1 \in 1 .. Len(s) /\ k \in 1 .. Len(s) /\ Len(s) \in k .. Len(s)
    BY <1>0
  <2>2. SubSeq(s, 1, k) = SubSeq(s, 1, k - 1) \o <<s[k]>>
    BY <2>1, SubSeqRecursiveSecond
  <2>3. SubSeq(s, k, Len(s)) = <<s[k]>> \o SubSeq(s, k + 1, Len(s))
    BY <2>1, SubSeqRecursiveFirst
  <2> QED
    BY <1>0, <2>2, <2>3
<1>5. FlatMap(h, s) = (a \o h[s[k]]) \o b
  BY <1>0, <1>1, <1>2, Around
<1> DEFINE N == Nat
<1>6. a \in Seq(N) /\ b \in Seq(N) /\ t \in Seq(N) /\ n \in Seq(N)
  <2>0. /\ \A i \in 1 .. Len(s) : s[i] \in Nat
        /\ k \in Int /\ k >= 1 /\ k <= Len(s) /\ Len(s) \in Int /\ 1 \in Int
        /\ k - 1 \in Int /\ k + 1 \in Int
    <3>1. \A i \in 1 .. Len(s) : s[i] \in Nat
      BY ElementOfSeq
    <3>2. k \in 1 .. Len(s) /\ Len(s) \in Nat
      BY <1>0, LenProperties
    <3> QED
      BY <3>1, <3>2
  <2>1. a \in Seq(Nat)
    <3>1. \A i \in 1 .. k - 1 : s[i] \in Nat
      BY <2>0
    <3> QED
      BY <2>0, <3>1, SubSeqProperties
  <2>2. b \in Seq(Nat)
    <3>1. \A i \in k + 1 .. Len(s) : s[i] \in Nat
      BY <2>0
    <3> QED
      BY <2>0, <3>1, SubSeqProperties
  <2>3. t \in Seq(Nat) /\ n \in Seq(Nat)
    BY <1>0
  <2> QED
    BY <2>1, <2>2, <2>3
<1>7. <<new, target>> = n \o t /\ <<target, new>> = t \o n
  BY TwoIs
<1>8. \A u, v, w \in Seq(N) : (u \o v) \o w = u \o (v \o w)
  BY Associative, Zenon
<1> HIDE DEF a, b, t, n, N
<1>9. CASE zone \in {"left", "top"}
  <2>1. FlatMap(h, s) = (a \o (n \o t)) \o b
    BY <1>0, <1>2, <1>5, <1>7, <1>9
  <2>2. WithLeaf(s, target, side, new) = (a \o n) \o (t \o b)
    BY <1>3, <1>4, <1>9 DEF a
  <2>3. a \o (n \o t) = (a \o n) \o t
    BY <1>6, <1>8, ZenonT(40)
  <2> DEFINE c == a \o n
  <2>5. c \in Seq(N)
    BY <1>6, ConcatProperties
  <2> HIDE DEF c
  <2>4. (c \o t) \o b = c \o (t \o b)
    BY <1>6, <2>5, <1>8, ZenonT(40)
  <2> QED
    BY <2>1, <2>2, <2>3, <2>4 DEF c, h
<1>10. CASE zone \notin {"left", "top"}
  <2>1. FlatMap(h, s) = (a \o (t \o n)) \o b
    BY <1>0, <1>2, <1>5, <1>7, <1>10
  <2>2. WithLeaf(s, target, side, new) = ((a \o t) \o n) \o b
    BY <1>3, <1>4, <1>10 DEF b
  <2>3. (a \o t) \o n = a \o (t \o n)
    BY <1>6, <1>8, ZenonT(40)
  <2> QED
    BY <2>1, <2>2, <2>3 DEF h
<1> QED
  BY <1>9, <1>10

-----------------------------------------------------------------------------
(* The tree of the board                                                   *)

\* The tree is in normal form and shows the panes of o.
Shape(tree, o) == tree \in NormalTo(MaxDepth) /\ CollectPaneIds(tree) = o

\* The inductive invariant.
TreeInv == BoardInv /\ Shape(splitLayout, order)

LEMMA ShapeRemove ==
    ASSUME NEW tree, NEW o \in Seq(Nat), Shape(tree, o), IsInjective(o), Len(o) > 1,
           NEW p \in Nat
    PROVE  Shape(CleanupTree(RemoveLeaf(tree, p)), Without(o, p))
<1> HIDE DEF NodesTo
<1> DEFINE r == RemoveLeaf(tree, p)
<1>1. tree \in NormalTo(MaxDepth) /\ CollectPaneIds(tree) = o /\ MaxDepth \in 0 .. MaxDepth
  BY DepthAssumption DEF Shape
<1>2. tree # Leaf(p)
  <2>1. ASSUME tree = Leaf(p) PROVE FALSE
    <3>1. o = <<p>>
      BY <1>1, <2>1, LeafPanes
    <3>2. Len(<<p>>) = 1
      OBVIOUS
    <3> QED
      BY <3>1, <3>2
  <2> QED
    BY <2>1
<1>3. r \in NormalTo(MaxDepth) /\ CollectPaneIds(r) = FlatMap(drop(p), o)
  BY <1>1, <1>2, RemoveGood
<1>4. FlatMap(drop(p), o) = Without(o, p)
  BY DropOrder
<1> HIDE DEF r
<1>5. CleanupTree(r) = r
  BY <1>1, <1>3, CleanNormal
<1> QED
  BY <1>3, <1>4, <1>5 DEF Shape, r

LEMMA ShapeInsert ==
    ASSUME NEW tree, NEW n \in Nat, n <= MaxDepth, NEW o \in Seq(1 .. n), Shape(tree, o),
           IsInjective(o), NEW q \in Range(o), NEW new \in Nat, NEW zone,
           NEW side, side = IF zone \in {"left", "top"} THEN "left" ELSE "right"
    PROVE  Shape(InsertAtLeaf(tree, q, new, zone), WithLeaf(o, q, side, new))
<1> HIDE DEF NodesTo
<1> DEFINE r == InsertAtLeaf(tree, q, new, zone)
<1>1. tree \in NormalTo(MaxDepth) /\ CollectPaneIds(tree) = o /\ MaxDepth \in 0 .. MaxDepth
  BY DepthAssumption DEF Shape
<1>2. Len(o) <= n
  BY FewPanes
<1>3. q \in 1 .. n
  BY IndexOfType, ElementOfSeq
<1>4. n - 1 \in 0 .. MaxDepth /\ (n - 1) + 1 = n /\ n \in 0 .. MaxDepth
  BY <1>3, DepthAssumption
<1>5. tree \in NormalTo(n - 1)
  BY <1>1, <1>2, <1>4, DepthBound
<1>6. r \in NormalTo(n) /\ CollectPaneIds(r) = FlatMap(beside(q, new, zone), o)
  <2>1. q \in Nat /\ (n - 1) + 1 <= MaxDepth
    BY <1>3, <1>4
  <2>2. /\ r \in NormalTo((n - 1) + 1)
        /\ CollectPaneIds(r) = FlatMap(beside(q, new, zone), CollectPaneIds(tree))
    BY <1>4, <1>5, <2>1, InsertGood
  <2> QED
    BY <1>1, <1>4, <2>2
<1>7. o \in Seq(Nat)
  BY SeqMonotonic
<1>8. FlatMap(beside(q, new, zone), o) = WithLeaf(o, q, side, new)
  BY <1>7, BesideOrder
<1>9. r \in NormalTo(MaxDepth)
  BY <1>1, <1>4, <1>6, NormalGrow
<1> QED
  BY <1>6, <1>8, <1>9 DEF Shape

LEMMA ShapeClean ==
    ASSUME NEW tree, NEW o, Shape(tree, o)
    PROVE  CleanupTree(tree) = tree
BY CleanNormal, DepthAssumption DEF Shape

LEMMA ShapeMain == Shape(Leaf(MainPane), <<MainPane>>)
<1>1. MainPane \in Nat
  BY DEF MainPane
<1> QED
  BY <1>1, NormalLeaf, LeafPanes, DepthAssumption DEF Shape

LEMMA TreeFacts ==
    ASSUME TreeInv
    PROVE  /\ order \in Seq(1 .. nextPaneId - 1) /\ order \in Seq(Nat) /\ IsInjective(order)
           /\ Range(order) = PaneIds /\ nextPaneId \in Nat /\ nextPaneId >= 2
           /\ activePaneId \in Nat /\ PaneIds \subseteq Nat
<1>1. /\ Board(panes, order) /\ nextPaneId \in Nat /\ PaneIds \subseteq 1 .. (nextPaneId - 1)
      /\ Ids(panes, activePaneId, maximizedPaneId, nextPaneId)
  BY InvFacts DEF TreeInv
<1>2. order \in Seq(PaneIds) /\ IsInjective(order) /\ Range(order) = PaneIds
  BY <1>1 DEF Board, PaneIds
<1>3. order \in Seq(1 .. nextPaneId - 1)
  BY <1>1, <1>2, SeqMonotonic
<1>4. PaneIds \subseteq Nat
  BY <1>1
<1>5. order \in Seq(Nat)
  BY <1>2, <1>4, SeqMonotonic
<1> QED
  BY <1>1, <1>2, <1>3, <1>4, <1>5 DEF Ids

\* Whether the step dropped pane p or kept every pane.
Dropped(p) == Len(order) > 1 /\ order' = Without(order, p) /\ DOMAIN panes' = PaneIds \ {p}
Kept == order' = order /\ DOMAIN panes' = PaneIds

LEMMA ShrinkShape ==
    ASSUME TreeInv, NEW p \in Nat, Dropped(p) \/ (Kept /\ p \in PaneIds),
           splitLayout' = Shrink(splitLayout, p)
    PROVE  Shape(splitLayout', order')
<1>1. Shape(splitLayout, order) /\ order \in Seq(Nat) /\ IsInjective(order)
  BY TreeFacts DEF TreeInv
<1>2. CASE Dropped(p)
  <2>1. splitLayout' = CleanupTree(RemoveLeaf(splitLayout, p))
    BY <1>2 DEF Dropped, Shrink
  <2>2. Shape(CleanupTree(RemoveLeaf(splitLayout, p)), Without(order, p))
    BY <1>1, <1>2, ShapeRemove DEF Dropped
  <2> QED
    BY <1>2, <2>1, <2>2 DEF Dropped
<1>3. CASE Kept /\ p \in PaneIds
  <2>1. splitLayout' = splitLayout /\ order' = order
    BY <1>3 DEF Kept, Shrink
  <2> QED
    BY <1>1, <2>1
<1> QED
  BY <1>2, <1>3

LEMMA RemoveDrops ==
    ASSUME NEW p, RemovePane(p), Len(order) > 1
    PROVE  Dropped(p)
BY DEF RemovePane, Dropped, Restrict

LEMMA CloseTabDrops ==
    ASSUME NEW p \in PaneIds, NEW t, CloseTab(p, t)
    PROVE  Dropped(p) \/ Kept
<1>1. CASE Len(panes[p].tabs) = 1 /\ Len(order) > 1
  BY <1>1, RemoveDrops DEF CloseTab
<1>2. CASE ~(Len(panes[p].tabs) = 1 /\ Len(order) > 1)
  BY <1>2 DEF CloseTab, Kept, PaneIds
<1> QED
  BY <1>1, <1>2

LEMMA EmptiedDrops ==
    ASSUME NEW p, NEW result, DOMAIN result = PaneIds, CloseIfEmptied(p, result)
    PROVE  Dropped(p) \/ Kept
<1>1. CASE result[p].tabs = <<>> /\ Len(order) > 1
  BY <1>1 DEF CloseIfEmptied, Dropped, Restrict
<1>2. CASE ~(result[p].tabs = <<>> /\ Len(order) > 1)
  BY <1>2 DEF CloseIfEmptied, Kept
<1> QED
  BY <1>1, <1>2

LEMMA CloseShape ==
    ASSUME TreeInv, LayoutClose
    PROVE  Shape(splitLayout', order')
<1>0. PaneIds \subseteq Nat /\ activePaneId \in Nat
  BY TreeFacts
<1>1. CASE \E p \in PaneIds, t \in Tabs : CloseTab(p, t) /\ splitLayout' = Shrink(splitLayout, p)
  <2>1. PICK p \in PaneIds, t \in Tabs : CloseTab(p, t) /\ splitLayout' = Shrink(splitLayout, p)
    BY <1>1
  <2>2. Dropped(p) \/ Kept
    BY <2>1, CloseTabDrops
  <2> QED
    BY <1>0, <2>1, <2>2, ShrinkShape
<1>2. CASE \E p \in PaneIds : CloseAllTabs(p) /\ splitLayout' = Shrink(splitLayout, p)
  <2>1. PICK p \in PaneIds : CloseAllTabs(p) /\ splitLayout' = Shrink(splitLayout, p)
    BY <1>2
  <2>2. Dropped(p) \/ Kept
    <3>1. CASE Len(order) > 1
      BY <2>1, <3>1, RemoveDrops DEF CloseAllTabs
    <3>2. CASE ~(Len(order) > 1)
      BY <2>1, <3>2 DEF CloseAllTabs, Kept, PaneIds
    <3> QED
      BY <3>1, <3>2
  <2> QED
    BY <1>0, <2>1, <2>2, ShrinkShape
<1>3. CASE ClosePane /\ splitLayout' = Shrink(splitLayout, activePaneId)
  <2>1. Dropped(activePaneId)
    BY <1>3, RemoveDrops DEF ClosePane
  <2> QED
    BY <1>0, <1>3, <2>1, ShrinkShape
<1>4. CASE /\ ToggleKeymapEditor
           /\ splitLayout' = LET gone == PaneIds \ DOMAIN panes'
                             IN  IF gone = {} THEN splitLayout
                                 ELSE Shrink(splitLayout, CHOOSE p \in gone : TRUE)
  <2> DEFINE gone == PaneIds \ DOMAIN panes'
  <2>0. Shape(splitLayout, order)
    BY DEF TreeInv
  <2>1. splitLayout' = IF gone = {} THEN splitLayout
                       ELSE Shrink(splitLayout, CHOOSE p \in gone : TRUE)
    BY <1>4
  <2>2. (\E p \in PaneIds : Dropped(p)) \/ Kept
    <3>1. CASE \E p \in PaneIds : CloseTab(p, KeymapTab)
      BY <3>1, CloseTabDrops
    <3>2. CASE activePaneId \in PaneIds /\ OpenTab(KeymapTab, activePaneId)
      BY <3>2 DEF OpenTab, Kept, PaneIds
    <3> QED
      BY <1>4, <3>1, <3>2 DEF ToggleKeymapEditor
  <2>3. CASE Kept
    <3>1. gone = {}
      BY <2>3 DEF Kept
    <3> HIDE DEF gone
    <3>2. splitLayout' = splitLayout /\ order' = order
      BY <2>1, <2>3, <3>1 DEF Kept
    <3> QED
      BY <2>0, <3>2
  <2>4. ASSUME NEW p \in PaneIds, Dropped(p) PROVE Shape(splitLayout', order')
    <3>1. gone = {p}
      BY <2>4 DEF Dropped
    <3>2. (CHOOSE x \in {p} : TRUE) = p
      OBVIOUS
    <3> HIDE DEF gone
    <3>3. splitLayout' = Shrink(splitLayout, p)
      BY <2>1, <3>1, <3>2
    <3> QED
      BY <1>0, <2>4, <3>3, ShrinkShape
  <2> QED
    BY <2>2, <2>3, <2>4
<1> QED
  BY <1>1, <1>2, <1>3, <1>4 DEF LayoutClose

LEMMA MoveShape ==
    ASSUME TreeInv, LayoutMove
    PROVE  Shape(splitLayout', order')
<1>1. PICK p \in PaneIds, q \in PaneIds, t \in Tabs :
          /\ \/ MoveTabToPane(t, p, q)
             \/ \E u \in Tabs, side \in Sides : DropTabOnTab(t, p, u, q, side)
          /\ splitLayout' = Shrink(splitLayout, p)
  BY DEF LayoutMove
<1>2. DOMAIN MovedPanes(t, p, q) = PaneIds
  BY DEF MovedPanes, PaneIds
<1>3. Dropped(p) \/ Kept
  <2>1. CASE MoveTabToPane(t, p, q)
    <3>1. CloseIfEmptied(p, MovedPanes(t, p, q))
      BY <2>1 DEF MoveTabToPane
    <3> QED
      BY <1>2, <3>1, EmptiedDrops
  <2>2. ASSUME NEW u \in Tabs, NEW side \in Sides, DropTabOnTab(t, p, u, q, side)
        PROVE  Dropped(p) \/ Kept
    <3>1. CASE p = q
      BY <2>2, <3>1 DEF DropTabOnTab, Kept, PaneIds
    <3>2. CASE p # q
      <4> DEFINE result == [MovedPanes(t, p, q) EXCEPT ![q].tabs = PlaceBeside(@, t, u, side)]
      <4>1. CloseIfEmptied(p, result)
        BY <2>2, <3>2 DEF DropTabOnTab
      <4>2. DOMAIN result = PaneIds
        BY <1>2
      <4> HIDE DEF result
      <4> QED
        BY <4>1, <4>2, EmptiedDrops
    <3> QED
      BY <3>1, <3>2
  <2> QED
    BY <1>1, <2>1, <2>2
<1>4. PaneIds \subseteq Nat
  BY TreeFacts
<1> QED
  BY <1>1, <1>3, <1>4, ShrinkShape

LEMMA SplitShape ==
    ASSUME TreeInv, LayoutSplit
    PROVE  Shape(splitLayout', order')
<1> DEFINE n == nextPaneId
<1>1. PICK zone \in Zones :
        LET side == IF zone \in {"left", "top"} THEN "left" ELSE "right"
        IN  \/ \E p, q \in PaneIds, t \in Tabs :
                 /\ SplitPaneWith(q, side, t, p)
                 /\ splitLayout' = CleanupTree(Shrink(
                        InsertAtLeaf(splitLayout, q, nextPaneId, zone), p))
            \/ /\ zone \in {"right", "bottom"}
               /\ SplitActivePane
               /\ splitLayout' = CleanupTree(
                      InsertAtLeaf(splitLayout, activePaneId, nextPaneId, zone))
  BY DEF LayoutSplit
<1> DEFINE side == IF zone \in {"left", "top"} THEN "left" ELSE "right"
<1>2. /\ order \in Seq(1 .. n - 1) /\ IsInjective(order) /\ Range(order) = PaneIds
      /\ n \in Nat /\ n - 1 \in Nat /\ PaneIds \subseteq Nat /\ Shape(splitLayout, order)
      /\ order \in Seq(Nat) /\ n \notin PaneIds
  BY TreeFacts, InvFacts DEF TreeInv
<1>3. ASSUME n <= MaxPaneId PROVE n - 1 <= MaxDepth
  BY <1>2, <1>3, LayoutAssumption, DepthAssumption, BoardAssumption
<1>4. ASSUME NEW q \in PaneIds, n <= MaxPaneId
      PROVE  Shape(InsertAtLeaf(splitLayout, q, n, zone), WithLeaf(order, q, side, n))
  <2>1. q \in Range(order) /\ n - 1 <= MaxDepth
    BY <1>2, <1>3, <1>4
  <2> HIDE DEF n
  <2> QED
    BY <1>2, <2>1, ShapeInsert
<1>5. ASSUME NEW p \in PaneIds, NEW q \in PaneIds, NEW t \in Tabs, SplitPaneWith(q, side, t, p),
             splitLayout' = CleanupTree(Shrink(InsertAtLeaf(splitLayout, q, n, zone), p))
      PROVE  Shape(splitLayout', order')
  <2> DEFINE tree  == InsertAtLeaf(splitLayout, q, n, zone)
             left  == IF p = q THEN panes ELSE [panes EXCEPT ![p] = CloseIn(panes[p], t)]
             grown == WithLeaf(order, q, side, n)
             gone  == {x \in {p} : left[x].tabs = <<>>}
  <2>1. /\ n <= MaxPaneId
        /\ DOMAIN panes' = (PaneIds \cup {n}) \ gone
        /\ order' = IF gone = {} THEN grown ELSE Without(grown, p)
    BY <1>5 DEF SplitPaneWith, InsertBeside, WithLeaf
  <2>2. Shape(tree, grown)
    BY <1>4, <2>1
  <2>3. grown \in Seq(PaneIds \cup {n}) /\ IsInjective(grown) /\ Len(grown) > 1
    <3>1. IndexOf(order, q) \in 1 .. Len(order) /\ Len(order) \in Nat
      BY <1>2, IndexOfType, LenProperties
    <3> DEFINE i == IndexOf(order, q) + (IF side = "left" THEN 0 ELSE 1)
    <3>2. i \in 1 .. (Len(order) + 1)
      BY <3>1
    <3>3. order \in Seq(PaneIds \cup {n}) /\ n \in PaneIds \cup {n} /\ n \notin Range(order)
      <4>1. order \in Seq(PaneIds)
        BY <1>2, SeqByRange
      <4> QED
        BY <1>2, <4>1, SeqMonotonic
    <3> HIDE DEF i, n
    <3>4. /\ InsertAt(order, i, n) \in Seq(PaneIds \cup {n})
          /\ Len(InsertAt(order, i, n)) = Len(order) + 1
          /\ IsInjective(InsertAt(order, i, n))
      BY <1>2, <3>2, <3>3, InsertAtFacts
    <3> QED
      BY <3>1, <3>4 DEF i, WithLeaf
  <2>4. grown \in Seq(Nat)
    <3>1. PaneIds \cup {n} \subseteq Nat
      BY <1>2
    <3> HIDE DEF grown, n
    <3> QED
      BY <2>3, <3>1, SeqMonotonic
  <2>5. gone = {} \/ gone = {p}
    OBVIOUS
  <2> HIDE DEF tree, grown, gone, left
  <2>6. splitLayout' = CleanupTree(Shrink(tree, p))
    BY <1>5 DEF tree
  <2>7. CASE gone = {}
    <3>1. p \in DOMAIN panes' /\ order' = grown
      BY <2>1, <2>7
    <3>2. Shrink(tree, p) = tree
      BY <3>1 DEF Shrink
    <3>3. CleanupTree(tree) = tree
      BY <2>2, ShapeClean
    <3> QED
      BY <2>2, <2>6, <3>1, <3>2, <3>3
  <2>8. CASE gone = {p}
    <3>1. p \notin DOMAIN panes' /\ order' = Without(grown, p)
      BY <2>1, <2>8
    <3>2. Shrink(tree, p) = CleanupTree(RemoveLeaf(tree, p))
      BY <3>1 DEF Shrink
    <3>3. Shape(CleanupTree(RemoveLeaf(tree, p)), Without(grown, p))
      BY <1>2, <2>2, <2>3, <2>4, ShapeRemove
    <3>4. CleanupTree(CleanupTree(RemoveLeaf(tree, p))) = CleanupTree(RemoveLeaf(tree, p))
      BY <3>3, ShapeClean
    <3> QED
      BY <2>6, <3>1, <3>2, <3>3, <3>4
  <2> QED
    BY <2>5, <2>7, <2>8
<1>6. ASSUME zone \in {"right", "bottom"}, SplitActivePane,
             splitLayout' = CleanupTree(InsertAtLeaf(splitLayout, activePaneId, n, zone))
      PROVE  Shape(splitLayout', order')
  <2> DEFINE tree == InsertAtLeaf(splitLayout, activePaneId, n, zone)
  <2>1. activePaneId \in PaneIds /\ n <= MaxPaneId /\ side = "right"
    BY <1>6 DEF SplitActivePane
  <2>2. order' = WithLeaf(order, activePaneId, side, n)
    BY <1>6, <2>1 DEF SplitActivePane, InsertBeside, WithLeaf
  <2>3. Shape(tree, WithLeaf(order, activePaneId, side, n))
    BY <1>4, <2>1
  <2> HIDE DEF tree, side, n
  <2>4. CleanupTree(tree) = tree
    BY <2>3, ShapeClean
  <2> QED
    BY <1>6, <2>2, <2>3, <2>4 DEF tree
<1> QED
  BY <1>1, <1>5, <1>6

LEMMA KeptShape ==
    ASSUME TreeInv, LayoutKept
    PROVE  Shape(splitLayout', order')
<1>1. splitLayout' = splitLayout
  BY DEF LayoutKept
<1>2. order' = order
  BY DEF LayoutKept, OpenTab, SetActiveTab, CloseOtherTabs, CloseTabsToLeft, CloseTabsToRight,
     DropTabAtEnd, DropFileOnTab, NavigateBack, NavigateForward, SetActivePaneId,
     ToggleMaximizePane, DeleteFile
<1> QED
  BY <1>1, <1>2 DEF TreeInv

\* A step of the tree is a step of the board.
LEMMA LayoutSteps == LayoutNext => Next
<1>1. LayoutClose => Next
  BY Zenon DEF LayoutClose, Next, TabStep, PaneStep
<1>2. LayoutMove => Next
  BY Zenon DEF LayoutMove, Next, DragStep
<1>3. ASSUME LayoutSplit PROVE Next
  <2>1. \A zone : (IF zone \in {"left", "top"} THEN "left" ELSE "right") \in Sides
    BY DEF Sides
  <2>2. (\E side \in Sides, p, q \in PaneIds, t \in Tabs : SplitPaneWith(q, side, t, p))
            \/ SplitActivePane
    BY <1>3, <2>1, Zenon DEF LayoutSplit
  <2> QED
    BY <2>2, Zenon DEF Next, DragStep, PaneStep
<1>4. LayoutReset => Next
  BY DEF LayoutReset, Next, PaneStep
<1>5. ASSUME LayoutKept PROVE Next
  <2>1. CASE \E p \in PaneIds, t \in Tabs : \/ OpenTab(t, p)
                                            \/ SetActiveTab(p, t)
                                            \/ CloseOtherTabs(p, t)
                                            \/ CloseTabsToLeft(p, t)
                                            \/ CloseTabsToRight(p, t)
                                            \/ DropTabAtEnd(t, p)
    BY <2>1, Zenon DEF Next, TabStep
  <2>2. CASE \E p \in PaneIds, f \in Files, u \in Tabs, side \in Sides : DropFileOnTab(f, u, p, side)
    <3>1. Files \subseteq Tabs
      BY DEF Files
    <3> QED
      BY <2>2, <3>1 DEF Next, DragStep
  <2>3. CASE \/ \E p \in PaneIds : NavigateBack(p) \/ NavigateForward(p)
             \/ \E p \in PaneRefs : SetActivePaneId(p) \/ ToggleMaximizePane(p)
             \/ \E f \in Files : DeleteFile(f)
    BY <2>3, Zenon DEF Next, PaneStep
  <2> QED
    BY <1>5, <2>1, <2>2, <2>3, Zenon DEF LayoutKept
<1> QED
  BY <1>1, <1>2, <1>3, <1>4, <1>5 DEF LayoutNext

LEMMA TreeInvStep ==
    ASSUME TreeInv, [LayoutNext]_layoutVars
    PROVE  TreeInv'
<1>1. BoardInv'
  <2>1. [Next]_vars
    BY LayoutSteps DEF layoutVars
  <2> QED
    BY <2>1, BoardInvStep DEF TreeInv
<1>2. Shape(splitLayout', order')
  <2>1. CASE LayoutReset
    BY <2>1, ShapeMain DEF LayoutReset, ResetEditorState
  <2>2. CASE UNCHANGED layoutVars
    BY <2>2 DEF layoutVars, vars, TreeInv
  <2> QED
    BY <2>1, <2>2, CloseShape, MoveShape, SplitShape, KeptShape DEF LayoutNext
<1> QED
  BY <1>1, <1>2 DEF TreeInv, Shape

\* The split tree keeps its form, and its leaves in the order the board works
\* with, whatever is split, closed, moved or dropped: however deep the splits
\* are, the surgery of insertAtLeaf, removeLeaf and cleanupTree loses no pane,
\* shows none twice and leaves no split that a parent should have taken in.
THEOREM TreeStaysSound == LayoutSpec => []TreeSound
<1>1. LayoutInit => TreeInv
  BY BoardInvInit, ShapeMain DEF LayoutInit, Init, TreeInv
<1>2. TreeInv /\ [LayoutNext]_layoutVars => TreeInv'
  BY TreeInvStep
<1>3. TreeInv => TreeSound
  BY DEF TreeInv, Shape, NormalTo, TreeSound, LeavesInOrder, LayoutNormalForm
<1> QED
  BY <1>1, <1>2, <1>3, PTL DEF LayoutSpec
=============================================================================
