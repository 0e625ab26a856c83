----------------------------- MODULE BrowserProofs -----------------------------
(***************************************************************************)
(* What is proved of a screen holds in the browser, where it is one of     *)
(* several: while it is Closed it does nothing, and no other screen's step *)
(* touches its state.  The rows of a view are here as a whole: what is     *)
(* shown of them when they are sorted, dragged and added.                  *)
(***************************************************************************)
EXTENDS Browser, ShellProofs, ScreenProofs

-----------------------------------------------------------------------------
(* The workspace of the tab.                                               *)

LEMMA WkWithin ==
    /\ Init => wk = Closed \/ WkInit
    /\ [Next]_vars => [wk # Closed /\ WkNext]_wk
BY DEF Init, Next, vars

(* CacheOfItsWorkspace, of the browser: the data kept is that of the       *)
(* workspace it is shown for, in whatever order the user switches and the  *)
(* answers arrive (changeWorkspace, apiFetch, get_current_workspace).      *)
THEOREM BrowserKeepsWorkspacesApart == Spec => []CacheOfItsWorkspace
<1>1. Init => wk = Closed \/ WkInv
  BY WkWithin, WkInitInv
<1>2. (wk = Closed \/ WkInv) /\ [Next]_vars => (wk = Closed \/ WkInv)'
  BY WkWithin, WkNextInv DEF WkInv
<1>3. wk = Closed \/ WkInv => CacheOfItsWorkspace
  BY WkInvSuffices DEF CacheOfItsWorkspace
<1>4. QED
  BY <1>1, <1>2, <1>3, PTL DEF Spec

-----------------------------------------------------------------------------
(* The bell.                                                               *)

LEMMA NbWithin ==
    /\ Init => nb = Closed \/ NbInit
    /\ [Next]_vars => [nb # Closed /\ NbNext]_nb
BY DEF Init, Next, vars

(* BadgeCatchesUp, of the browser: NbTtl + 1 intervals after the last      *)
(* change the badge shows what is unread (notification-bell.tsx,           *)
(* unread_count).                                                          *)
THEOREM BrowserBadgeIsRight == Spec => []BadgeCatchesUp
<1>1. Init => nb = Closed \/ NbInv
  BY NbWithin, NbInitInv
<1>2. (nb = Closed \/ NbInv) /\ [Next]_vars => (nb = Closed \/ NbInv)'
  BY NbWithin, NbNextInv
<1>3. nb = Closed \/ NbInv => BadgeCatchesUp
  BY NbInvSuffices DEF BadgeCatchesUp
<1>4. QED
  BY <1>1, <1>2, <1>3, PTL DEF Spec

-----------------------------------------------------------------------------
(* Documents.                                                              *)

LEMMA DeWithin ==
    /\ Init => de = Closed \/ DeInit
    /\ [Next]_vars => [de # Closed /\ DeNext]_de
BY DEF Init, Next, vars

(* NothingReplacedUnseen, of the browser: as long as no two saves overlap, *)
(* no save replaces a text that its editor neither started from nor wrote  *)
(* (replace_document_content, BlockDocumentEditor).                        *)
THEOREM BrowserReplacesNothingUnseen == Spec => NothingReplacedUnseen
<1>1. Init => de = Closed \/ DeInv
  BY DeWithin, DeInitInv
<1>2. (de = Closed \/ DeInv) /\ [Next]_vars => (de = Closed \/ DeInv)'
  BY DeWithin, DeNextInv
<1>3. (de = Closed \/ DeInv) /\ [Next]_vars =>
        [(de # Closed /\ ~de.overlap) =>
           \A m \in de.net : ReplaceContent(m) => de.doc.stamp \in de.ed[m.ed].seen]_de
  BY DeInvSuffices
<1>4. QED
  BY <1>1, <1>2, <1>3, PTL DEF Spec, NothingReplacedUnseen

-----------------------------------------------------------------------------
(* The rows loaded by a table.                                             *)

LEMMA RcWithin ==
    /\ Init => rc = Closed \/ RcInit
    /\ [Next]_vars => [rc # Closed /\ RcNext]_rc
BY DEF Init, Next, vars

(* QuietTableIsComplete, of the browser: once nothing is under way the     *)
(* table has as many rows as there are and in each place one that belongs  *)
(* there, however loading and changing rows overlapped, creations that got *)
(* the same numbers included (rowsQ, invalidate, create_row).              *)
THEOREM BrowserTableIsComplete == Spec => []QuietTableIsComplete
<1>1. Init => rc = Closed \/ RcInv
  BY RcWithin, RcInitInv
<1>2. (rc = Closed \/ RcInv) /\ [Next]_vars => (rc = Closed \/ RcInv)'
  BY RcWithin, RcNextInv
<1>3. rc = Closed \/ RcInv => QuietTableIsComplete
  BY RcInvSuffices DEF QuietTableIsComplete
<1>4. QED
  BY <1>1, <1>2, <1>3, PTL DEF Spec


-----------------------------------------------------------------------------
(* Dates.                                                                  *)

LEMMA DvWithin ==
    /\ Init => dv = Closed \/ DvInit
    /\ [Next]_vars => [dv # Closed /\ DvNext]_dv
BY DEF Init, Next, vars

LEMMA DvAlways ==
    /\ Init => dv = Closed \/ (DvInv /\ DvHeld)
    /\ (dv = Closed \/ (DvInv /\ DvHeld)) /\ [Next]_vars => (dv = Closed \/ (DvInv /\ DvHeld))'
<1>1. Init => dv = Closed \/ (DvInv /\ DvHeld)
  BY DvWithin, DvInitInv, HeldInit
<1>2. ASSUME dv = Closed \/ (DvInv /\ DvHeld), [Next]_vars
      PROVE  (dv = Closed \/ (DvInv /\ DvHeld))'
  <2>1. CASE dv # Closed /\ DvNext
    BY <1>2, <2>1, DvNextInv, HeldNext
  <2>2. CASE UNCHANGED dv
    <3>1. CASE dv = Closed
      BY <2>2, <3>1
    <3>2. CASE dv # Closed
      BY <1>2, <2>2, <3>2, DvNextInv, HeldNext
    <3>3. QED
      BY <3>1, <3>2
  <2>3. QED
    BY <1>2, <2>1, <2>2, DvWithin
<1>3. QED
  BY <1>1, <1>2

(* RangesInOrder, of the browser: no range of days ends before it begins,  *)
(* whichever of the bars, the tray, the calendar and the picker wrote it   *)
(* (pickDay, applyDrag, reschedule, trayDown).                             *)
THEOREM BrowserRangesInOrder == Spec => []RangesInOrder
<1>1. dv = Closed \/ (DvInv /\ DvHeld) => RangesInOrder
  BY DvInvSuffices DEF RangesInOrder
<1>2. QED
  BY <1>1, DvAlways, PTL DEF Spec

(* WindowHoldsBars, of the browser: the window of the Gantt view has every *)
(* bar that is loaded and today in it, and its columns reach its end       *)
(* (GanttView, unitTicks).                                                 *)
THEOREM BrowserWindowHoldsBars == Spec => []WindowHoldsBars
<1>1. dv = Closed \/ (DvInv /\ DvHeld) => WindowHoldsBars
  BY DvInvSuffices DEF WindowHoldsBars
<1>2. QED
  BY <1>1, DvAlways, PTL DEF Spec

(* BarStaysWhereDrawn, of the browser: a bar let go is where it was drawn  *)
(* (beginDrag, applyDrag).                                                 *)
THEOREM BrowserBarStaysWhereDrawn == Spec => BarStaysWhereDrawn
<1>1. (dv = Closed \/ (DvInv /\ DvHeld)) /\ [Next]_vars =>
        [(dv # Closed /\ dv.drag # Closed) =>
         LET g == dv.drag
             d == g.delta * Snap
             left == g.span.start + IF g.mode = "end" THEN 0 ELSE d
             right == DrawnTo(g.span) + IF g.mode = "start" THEN 0 ELSE d
         IN (DropBar /\ (g.span.allDay => dv.period # "hour")
               /\ g.span.start + (IF g.mode = "end" THEN 0 ELSE d)
                     <= g.span.end + (IF g.mode = "start" THEN 0 ELSE d))
              => /\ Span(dv'.data[g.row][Axis]).start = left
                 /\ DrawnTo(Span(dv'.data[g.row][Axis])) = right]_dv
  BY DvInvSuffices
<1>2. QED
  BY <1>1, DvAlways, PTL DEF Spec, BarStaysWhereDrawn

(* EventLandsOnDay, of the browser: an event dropped on a day of the       *)
(* calendar is there afterwards, as long as it was (reschedule, onDrop).   *)
THEOREM BrowserEventLandsOnDay == Spec => EventLandsOnDay
<1>1. (dv = Closed \/ (DvInv /\ DvHeld)) /\ [Next]_vars =>
        [(dv # Closed /\ dv.mode = "calendar" /\ dv.dragId # NoRow) =>
         \A d \in DaysShown :
            (HasSpan(dv.dragId)
             /\ (DropOnMonth(dv.dragId, d) \/ DropOnAllDay(dv.dragId, d)
                 \/ \E k \in 0..(DvDay - 1) : DropOnHours(dv.dragId, d, k)))
            => LET r == dv.dragId
                   s == SpanOf(r)
                   n == Span(dv'.data[r][Axis])
               IN /\ r \in EventsOn(d)' /\ StartDay(n) = d
                  /\ n.end - n.start = s.end - s.start /\ n.allDay = s.allDay]_dv
  BY DvInvSuffices
<1>2. QED
  BY <1>1, DvAlways, PTL DEF Spec, EventLandsOnDay

-----------------------------------------------------------------------------
(* Sites.                                                                  *)

LEMMA SsWithin ==
    /\ Init => ss = Closed \/ SsInit
    /\ [Next]_vars => [ss # Closed /\ SsNext]_ss
BY DEF Init, Next, vars

(* QuietStudioIsTrue, of the browser: with nothing under way and no build  *)
(* to wait for, the lists and the canvas of the page are what the server   *)
(* has, but for a finished build of an environment a worker has written in *)
(* again (SiteManager's mutations, refetchInterval, WebDesigner's effect,  *)
(* execute_job).                                                           *)
THEOREM BrowserStudioIsTrue == Spec => []QuietStudioIsTrue
<1>1. Init => ss = Closed \/ SsInv
  BY SsWithin, SsInitInv
<1>2. (ss = Closed \/ SsInv) /\ [Next]_vars => (ss = Closed \/ SsInv)'
  BY SsWithin, SsNextInv DEF SsInv
<1>3. ss = Closed \/ SsInv => QuietStudioIsTrue
  BY SsInvSuffices DEF QuietStudioIsTrue
<1>4. QED
  BY <1>1, <1>2, <1>3, PTL DEF Spec

-----------------------------------------------------------------------------
(* Who else is here.                                                       *)

LEMMA CoWithin ==
    /\ Init => co = Closed \/ CoInit
    /\ [Next]_vars => [co # Closed /\ CoNext]_co
BY DEF Init, Next, vars

(* EveryoneListed, of the browser: with nothing under way each open window *)
(* lists the sessions that are there, each once, but for those it was told *)
(* of before an older snapshot (join, leave, broadcast, useCollaboration). *)
THEOREM BrowserListsEveryone == Spec => []EveryoneListed
<1>1. Init => co = Closed \/ CoInv
  BY CoWithin, CoInitInv
<1>2. (co = Closed \/ CoInv) /\ [Next]_vars => (co = Closed \/ CoInv)'
  BY CoWithin, CoNextInv DEF CoInv
<1>3. co = Closed \/ CoInv => EveryoneListed
  BY CoInvSuffices DEF EveryoneListed
<1>4. QED
  BY <1>1, <1>2, <1>3, PTL DEF Spec

-----------------------------------------------------------------------------
(* Columns.                                                                *)

LEMMA CfWithin ==
    /\ Init => cf = Closed \/ CfInit
    /\ [Next]_vars => [cf # Closed /\ CfNext]_cf
BY DEF Init, Next, vars

(* InsertedBeside, of the browser: a column inserted beside another stands *)
(* there when its requests are carried out, whatever was done meanwhile    *)
(* (insertField, reorder_fields).                                          *)
THEOREM BrowserInsertedBeside == Spec => InsertedBeside
<1>1. Init => cf = Closed \/ CfInv
  BY CfWithin, CfInitInv
<1>2. (cf = Closed \/ CfInv) /\ [Next]_vars => (cf = Closed \/ CfInv)'
  BY CfWithin, CfNextInv DEF CfInv
<1>3. (cf = Closed \/ CfInv) /\ [Next]_vars =>
        [cf # Closed => \A m \in cf.net :
           (/\ m.do = "insert" /\ m.step = "created" /\ m \notin cf'.net
            /\ {f.id : f \in cf.fields} \subseteq Range(m.ids) \cup {m.id}
            /\ {m.target, m.id} \subseteq {f.id : f \in cf.fields}
            /\ m.target \in Range(m.ids))
           => IF m.side = "left" THEN Directly(cf'.fields, m.id, m.target)
              ELSE Directly(cf'.fields, m.target, m.id)]_cf
  BY CfWithin, CfInvSuffices
<1>4. QED
  BY <1>1, <1>2, <1>3, PTL DEF Spec, InsertedBeside


-----------------------------------------------------------------------------
(* The grid.                                                               *)

LEMMA TgWithin ==
    /\ Init => tg = Closed \/ TgInit
    /\ [Next]_vars => [tg # Closed /\ TgNext]_tg
BY DEF Init, Next, vars

LEMMA TgAlways == Spec => [](tg = Closed \/ TgInv)
<1>1. Init => tg = Closed \/ TgInv
  BY TgWithin, TgInitInv
<1>2. (tg = Closed \/ TgInv) /\ [Next]_vars => (tg = Closed \/ TgInv)'
  BY TgWithin, TgNextInv DEF TgInv
<1>3. QED
  BY <1>1, <1>2, PTL DEF Spec

(* TypedStaysInCell, of the browser: what is typed into a cell is written  *)
(* to that cell or nowhere, whatever else is clicked, sorted, grouped,     *)
(* hidden, added or deleted before the input is left (commitCell, the key  *)
(* of CellEditor).                                                         *)
THEOREM BrowserTypedStaysInCell == Spec => TypedStaysInCell
<1>1. (tg = Closed \/ TgInv) /\ [Next]_vars =>
        [OnGrid => \A r \in Range(TgRows), f \in Range(TgFields) :
            (TgKind[f] = "text" /\ tg.data[r][f] # tg'.data[r][f])
                => tg.typedIn = Cell(r, f) /\ tg'.data[r][f] = tg.draft]_tg
  <2>1. CASE tg = Closed
    BY <2>1 DEF OnGrid
  <2>2. CASE TgInv
    <3>1. [Next]_vars => [TgNext]_tg
      BY TgWithin
    <3>2. QED
      BY <2>2, <3>1, TgTypedStays
  <2>3. QED
    BY <2>1, <2>2
<1>2. QED
  BY <1>1, TgAlways, PTL DEF Spec, TypedStaysInCell

(* KeysFollowHighlight, of the browser: in a flat arrangement a key moves  *)
(* the highlight to a cell of the page, and Enter edits the highlighted    *)
(* cell, also after rows left the page (the grid's onKey).                 *)
THEOREM BrowserKeysFollowHighlight == Spec => KeysFollowHighlight
<1>1. (tg = Closed \/ TgInv) =>
        [(OnGrid /\ tg.arr.mode = "flat" /\ Shown(tg) # <<>> /\ DisplayFields(tg) # <<>>) =>
          /\ StepKey => /\ tg'.range.r2 \in DOMAIN Shown(tg')
                        /\ tg'.range.c2 \in DOMAIN DisplayFields(tg')
          /\ EnterKey => HighlightedIn(tg', Place(Shown(tg'), tg'.edit[1]),
                                            Place(DisplayFields(tg'), tg'.edit[2]))]_tg
  <2>1. CASE tg = Closed
    BY <2>1 DEF OnGrid
  <2>2. CASE TgInv
    BY <2>2, TgKeysFollow
  <2>3. QED
    BY <2>1, <2>2
<1>2. QED
  BY <1>1, TgAlways, PTL DEF KeysFollowHighlight

(* SelectionSpansRows, of the browser: as long as the rows stay as they    *)
(* are and are shown as the server has them, Shift-click and Ctrl+Shift    *)
(* with an arrow select the rows from the one clicked first to the one     *)
(* reached (handleRowClick).                                               *)
THEOREM BrowserSelectionSpansRows == Spec => []SelectionSpansRows
<1>1. tg = Closed \/ TgInv => SelectionSpansRows
  BY TgSpans DEF SelectionSpansRows
<1>2. QED
  BY <1>1, TgAlways, PTL

-----------------------------------------------------------------------------
(* The rows of a view, and their cells.                                     *)

RvParts == {"rows", "gone", "ops", "data", "fields", "filter", "sorts", "group", "hideEmpty", "collapsed",
            "pages", "query", "only", "scope", "board", "sub", "cards", "drag", "edit", "kind"}
IsView(v) == v = [q \in RvParts |-> v[q]]

IsRow(cells) == /\ DOMAIN cells = Range(RvFields)
                /\ \A f \in Range(RvFields) : cells[f] \in CellsOf(f)
IsData(d) == d = [r \in Range(RvRows) |-> d[r]] /\ \A r \in Range(RvRows) : IsRow(d[r])

SortRules == [field : Range(RvFields) \cup {NoField}, dir : {"asc", "desc"}]

(* The rows of a view are different ones and their cells of their columns' *)
(* types, a card being dragged is one of them.                             *)
RvSound(v) ==
    /\ IsView(v) /\ IsData(v.data)
    /\ v.rows \in Seq(Range(RvRows)) /\ IsInjective(v.rows)
    /\ v.fields \subseteq Range(RvFields) /\ v.sorts \in Seq(SortRules)
    /\ v.drag \in Range(RvRows) \cup {NoRow}
    /\ \A k \in DOMAIN v.cards : v.cards[k] \in Nat

RvInv == RvSound(rv)

(* What a view shows are rows of it, each once.                            *)
LEMMA VisibleIs ==
    ASSUME NEW v, RvSound(v)
    PROVE  /\ Visible(v) \in Seq(Range(RvRows)) /\ IsInjective(Visible(v))
           /\ Range(Visible(v)) \subseteq Range(v.rows) /\ Len(Visible(v)) <= Len(v.rows)
<1> DEFINE T == Range(RvRows)
           passed == ApplyFilterTree(v, v.rows)
           sorted == ApplySorts(v, passed)
<1>1. v.rows \in Seq(T) /\ IsInjective(v.rows)
  BY DEF RvSound
<1>2. /\ passed \in Seq(T) /\ IsInjective(passed)
      /\ Range(passed) \subseteq Range(v.rows) /\ Len(passed) <= Len(v.rows)
  <2>1. PICK S : passed = Kept(v.rows, S)
    BY DEF ApplyFilterTree
  <2>2. Kept(v.rows, S) \in Seq(T) /\ IsInjective(Kept(v.rows, S)) /\ Range(Kept(v.rows, S)) = Range(v.rows) \cap S
    BY <1>1, KeptIs
  <2>3. Len(Kept(v.rows, S)) <= Len(v.rows)
    BY <1>1, KeptHas
  <2>4. QED
    BY <2>1, <2>2, <2>3
<1> HIDE DEF passed
<1>3. sorted \in Seq(T) /\ IsInjective(sorted) /\ Len(sorted) = Len(passed) /\ Range(sorted) = Range(passed)
  <2>1. PICK R : sorted = Sorted(passed, R)
    BY DEF ApplySorts
  <2>2. /\ Sorted(passed, R) \in Seq(T) /\ IsInjective(Sorted(passed, R)) /\ Len(Sorted(passed, R)) = Len(passed)
        /\ Range(Sorted(passed, R)) = Range(passed)
    BY <1>2, SortedIs
  <2>3. QED
    BY <2>1, <2>2
<1> HIDE DEF sorted
<1>4. PICK S : Visible(v) = Kept(sorted, S)
  BY DEF Visible, sorted, passed
<1>5. Kept(sorted, S) \in Seq(T) /\ IsInjective(Kept(sorted, S)) /\ Range(Kept(sorted, S)) = Range(sorted) \cap S
  BY <1>3, KeptIs
<1>6. Len(Kept(sorted, S)) <= Len(sorted)
  BY <1>3, KeptHas
<1>7. Len(Kept(sorted, S)) \in Nat /\ Len(sorted) \in Nat /\ Len(passed) \in Nat /\ Len(v.rows) \in Nat
  BY <1>1, <1>2, <1>3, <1>5, LenProperties
<1>8. QED
  BY <1>2, <1>3, <1>4, <1>5, <1>6, <1>7

(* The cards of a column in a swimlane.                                    *)
LEMMA CardsAre ==
    ASSUME NEW v, RvSound(v), NEW col, NEW lane
    PROVE  /\ CardsIn(v, col, lane) \in Seq(Range(RvRows)) /\ Len(CardsIn(v, col, lane)) <= Len(Visible(v))
           /\ Range(CardsIn(v, col, lane)) =
                {r \in Range(Visible(v)) : /\ InColumn(v, BoardField(v), r, col)
                                           /\ SubField(v) # NoField => InColumn(v, SubField(v), r, lane)}
<1> DEFINE S == {r \in Range(Visible(v)) : /\ InColumn(v, BoardField(v), r, col)
                                           /\ SubField(v) # NoField => InColumn(v, SubField(v), r, lane)}
<1>1. CardsIn(v, col, lane) = Kept(Visible(v), S)
  BY DEF CardsIn
<1>2. S \subseteq Range(Visible(v))
  OBVIOUS
<1> HIDE DEF S
<1>3. Visible(v) \in Seq(Range(RvRows))
  BY VisibleIs
<1>4. /\ Kept(Visible(v), S) \in Seq(Range(RvRows)) /\ Len(Kept(Visible(v), S)) <= Len(Visible(v))
      /\ Range(Kept(Visible(v), S)) = Range(Visible(v)) \cap S
  BY <1>3, KeptHas
<1>5. Range(CardsIn(v, col, lane)) = S
  BY <1>1, <1>2, <1>4
<1>6. QED
  BY <1>1, <1>4, <1>5 DEF S

(* The first so many of a list are some of it.                             *)
LEMMA FirstSome ==
    ASSUME NEW T, NEW s \in Seq(T), NEW n \in Int
    PROVE  Range(SubSeq(s, 1, Min({Len(s), n}))) \subseteq Range(s)
<1> DEFINE m == Min({Len(s), n})
<1>1. m \in Int /\ m <= Len(s) /\ Len(s) \in Nat
  BY MinOfTwo, LenProperties
<1> HIDE DEF m
<1>2. \A i \in 1..m : s[i] \in Range(s)
  BY <1>1, LenProperties DEF Range
<1>3. DOMAIN SubSeq(s, 1, m) = 1..m /\ \A i \in 1..m : SubSeq(s, 1, m)[i] = s[i]
  BY <1>1, SubSeqProperties
<1>4. Range(SubSeq(s, 1, m)) \subseteq Range(s)
  BY <1>2, <1>3 DEF Range
<1>5. QED
  BY <1>4 DEF m

LEMMA ShownAre ==
    ASSUME NEW v, RvSound(v), NEW col, NEW lane
    PROVE  Range(ShownIn(v, col, lane)) \subseteq Range(RvRows)
<1> DEFINE cards == CardsIn(v, col, lane)
           n == RvLimit * (PagesOf(v, PageKey(col, lane)) + 1)
<1>1. n \in Int
  <2>1. PagesOf(v, PageKey(col, lane)) \in Nat
    BY DEF PagesOf, RvSound
  <2>2. QED
    BY <2>1, RvAssumption
<1>2. cards \in Seq(Range(RvRows))
  BY CardsAre
<1>3. ShownIn(v, col, lane) = SubSeq(cards, 1, Min({Len(cards), n}))
  BY DEF ShownIn
<1> HIDE DEF n, cards
<1>4. Range(ShownIn(v, col, lane)) \subseteq Range(cards)
  BY <1>1, <1>2, <1>3, FirstSome
<1>5. Range(cards) \subseteq Range(RvRows)
  BY <1>2, LenProperties, ElementOfSeq DEF Range
<1>6. QED
  BY <1>4, <1>5

(* The columns of a board are of values its cells can hold.                *)
LEMMA ColumnsHold ==
    ASSUME NEW v, RvSound(v), NEW f \in Range(RvFields), NEW col \in ColumnsFor(v, f)
    PROVE  col.value \in CellsOf(f)
<1> DEFINE seen == Visible(v)
           filled == Kept(seen, {r \in Range(seen) : ~IsEmpty(f, v.data[r][f])})
           Text(r) == ToText(f, v.data[r][f])
           texts == {Text(r) : r \in Range(filled)}
           Those(t) == Kept(filled, {r \in Range(filled) : Text(r) = t})
           First(t) == v.data[Those(t)[1]][f]
<1>1. seen \in Seq(Range(RvRows)) /\ IsInjective(seen)
  BY VisibleIs
<1>2. filled \in Seq(Range(RvRows)) /\ IsInjective(filled)
  <2> HIDE DEF seen
  <2>1. QED
    BY <1>1, KeptIs
<1>3. ASSUME NEW t \in texts PROVE First(t) \in CellsOf(f)
  <2>1. PICK r \in Range(filled) : Text(r) = t
    OBVIOUS
  <2>2. Those(t) \in Seq(Range(RvRows)) /\ Range(Those(t)) = Range(filled) \cap {q \in Range(filled) : Text(q) = t}
    <3> HIDE DEF filled
    <3>1. QED
      BY <1>2, KeptIs
  <2>3. r \in Range(Those(t))
    BY <2>1, <2>2
  <2> HIDE DEF Those
  <2>4. 1 \in 1..Len(Those(t))
    BY <2>2, <2>3, LenProperties DEF Range
  <2>5. Those(t)[1] \in Range(RvRows)
    BY <2>2, <2>4, ElementOfSeq
  <2>6. QED
    BY <2>5 DEF RvSound, IsData, IsRow
<1>4. CASE RvKind[f] = "select"
  <2>1. col = None \/ \E c \in ChoiceIds : col = [key |-> <<"is", c>>, value |-> c]
    BY <1>4 DEF ColumnsFor
  <2>2. col.value = Null \/ col.value \in DOMAIN RvLabel
    BY <2>1 DEF None, ChoiceIds
  <2>3. QED
    BY <1>4, <2>2, RvAssumption DEF CellsOf
<1>5. CASE RvKind[f] = "checkbox"
  <2>1. \E b \in BOOLEAN : col = [key |-> <<"checked", b>>, value |-> b]
    BY <1>5 DEF ColumnsFor
  <2>2. col.value \in BOOLEAN
    BY <2>1
  <2>3. QED
    BY <1>5, <2>2 DEF CellsOf
<1>6. CASE RvKind[f] \notin {"select", "checkbox"}
  <2>1. col = None \/ \E t \in texts : col = [key |-> <<"as", t>>, value |-> First(t)]
    BY <1>6 DEF ColumnsFor
  <2>2. CASE col = None
    BY <2>2 DEF None, CellsOf
  <2>3. CASE \E t \in texts : col = [key |-> <<"as", t>>, value |-> First(t)]
    <3>1. PICK t \in texts : col = [key |-> <<"as", t>>, value |-> First(t)]
      BY <2>3
    <3>2. col.value = First(t)
      BY <3>1
    <3>3. QED
      BY <1>3, <3>2
  <2>4. QED
    BY <2>1, <2>2, <2>3
<1>7. QED
  BY <1>4, <1>5, <1>6
(* Cells that a row can have.                                              *)
Fitting(p) == DOMAIN p \subseteq Range(RvFields) /\ \A f \in DOMAIN p : p[f] \in CellsOf(f)

LEMMA ColumnFits ==
    ASSUME NEW f \in Range(RvFields), NEW col, col.value \in CellsOf(f)
    PROVE  /\ Fitting(ColumnCell(f, col))
           /\ Settable(f) => DOMAIN ColumnCell(f, col) = {f} /\ ColumnCell(f, col)[f] = col.value
           /\ ~Settable(f) => DOMAIN ColumnCell(f, col) = {}
<1>1. DOMAIN <<>> = {}
  OBVIOUS
<1>2. CASE Settable(f)
  <2>1. ColumnCell(f, col) = [q \in {f} |-> col.value]
    BY <1>1, <1>2 DEF ColumnCell, Put
  <2>2. QED
    BY <1>2, <2>1 DEF Fitting
<1>3. CASE ~Settable(f)
  <2>1. ColumnCell(f, col) = <<>>
    BY <1>3 DEF ColumnCell
  <2>2. QED
    BY <1>1, <1>3, <2>1 DEF Fitting
<1>4. QED
  BY <1>2, <1>3

LEMMA PlacementFits ==
    ASSUME NEW v, RvSound(v), BoardField(v) \in v.fields,
           NEW col \in ColumnsFor(v, BoardField(v)), NEW lane \in Lanes(v)
    PROVE  /\ Fitting(Placement(v, col, lane))
           /\ Settable(BoardField(v)) /\ BoardField(v) # SubField(v) =>
                 /\ BoardField(v) \in DOMAIN Placement(v, col, lane)
                 /\ Placement(v, col, lane)[BoardField(v)] = col.value
           /\ SubField(v) # NoField /\ Settable(SubField(v)) =>
                 /\ SubField(v) \in DOMAIN Placement(v, col, lane)
                 /\ Placement(v, col, lane)[SubField(v)] = lane.value
<1> DEFINE b == BoardField(v)
           u == SubField(v)
           c == ColumnCell(b, col)
           p == Placement(v, col, lane)
<1>1. b \in Range(RvFields) /\ col.value \in CellsOf(b)
  BY ColumnsHold DEF RvSound
<1>2. /\ Fitting(c)
      /\ Settable(b) => DOMAIN c = {b} /\ c[b] = col.value
  BY <1>1, ColumnFits
<1>3. p = IF u # NoField /\ Settable(u) THEN Put(c, u, lane.value) ELSE c
  BY DEF Placement
<1>4. u # NoField => u \in Range(RvFields) /\ lane.value \in CellsOf(u)
  <2>1. SUFFICES ASSUME u # NoField PROVE u \in Range(RvFields) /\ lane.value \in CellsOf(u)
    OBVIOUS
  <2>2. u \in Range(RvFields)
    BY <2>1 DEF SubField, RvSound
  <2>3. lane \in ColumnsFor(v, u)
    BY <2>1 DEF Lanes
  <2> HIDE DEF u
  <2>4. QED
    BY <2>2, <2>3, ColumnsHold
<1> HIDE DEF b, u, c, p
<1>5. CASE u # NoField /\ Settable(u)
  <2>1. p = [q \in DOMAIN c \cup {u} |-> IF q = u THEN lane.value ELSE c[q]]
    BY <1>3, <1>5 DEF Put
  <2>2. Fitting(p)
    BY <1>2, <1>4, <1>5, <2>1 DEF Fitting
  <2>3. Settable(b) /\ b # u => b \in DOMAIN p /\ p[b] = col.value
    BY <1>2, <2>1
  <2>4. u \in DOMAIN p /\ p[u] = lane.value
    BY <2>1
  <2>5. QED
    BY <2>2, <2>3, <2>4 DEF b, u, p
<1>6. CASE ~(u # NoField /\ Settable(u))
  <2>1. p = c
    BY <1>3, <1>6
  <2>2. QED
    BY <1>2, <1>6, <2>1 DEF b, u, p
<1>7. QED
  BY <1>5, <1>6

LEMMA MergedFits ==
    ASSUME NEW c, IsRow(c), NEW p, Fitting(p)
    PROVE  /\ IsRow(Merged(c, p)) /\ \A f \in DOMAIN p : Merged(c, p)[f] = p[f]
<1>1. DOMAIN c = Range(RvFields) /\ \A f \in Range(RvFields) : c[f] \in CellsOf(f)
  BY DEF IsRow
<1>2. DOMAIN p \subseteq Range(RvFields) /\ \A f \in DOMAIN p : p[f] \in CellsOf(f)
  BY DEF Fitting
<1>3. Merged(c, p) = [q \in Range(RvFields) |-> IF q \in DOMAIN p THEN p[q] ELSE c[q]]
  <2>1. DOMAIN c \cup DOMAIN p = Range(RvFields)
    BY <1>1, <1>2
  <2>2. QED
    BY <2>1 DEF Merged
<1>4. QED
  BY <1>1, <1>2, <1>3 DEF IsRow

LEMMA BlankIsRow == IsRow(Blank)
  BY DEF IsRow, Blank, CellsOf

(* One row's cells are written.                                            *)
LEMMA WrittenData ==
    ASSUME NEW d, IsData(d), NEW r, NEW c, r \in Range(RvRows) => IsRow(c)
    PROVE  /\ IsData([d EXCEPT ![r] = c])
           /\ r \in Range(RvRows) => [d EXCEPT ![r] = c][r] = c
           /\ \A q \in Range(RvRows) \ {r} : [d EXCEPT ![r] = c][q] = d[q]
  BY DEF IsData

LEMMA WrittenCell ==
    ASSUME NEW d, IsData(d), NEW r, NEW f \in Range(RvFields), NEW x \in CellsOf(f)
    PROVE  IsData([d EXCEPT ![r][f] = x])
<1>1. r \in Range(RvRows) => IsRow([d[r] EXCEPT ![f] = x])
  BY DEF IsData, IsRow
<1>2. IsData([d EXCEPT ![r] = [d[r] EXCEPT ![f] = x]])
  BY <1>1, WrittenData
<1>3. [d EXCEPT ![r][f] = x] = [d EXCEPT ![r] = [d[r] EXCEPT ![f] = x]]
  OBVIOUS
<1>4. QED
  BY <1>2, <1>3

(* What a step of a view gives.                                            *)
LEMMA DoesSound ==
    ASSUME NEW w, RvSound(w), Does(w)
    PROVE  RvInv'
<1>1. rv' = [w EXCEPT !.ops = @ - 1]
  BY DEF Does
<1>2. IsView(rv')
  BY <1>1 DEF RvSound, IsView
<1>3. /\ rv'.rows = w.rows /\ rv'.data = w.data /\ rv'.fields = w.fields /\ rv'.sorts = w.sorts
      /\ rv'.drag = w.drag /\ rv'.cards = w.cards
  BY <1>1 DEF RvSound, IsView, RvParts
<1>4. RvSound(rv')
  BY <1>2, <1>3 DEF RvSound
<1>5. QED
  BY <1>4 DEF RvInv

LEMMA Elsewhere ==
    ASSUME NEW v, RvSound(v), NEW p \in RvParts \ {"data", "rows", "fields", "sorts", "drag", "cards"}, NEW x
    PROVE  RvSound([v EXCEPT ![p] = x])
<1> DEFINE w == [v EXCEPT ![p] = x]
<1>1. IsView(w)
  BY DEF RvSound, IsView
<1>2. /\ w.rows = v.rows /\ w.data = v.data /\ w.fields = v.fields /\ w.sorts = v.sorts
      /\ w.drag = v.drag /\ w.cards = v.cards
  BY DEF RvSound, IsView, RvParts
<1> HIDE DEF w
<1>3. RvSound(w)
  BY <1>1, <1>2 DEF RvSound
<1>4. QED
  BY <1>3 DEF w

LEMMA SomewhereElse ==
    ASSUME RvInv, NEW p \in RvParts \ {"data", "rows", "fields", "sorts", "drag", "cards"}, NEW x,
           Does([rv EXCEPT ![p] = x])
    PROVE  RvInv'
<1>1. RvSound([rv EXCEPT ![p] = x])
  BY Elsewhere DEF RvInv
<1>2. QED
  BY <1>1, DoesSound

LEMMA LiveIs ==
    ASSUME NEW v, RvSound(v)
    PROVE  Live(v) \in Seq(Range(RvFields)) /\ Range(Live(v)) = v.fields
<1>1. RvFields \in Seq(Range(RvFields)) /\ v.fields \subseteq Range(RvFields)
  BY RvAssumption DEF RvSound
<1>2. Live(v) \in Seq(Range(RvFields)) /\ Range(Live(v)) = Range(RvFields) \cap v.fields
  BY <1>1, KeptHas DEF Live
<1>3. QED
  BY <1>1, <1>2

LEMMA TitleIs ==
    ASSUME NEW v, RvSound(v), Titles(v) # <<>>
    PROVE  Titles(v)[1] \in Range(RvFields) /\ RvKind[Titles(v)[1]] = "text"
<1> DEFINE S == {f \in v.fields : RvKind[f] = "text"}
<1>1. Live(v) \in Seq(Range(RvFields))
  BY LiveIs
<1>2. Titles(v) \in Seq(Range(RvFields)) /\ Range(Titles(v)) = Range(Live(v)) \cap S
  BY <1>1, KeptHas DEF Titles
<1>3. Titles(v)[1] \in Range(Titles(v)) /\ 1 \in 1..Len(Titles(v))
  <2>1. Len(Titles(v)) \in Nat /\ Len(Titles(v)) # 0
    BY <1>2, EmptySeq, LenProperties
  <2>2. QED
    BY <1>2, <2>1, LenProperties DEF Range
<1>4. QED
  BY <1>2, <1>3, ElementOfSeq

-----------------------------------------------------------------------------
(* The toolbar, the column menu and the search bar.                        *)
LEMMA EditFilterKeeps ==
    ASSUME RvInv, EditFilter
    PROVE  RvInv'
<1>1. PICK g : Does([rv EXCEPT !.filter = g])
  BY DEF EditFilter
<1>2. QED
  BY <1>1, SomewhereElse DEF RvParts

LEMMA SortsKeep ==
    ASSUME RvInv, NEW s \in Seq(SortRules), Does([rv EXCEPT !.sorts = s])
    PROVE  RvInv'
<1> DEFINE w == [rv EXCEPT !.sorts = s]
<1>1. RvSound(rv)
  BY DEF RvInv
<1>2. IsView(w)
  BY <1>1 DEF RvSound, IsView
<1>3. /\ w.rows = rv.rows /\ w.data = rv.data /\ w.fields = rv.fields /\ w.sorts = s
      /\ w.drag = rv.drag /\ w.cards = rv.cards
  BY <1>1 DEF RvSound, IsView, RvParts
<1>4. Does(w)
  OBVIOUS
<1> HIDE DEF w
<1>5. RvSound(w)
  BY <1>1, <1>2, <1>3 DEF RvSound
<1>6. QED
  BY <1>4, <1>5, DoesSound

LEMMA EditSortsKeeps ==
    ASSUME RvInv, EditSorts
    PROVE  RvInv'
<1> DEFINE r == rv.sorts
<1>1. PICK s \in SortEdits : Does([rv EXCEPT !.sorts = s])
  BY DEF EditSorts
<1>2. \/ s = Append(r, FirstSort)
      \/ \E i \in DOMAIN r : s = RemoveAt(r, i)
      \/ \E i \in DOMAIN r, f \in rv.fields \cup {NoField} : s = [r EXCEPT ![i].field = f]
      \/ \E i \in DOMAIN r, d \in {"asc", "desc"} : s = [r EXCEPT ![i].dir = d]
  BY SMTT(30) DEF SortEdits
<1>3. r \in Seq(SortRules) /\ rv.fields \subseteq Range(RvFields)
  BY DEF RvInv, RvSound
<1>4. DOMAIN r = 1..Len(r) /\ \A i \in 1..Len(r) : r[i] \in SortRules
  BY <1>3, LenProperties, ElementOfSeq
<1> HIDE DEF r
<1>5. ASSUME s = Append(r, FirstSort)
      PROVE  s \in Seq(SortRules)
  <2>1. CASE Live(rv) = <<>>
    <3>1. FirstSort = [field |-> NoField, dir |-> "asc"]
      BY <2>1 DEF FirstSort
    <3>2. FirstSort \in SortRules
      BY <3>1 DEF SortRules
    <3>3. QED
      BY <1>3, <1>5, <3>2, AppendProperties
  <2>2. CASE Live(rv) # <<>>
    <3>1. Live(rv) \in Seq(Range(RvFields))
      BY LiveIs DEF RvInv
    <3>2. 1 \in 1..Len(Live(rv))
      BY <2>2, <3>1, EmptySeq, LenProperties
    <3>3. Live(rv)[1] \in Range(RvFields)
      BY <3>1, <3>2, ElementOfSeq
    <3>4. FirstSort = [field |-> Live(rv)[1], dir |-> "asc"]
      BY <2>2 DEF FirstSort
    <3>5. FirstSort \in SortRules
      BY <3>3, <3>4 DEF SortRules
    <3>6. QED
      BY <1>3, <1>5, <3>5, AppendProperties
  <2>3. QED
    BY <2>1, <2>2
<1>6. ASSUME NEW i \in DOMAIN r, s = RemoveAt(r, i)
      PROVE  s \in Seq(SortRules)
  BY <1>3, <1>4, <1>6, RemovedAt
<1>7. ASSUME NEW i \in DOMAIN r, NEW f \in rv.fields \cup {NoField}, s = [r EXCEPT ![i].field = f]
      PROVE  s \in Seq(SortRules)
  <2>1. [r[i] EXCEPT !.field = f] \in SortRules
    BY <1>3, <1>4, <1>7 DEF SortRules
  <2>2. [r EXCEPT ![i] = [r[i] EXCEPT !.field = f]] \in Seq(SortRules)
    BY <1>3, <1>4, <2>1, ExceptSeq
  <2>3. QED
    BY <1>7, <2>2
<1>8. ASSUME NEW i \in DOMAIN r, NEW d \in {"asc", "desc"}, s = [r EXCEPT ![i].dir = d]
      PROVE  s \in Seq(SortRules)
  <2>1. [r[i] EXCEPT !.dir = d] \in SortRules
    BY <1>3, <1>4, <1>8 DEF SortRules
  <2>2. [r EXCEPT ![i] = [r[i] EXCEPT !.dir = d]] \in Seq(SortRules)
    BY <1>3, <1>4, <2>1, ExceptSeq
  <2>3. QED
    BY <1>8, <2>2
<1>9. s \in Seq(SortRules)
  BY <1>2, <1>5, <1>6, <1>7, <1>8
<1>10. QED
  BY <1>1, <1>9, SortsKeep

LEMMA EditGroupKeeps ==
    ASSUME RvInv, EditGroup
    PROVE  RvInv'
<1>1. \/ \E f : Does([rv EXCEPT !.board = f])
      \/ \E f : Does([rv EXCEPT !.group = f])
      \/ Does([rv EXCEPT !.hideEmpty = ~@])
      \/ \E f : Does([rv EXCEPT !.sub = f])
  BY DEF EditGroup
<1>2. ASSUME NEW f, Does([rv EXCEPT !.board = f]) PROVE RvInv'
  BY <1>2, SomewhereElse DEF RvParts
<1>3. ASSUME NEW f, Does([rv EXCEPT !.group = f]) PROVE RvInv'
  BY <1>3, SomewhereElse DEF RvParts
<1>4. ASSUME Does([rv EXCEPT !.hideEmpty = ~@]) PROVE RvInv'
  BY <1>4, SomewhereElse DEF RvParts
<1>5. ASSUME NEW f, Does([rv EXCEPT !.sub = f]) PROVE RvInv'
  BY <1>5, SomewhereElse DEF RvParts
<1>6. QED
  BY <1>1, <1>2, <1>3, <1>4, <1>5

LEMMA ToolbarKeeps ==
    ASSUME RvInv, Toolbar
    PROVE  RvInv'
  BY EditFilterKeeps, EditSortsKeeps, EditGroupKeeps DEF Toolbar

LEMMA SortByKeeps ==
    ASSUME RvInv, NEW f \in rv.fields, NEW dir \in {"asc", "desc"}, SortBy(f, dir)
    PROVE  RvInv'
<1> DEFINE r == rv.sorts
           others == Kept(r, {s \in Range(r) : s.field # f})
           first == [field |-> f, dir |-> dir]
<1>1. r \in Seq(SortRules) /\ f \in Range(RvFields)
  BY DEF RvInv, RvSound
<1>2. first \in SortRules
  BY <1>1 DEF SortRules
<1>3. Does([rv EXCEPT !.sorts = <<first>> \o others])
  BY DEF SortBy
<1> HIDE DEF r, first
<1>4. others \in Seq(SortRules)
  BY <1>1, KeptHas
<1> HIDE DEF others
<1>5. <<first>> \o others \in Seq(SortRules)
  BY <1>2, <1>4, ConcatProperties
<1>6. QED
  BY <1>3, <1>5, SortsKeep

LEMMA DeleteColumnKeeps ==
    ASSUME RvInv, NEW f, DeleteColumn(f)
    PROVE  RvInv'
<1> DEFINE w == [rv EXCEPT !.fields = @ \ {f}]
<1>1. RvSound(rv)
  BY DEF RvInv
<1>2. IsView(w)
  BY <1>1 DEF RvSound, IsView
<1>3. /\ w.rows = rv.rows /\ w.data = rv.data /\ w.fields = rv.fields \ {f} /\ w.sorts = rv.sorts
      /\ w.drag = rv.drag /\ w.cards = rv.cards
  BY <1>1 DEF RvSound, IsView, RvParts
<1>4. Does(w)
  BY DEF DeleteColumn
<1> HIDE DEF w
<1>5. RvSound(w)
  BY <1>1, <1>2, <1>3 DEF RvSound
<1>6. QED
  BY <1>4, <1>5, DoesSound

LEMMA ColumnMenuKeeps ==
    ASSUME RvInv, ColumnMenu
    PROVE  RvInv'
<1>1. PICK f \in rv.fields :
         \/ \E dir \in {"asc", "desc"} : SortBy(f, dir)
         \/ Does([rv EXCEPT !.group = IF @ = f THEN NoField ELSE f])
         \/ Does([rv EXCEPT !.filter.rules = Append(@, NewRule(f))])
         \/ DeleteColumn(f)
  BY DEF ColumnMenu
<1>2. ASSUME NEW dir \in {"asc", "desc"}, SortBy(f, dir) PROVE RvInv'
  BY <1>2, SortByKeeps
<1>3. ASSUME Does([rv EXCEPT !.group = IF @ = f THEN NoField ELSE f]) PROVE RvInv'
  BY <1>3, SomewhereElse DEF RvParts
<1>4. ASSUME Does([rv EXCEPT !.filter.rules = Append(@, NewRule(f))]) PROVE RvInv'
  <2>1. Does([rv EXCEPT !.filter = [rv.filter EXCEPT !.rules = Append(rv.filter.rules, NewRule(f))]])
    BY <1>4
  <2>2. QED
    BY <2>1, SomewhereElse DEF RvParts
<1>5. ASSUME DeleteColumn(f) PROVE RvInv'
  BY <1>5, DeleteColumnKeeps
<1>6. QED
  BY <1>1, <1>2, <1>3, <1>4, <1>5

LEMMA SearchBarKeeps ==
    ASSUME RvInv, SearchBar
    PROVE  RvInv'
<1>1. \/ \E q : Does([rv EXCEPT !.query = q])
      \/ \E f : Does([rv EXCEPT !.scope = f])
      \/ Does([rv EXCEPT !.only = ~@])
  BY DEF SearchBar
<1>2. ASSUME NEW q, Does([rv EXCEPT !.query = q]) PROVE RvInv'
  BY <1>2, SomewhereElse DEF RvParts
<1>3. ASSUME NEW f, Does([rv EXCEPT !.scope = f]) PROVE RvInv'
  BY <1>3, SomewhereElse DEF RvParts
<1>4. ASSUME Does([rv EXCEPT !.only = ~@]) PROVE RvInv'
  BY <1>4, SomewhereElse DEF RvParts
<1>5. QED
  BY <1>1, <1>2, <1>3, <1>4

-----------------------------------------------------------------------------
(* List and Gallery.                                                       *)
(* A step that changes what RvSound is about: rows, data, drag and pages.   *)
LEMMA RowsKeep ==
    ASSUME RvInv, NEW w, Does(w), IsView(w), IsData(w.data),
           w.rows \in Seq(Range(RvRows)), IsInjective(w.rows),
           w.fields = rv.fields, w.sorts = rv.sorts, w.drag \in Range(RvRows) \cup {NoRow},
           \A k \in DOMAIN w.cards : w.cards[k] \in Nat
    PROVE  RvInv'
<1>1. RvSound(w)
  BY DEF RvInv, RvSound
<1>2. QED
  BY <1>1, DoesSound

LEMMA TitleKeeps ==
    ASSUME RvInv, NEW r, NEW t \in RvTexts \cup {Null}, Titles(rv) # <<>>
    PROVE  IsData([rv.data EXCEPT ![r][Titles(rv)[1]] = t])
<1>1. Titles(rv)[1] \in Range(RvFields) /\ RvKind[Titles(rv)[1]] = "text"
  BY TitleIs DEF RvInv
<1>2. t \in CellsOf(Titles(rv)[1])
  BY <1>1, RvAssumption DEF CellsOf
<1>3. IsData(rv.data)
  BY DEF RvInv, RvSound
<1>4. QED
  BY <1>1, <1>2, <1>3, WrittenCell

LEMMA CommitTitleKeeps ==
    ASSUME RvInv, CommitTitle
    PROVE  RvInv'
<1>1. PICK r \in Listed(rv), t \in RvTexts \cup {Null} :
         /\ Titles(rv) # <<>>
         /\ Does([rv EXCEPT !.data[r][Titles(rv)[1]] = t, !.edit = r, !.pages = Len(rv.rows) \div RvLimit])
  BY DEF CommitTitle
<1> DEFINE f == Titles(rv)[1]
           d == [rv.data EXCEPT ![r][f] = t]
           w == [rv EXCEPT !.data = d, !.edit = r, !.pages = Len(rv.rows) \div RvLimit]
<1>2. Does(w)
  BY <1>1
<1>3. IsData(d)
  BY <1>1, TitleKeeps
<1>4. RvSound(rv)
  BY DEF RvInv
<1> HIDE DEF d
<1>5. IsView(w)
  BY <1>4 DEF RvSound, IsView
<1>6. /\ w.rows = rv.rows /\ w.data = d /\ w.fields = rv.fields /\ w.sorts = rv.sorts
      /\ w.drag = rv.drag /\ w.cards = rv.cards
  BY <1>4 DEF RvSound, IsView, RvParts
<1> HIDE DEF w
<1>7. QED
  BY <1>2, <1>3, <1>4, <1>5, <1>6, RowsKeep DEF RvSound

LEMMA FinishTitleKeeps ==
    ASSUME RvInv, FinishTitle
    PROVE  RvInv'
<1>1. Does([rv EXCEPT !.edit = NoRow])
  BY DEF FinishTitle
<1>2. QED
  BY <1>1, SomewhereElse DEF RvParts

(* An id that is free is none of a row.                                    *)
LEMMA FreeIs ==
    ASSUME NEW v, RvSound(v), Free(v) # <<>>
    PROVE  Free(v)[1] \in Range(RvRows) \ Range(v.rows)
<1> DEFINE S == Range(RvRows) \ (Range(v.rows) \cup v.gone)
<1>1. RvRows \in Seq(Range(RvRows))
  BY RvAssumption
<1>2. Free(v) \in Seq(Range(RvRows)) /\ Range(Free(v)) = Range(RvRows) \cap S
  BY <1>1, KeptHas DEF Free
<1>3. 1 \in 1..Len(Free(v))
  BY <1>2, EmptySeq, LenProperties
<1>4. Free(v)[1] \in Range(Free(v))
  BY <1>2, <1>3, LenProperties DEF Range
<1>5. QED
  BY <1>2, <1>4

(* A row is added at the end.                                              *)
LEMMA AddedRow ==
    ASSUME NEW v, RvSound(v), NEW r \in Range(RvRows) \ Range(v.rows)
    PROVE  /\ Append(v.rows, r) \in Seq(Range(RvRows)) /\ IsInjective(Append(v.rows, r))
           /\ Range(Append(v.rows, r)) = Range(v.rows) \cup {r}
           /\ Len(Append(v.rows, r)) = Len(v.rows) + 1
<1>1. v.rows \in Seq(Range(RvRows)) /\ IsInjective(v.rows)
  BY DEF RvSound
<1>2. /\ Append(v.rows, r) \in Seq(Range(RvRows)) /\ Len(Append(v.rows, r)) = Len(v.rows) + 1
      /\ \A i \in 1..Len(v.rows) : Append(v.rows, r)[i] = v.rows[i]
      /\ Append(v.rows, r)[Len(v.rows) + 1] = r
  BY <1>1, AppendProperties
<1>3. Len(v.rows) \in Nat /\ DOMAIN v.rows = 1..Len(v.rows)
  BY <1>1, LenProperties
<1>4. DOMAIN Append(v.rows, r) = 1..(Len(v.rows) + 1)
  BY <1>2, LenProperties
<1>5. IsInjective(Append(v.rows, r))
  BY <1>1, <1>2, <1>3, <1>4 DEF IsInjective, Range
<1>6. Range(Append(v.rows, r)) = Range(v.rows) \cup {r}
  BY <1>2, <1>3, <1>4 DEF Range
<1>7. QED
  BY <1>2, <1>5, <1>6

LEMMA AddRowKeeps ==
    ASSUME RvInv, AddRow
    PROVE  RvInv'
<1> DEFINE r == Free(rv)[1]
           d == [rv.data EXCEPT ![r] = Blank]
           w == [rv EXCEPT !.rows = Append(@, r), !.data = d]
<1>1. Does(w) /\ Free(rv) # <<>>
  BY DEF AddRow
<1>2. RvSound(rv)
  BY DEF RvInv
<1>3. r \in Range(RvRows) \ Range(rv.rows)
  BY <1>1, <1>2, FreeIs
<1>4. IsData(d)
  BY <1>2, BlankIsRow, WrittenData DEF RvSound
<1> HIDE DEF d, r
<1>5. Append(rv.rows, r) \in Seq(Range(RvRows)) /\ IsInjective(Append(rv.rows, r))
  BY <1>2, <1>3, AddedRow
<1>6. IsView(w)
  BY <1>2 DEF RvSound, IsView
<1>7. /\ w.rows = Append(rv.rows, r) /\ w.data = d /\ w.fields = rv.fields /\ w.sorts = rv.sorts
      /\ w.drag = rv.drag /\ w.cards = rv.cards
  BY <1>2 DEF RvSound, IsView, RvParts
<1> HIDE DEF w
<1>8. QED
  BY <1>1, <1>2, <1>4, <1>5, <1>6, <1>7, RowsKeep DEF RvSound

LEMMA DeleteRowKeeps ==
    ASSUME RvInv, DeleteRow
    PROVE  RvInv'
<1>1. PICK r : Does([rv EXCEPT !.rows = Kept(@, Range(@) \ {r}), !.gone = @ \cup {r}])
  BY DEF DeleteRow
<1> DEFINE left == Kept(rv.rows, Range(rv.rows) \ {r})
           w == [rv EXCEPT !.rows = left, !.gone = @ \cup {r}]
<1>2. Does(w)
  BY <1>1
<1>3. RvSound(rv)
  BY DEF RvInv
<1>4. rv.rows \in Seq(Range(RvRows)) /\ IsInjective(rv.rows)
  BY <1>3 DEF RvSound
<1>5. left \in Seq(Range(RvRows)) /\ IsInjective(left)
  BY <1>4, KeptIs
<1> HIDE DEF left
<1>6. IsView(w)
  BY <1>3 DEF RvSound, IsView
<1>7. /\ w.rows = left /\ w.data = rv.data /\ w.fields = rv.fields /\ w.sorts = rv.sorts
      /\ w.drag = rv.drag /\ w.cards = rv.cards
  BY <1>3 DEF RvSound, IsView, RvParts
<1> HIDE DEF w
<1>8. QED
  BY <1>2, <1>3, <1>5, <1>6, <1>7, RowsKeep DEF RvSound

LEMMA OnRowsKeeps ==
    ASSUME RvInv, OnRows
    PROVE  RvInv'
<1>1. ASSUME CollapseGroup PROVE RvInv'
  <2>1. \E x : Does([rv EXCEPT !.collapsed = x])
    BY <1>1 DEF CollapseGroup
  <2>2. QED
    BY <2>1, SomewhereElse DEF RvParts
<1>2. ASSUME LoadMore PROVE RvInv'
  <2>1. Does([rv EXCEPT !.pages = @ + 1])
    BY <1>2 DEF LoadMore
  <2>2. QED
    BY <2>1, SomewhereElse DEF RvParts
<1>3. QED
  BY <1>1, <1>2, CommitTitleKeeps, FinishTitleKeeps, AddRowKeeps, DeleteRowKeeps DEF OnRows


-----------------------------------------------------------------------------
(* Board.                                                                  *)
(* The pages of an added card's column hold N rows.                        *)
LEMMA PagesEnough ==
    ASSUME NEW N \in Nat, NEW P \in Nat \ {0}
    PROVE  (N + P) \div P \in Nat /\ N < P * ((N + P) \div P + 1)
<1> DEFINE n == (N + P) \div P
           m == (N + P) % P
           a == P * n
<1>1. N + P = P * n + m /\ m < P /\ n \in Int /\ m \in Nat
  BY SMT
<1> HIDE DEF n, m
<1>2. a \in Int /\ P * (n + 1) = a + P
  BY <1>1
<1>3. a > 0
  BY <1>1, <1>2
<1>4. n > 0
  <2>1. SUFFICES ASSUME n <= 0 PROVE FALSE
    BY <1>1
  <2>2. -n \in Nat
    BY <1>1, <2>1
  <2>3. P * (-n) \in Nat
    BY <2>2
  <2>4. P * (-n) = -a
    BY <1>1
  <2>5. QED
    BY <1>2, <1>3, <2>3, <2>4
<1>5. N < P * (n + 1)
  BY <1>1, <1>2
<1>6. QED
  BY <1>1, <1>4, <1>5 DEF n

LEMMA PutPages ==
    ASSUME NEW m, \A k \in DOMAIN m : m[k] \in Nat, NEW k, NEW n \in Nat
    PROVE  /\ \A q \in DOMAIN Put(m, k, n) : Put(m, k, n)[q] \in Nat
           /\ k \in DOMAIN Put(m, k, n) /\ Put(m, k, n)[k] = n
  BY DEF Put

\* The board after a card was added.
WithCard(v, r, cells, k) ==
    [v EXCEPT !.rows = Append(v.rows, r), !.data = [v.data EXCEPT ![r] = Merged(Blank, cells)],
              !.edit = r, !.cards = Put(v.cards, k, (Len(v.rows) + RvLimit) \div RvLimit)]

LEMMA WithCardIs ==
    ASSUME NEW v, RvSound(v), NEW r \in Range(RvRows) \ Range(v.rows), NEW cells, Fitting(cells), NEW k
    PROVE  /\ RvSound(WithCard(v, r, cells, k))
           /\ \A q \in RvParts \ {"rows", "data", "edit", "cards"} : WithCard(v, r, cells, k)[q] = v[q]
           /\ WithCard(v, r, cells, k).rows = Append(v.rows, r)
           /\ WithCard(v, r, cells, k).data = [v.data EXCEPT ![r] = Merged(Blank, cells)]
           /\ WithCard(v, r, cells, k).edit = r
           /\ WithCard(v, r, cells, k).cards = Put(v.cards, k, (Len(v.rows) + RvLimit) \div RvLimit)
<1> DEFINE n == (Len(v.rows) + RvLimit) \div RvLimit
           d == [v.data EXCEPT ![r] = Merged(Blank, cells)]
           p == Put(v.cards, k, n)
           s == Append(v.rows, r)
           w == WithCard(v, r, cells, k)
<1>1. n \in Nat
  <2>1. Len(v.rows) \in Nat /\ RvLimit \in Nat \ {0}
    BY LenProperties, RvAssumption DEF RvSound
  <2>2. QED
    BY <2>1, PagesEnough
<1>2. \A q \in DOMAIN p : p[q] \in Nat
  <2>1. \A q \in DOMAIN v.cards : v.cards[q] \in Nat
    BY DEF RvSound
  <2> HIDE DEF n
  <2>2. QED
    BY <1>1, <2>1, PutPages
<1>3. IsData(d)
  <2>1. IsRow(Merged(Blank, cells)) /\ IsData(v.data)
    BY BlankIsRow, MergedFits DEF RvSound
  <2>2. QED
    BY <2>1, WrittenData
<1>4. s \in Seq(Range(RvRows)) /\ IsInjective(s)
  BY AddedRow
<1>5. w = [v EXCEPT !.rows = s, !.data = d, !.edit = r, !.cards = p]
  BY DEF WithCard
<1> HIDE DEF n, d, p, s, w
<1>6. IsView(w)
  BY <1>5 DEF RvSound, IsView
<1>7. \A q \in RvParts \ {"rows", "data", "edit", "cards"} : w[q] = v[q]
  BY <1>5 DEF RvSound, IsView
<1>8. w.rows = s /\ w.data = d /\ w.edit = r /\ w.cards = p
  BY <1>5 DEF RvSound, IsView, RvParts
<1>9. w.fields = v.fields /\ w.sorts = v.sorts /\ w.drag = v.drag
  BY <1>7 DEF RvParts
<1>10. RvSound(w)
  BY <1>2, <1>3, <1>4, <1>6, <1>8, <1>9 DEF RvSound
<1>11. QED
  BY <1>7, <1>8, <1>10 DEF n, d, p, s, w

LEMMA CardAddedIs ==
    ASSUME RvInv, NEW cells, Fitting(cells), NEW k, CardAdded(cells, k)
    PROVE  /\ Free(rv)[1] \in Range(RvRows) \ Range(rv.rows)
           /\ Does(WithCard(rv, Free(rv)[1], cells, k))
<1>1. /\ Free(rv) # <<>>
      /\ Does([rv EXCEPT !.rows = Append(@, Free(rv)[1]), !.data[Free(rv)[1]] = Merged(Blank, cells),
                         !.edit = Free(rv)[1],
                         !.cards = Put(@, k, (Len(rv.rows) + RvLimit) \div RvLimit)])
  BY DEF CardAdded
<1>2. Free(rv)[1] \in Range(RvRows) \ Range(rv.rows)
  BY <1>1, FreeIs DEF RvInv
<1>3. QED
  BY <1>1, <1>2 DEF WithCard

LEMMA CardAddedKeeps ==
    ASSUME RvInv, NEW cells, Fitting(cells), NEW k, CardAdded(cells, k)
    PROVE  RvInv'
<1>1. RvSound(rv)
  BY DEF RvInv
<1>2. /\ Free(rv)[1] \in Range(RvRows) \ Range(rv.rows)
      /\ Does(WithCard(rv, Free(rv)[1], cells, k))
  BY CardAddedIs
<1>3. RvSound(WithCard(rv, Free(rv)[1], cells, k))
  BY <1>1, <1>2, WithCardIs
<1>4. QED
  BY <1>2, <1>3, DoesSound

LEMMA AddCardByKeyKeeps ==
    ASSUME RvInv, BoardField(rv) \in rv.fields, AddCardByKey
    PROVE  RvInv'
<1> DEFINE f == BoardField(rv)
           col == IF RvKind[f] = "checkbox" THEN [key |-> <<"checked", TRUE>>, value |-> TRUE] ELSE None
<1>1. f \in Range(RvFields)
  BY DEF RvInv, RvSound
<1>2. col.value \in CellsOf(f)
  BY DEF CellsOf, None
<1>3. CardAdded(ColumnCell(f, col), PageKey(col, NoLane))
  BY DEF AddCardByKey
<1> HIDE DEF f, col
<1>4. Fitting(ColumnCell(f, col))
  BY <1>1, <1>2, ColumnFits
<1>5. QED
  BY <1>3, <1>4, CardAddedKeeps

LEMMA DragStartKeeps ==
    ASSUME RvInv, NEW col, NEW lane, DragStart(col, lane)
    PROVE  RvInv'
<1>1. PICK r \in Range(ShownIn(rv, col, lane)) : Does([rv EXCEPT !.drag = r])
  BY DEF DragStart
<1> DEFINE w == [rv EXCEPT !.drag = r]
<1>2. Does(w)
  BY <1>1
<1>3. RvSound(rv)
  BY DEF RvInv
<1>4. r \in Range(RvRows)
  BY <1>1, <1>3, ShownAre
<1>5. IsView(w)
  BY <1>3 DEF RvSound, IsView
<1>6. /\ w.rows = rv.rows /\ w.data = rv.data /\ w.fields = rv.fields /\ w.sorts = rv.sorts
      /\ w.drag = r /\ w.cards = rv.cards
  BY <1>3 DEF RvSound, IsView, RvParts
<1> HIDE DEF w
<1>7. QED
  BY <1>2, <1>3, <1>4, <1>5, <1>6, RowsKeep DEF RvSound

\* The board after a card was dropped.
WithDropped(v, cells) == [v EXCEPT !.drag = NoRow, !.data = [v.data EXCEPT ![v.drag] = Merged(v.data[v.drag], cells)]]

LEMMA WithDroppedIs ==
    ASSUME NEW v, RvSound(v), NEW cells, Fitting(cells)
    PROVE  /\ RvSound(WithDropped(v, cells))
           /\ \A q \in RvParts \ {"drag", "data"} : WithDropped(v, cells)[q] = v[q]
           /\ v.drag \in Range(RvRows) =>
                 \A f \in DOMAIN cells : WithDropped(v, cells).data[v.drag][f] = cells[f]
<1> DEFINE c == Merged(v.data[v.drag], cells)
           d == [v.data EXCEPT ![v.drag] = c]
           w == WithDropped(v, cells)
<1>1. IsData(v.data)
  BY DEF RvSound
<1>2. v.drag \in Range(RvRows) => IsRow(c) /\ \A f \in DOMAIN cells : c[f] = cells[f]
  <2>1. v.drag \in Range(RvRows) => IsRow(v.data[v.drag])
    BY <1>1 DEF IsData
  <2>2. QED
    BY <2>1, MergedFits
<1>3. w = [v EXCEPT !.drag = NoRow, !.data = d]
  BY DEF WithDropped
<1> HIDE DEF c
<1>4. IsData(d) /\ (v.drag \in Range(RvRows) => d[v.drag] = c)
  BY <1>1, <1>2, WrittenData
<1> HIDE DEF d, w
<1>5. IsView(w)
  BY <1>3 DEF RvSound, IsView
<1>6. \A q \in RvParts \ {"drag", "data"} : w[q] = v[q]
  BY <1>3 DEF RvSound, IsView
<1>7. w.drag = NoRow /\ w.data = d
  BY <1>3 DEF RvSound, IsView, RvParts
<1>8. w.rows = v.rows /\ w.fields = v.fields /\ w.sorts = v.sorts /\ w.cards = v.cards
  BY <1>6 DEF RvParts
<1>9. RvSound(w)
  BY <1>4, <1>5, <1>7, <1>8 DEF RvSound
<1>10. QED
  BY <1>2, <1>4, <1>6, <1>7, <1>9 DEF w

LEMMA DropOnKeeps ==
    ASSUME RvInv, BoardField(rv) \in rv.fields,
           NEW col \in ColumnsFor(rv, BoardField(rv)), NEW lane \in Lanes(rv), DropOn(col, lane)
    PROVE  RvInv'
<1>1. RvSound(rv)
  BY DEF RvInv
<1>2. Fitting(Placement(rv, col, lane))
  BY <1>1, PlacementFits
<1>3. Does(WithDropped(rv, Placement(rv, col, lane)))
  BY DEF DropOn, WithDropped
<1>4. RvSound(WithDropped(rv, Placement(rv, col, lane)))
  BY <1>1, <1>2, WithDroppedIs
<1>5. QED
  BY <1>3, <1>4, DoesSound

LEMMA LoadMoreCardsKeeps ==
    ASSUME RvInv, NEW col, NEW lane, LoadMoreCards(col, lane)
    PROVE  RvInv'
<1> DEFINE n == PagesOf(rv, PageKey(col, lane)) + 1
           p == Put(rv.cards, PageKey(col, lane), n)
           w == [rv EXCEPT !.cards = p]
<1>1. Does(w)
  BY DEF LoadMoreCards
<1>2. RvSound(rv)
  BY DEF RvInv
<1>3. n \in Nat
  BY <1>2 DEF PagesOf, RvSound
<1> HIDE DEF n
<1>4. \A k \in DOMAIN p : p[k] \in Nat
  <2>1. \A q \in DOMAIN rv.cards : rv.cards[q] \in Nat
    BY <1>2 DEF RvSound
  <2>2. QED
    BY <1>3, <2>1, PutPages
<1> HIDE DEF p
<1>5. IsView(w)
  BY <1>2 DEF RvSound, IsView
<1>6. /\ w.rows = rv.rows /\ w.data = rv.data /\ w.fields = rv.fields /\ w.sorts = rv.sorts
      /\ w.drag = rv.drag /\ w.cards = p
  BY <1>2 DEF RvSound, IsView, RvParts
<1> HIDE DEF w
<1>7. QED
  BY <1>1, <1>2, <1>4, <1>5, <1>6, RowsKeep DEF RvSound

LEMMA CommitCardKeeps ==
    ASSUME RvInv, NEW col, NEW lane, CommitCard(col, lane)
    PROVE  RvInv'
<1>1. PICK r \in Range(ShownIn(rv, col, lane)), t \in RvTexts \cup {Null} :
         Titles(rv) # <<>> /\ Does([rv EXCEPT !.data[r][Titles(rv)[1]] = t, !.edit = NoRow])
  BY DEF CommitCard
<1> DEFINE f == Titles(rv)[1]
           d == [rv.data EXCEPT ![r][f] = t]
           w == [rv EXCEPT !.data = d, !.edit = NoRow]
<1>2. Does(w)
  BY <1>1
<1>3. IsData(d)
  BY <1>1, TitleKeeps
<1>4. RvSound(rv)
  BY DEF RvInv
<1> HIDE DEF d
<1>5. IsView(w)
  BY <1>4 DEF RvSound, IsView
<1>6. /\ w.rows = rv.rows /\ w.data = d /\ w.fields = rv.fields /\ w.sorts = rv.sorts
      /\ w.drag = rv.drag /\ w.cards = rv.cards
  BY <1>4 DEF RvSound, IsView, RvParts
<1> HIDE DEF w
<1>7. QED
  BY <1>2, <1>3, <1>4, <1>5, <1>6, RowsKeep DEF RvSound

LEMMA BoardKeeps ==
    ASSUME RvInv, Board
    PROVE  RvInv'
<1>1. BoardField(rv) \in rv.fields
  BY DEF Board
<1>2. CASE AddCardByKey
  BY <1>1, <1>2, AddCardByKeyKeeps
<1>3. CASE \E col \in ColumnsFor(rv, BoardField(rv)), lane \in Lanes(rv) :
             \/ AddCard(col, lane) \/ DragStart(col, lane) \/ DropOn(col, lane)
             \/ LoadMoreCards(col, lane) \/ CommitCard(col, lane)
  <2>1. PICK col \in ColumnsFor(rv, BoardField(rv)), lane \in Lanes(rv) :
             \/ AddCard(col, lane) \/ DragStart(col, lane) \/ DropOn(col, lane)
             \/ LoadMoreCards(col, lane) \/ CommitCard(col, lane)
    BY <1>3
  <2>2. CASE AddCard(col, lane)
    <3>1. Fitting(Placement(rv, col, lane))
      BY <1>1, PlacementFits DEF RvInv
    <3>2. CardAdded(Placement(rv, col, lane), PageKey(col, lane))
      BY <2>2 DEF AddCard
    <3>3. QED
      BY <3>1, <3>2, CardAddedKeeps
  <2>3. QED
    BY <1>1, <2>1, <2>2, DragStartKeeps, DropOnKeeps, LoadMoreCardsKeeps, CommitCardKeeps
<1>4. QED
  BY <1>2, <1>3 DEF Board

LEMMA RvNextInv ==
    ASSUME RvInv, RvNext
    PROVE  RvInv'
  BY ToolbarKeeps, ColumnMenuKeeps, SearchBarKeeps, OnRowsKeeps, BoardKeeps DEF RvNext, List, Gallery


LEMMA RvInitInv ==
    ASSUME RvInit
    PROVE  RvInv
<1>1. PICK cells \in RvTables, saved \in RvSaved :
        rv = Merged(
             [rows |-> SubSeq(RvRows, 1, Len(cells)), gone |-> {}, ops |-> RvOps,
              data |-> [r \in Range(RvRows) |-> IF IndexIn(RvRows, r) > Len(cells) THEN Blank
                                                ELSE cells[IndexIn(RvRows, r)]],
              fields |-> Range(RvFields), filter |-> EmptyGroup, sorts |-> <<>>,
              group |-> NoField, hideEmpty |-> FALSE, collapsed |-> {}, pages |-> 0,
              query |-> <<>>, only |-> FALSE, scope |-> NoField,
              board |-> NoField, sub |-> NoField, cards |-> <<>>, drag |-> NoRow, edit |-> NoRow], saved)
  BY DEF RvInit
<1> DEFINE data == [r \in Range(RvRows) |-> IF IndexIn(RvRows, r) > Len(cells) THEN Blank
                                            ELSE cells[IndexIn(RvRows, r)]]
           rows == SubSeq(RvRows, 1, Len(cells))
<1>2. "kind" \in DOMAIN saved /\ DOMAIN saved \subseteq {"kind", "board", "sub"}
  BY RvAssumption
<1>3. /\ cells \in Seq(Range(cells)) /\ Len(cells) <= Len(RvRows)
      /\ \A row \in Range(cells) : IsRow(row)
  BY RvAssumption DEF IsRow
<1>4. IsData(data)
  <2>1. ASSUME NEW r \in Range(RvRows) PROVE IsRow(data[r])
    <3> DEFINE i == IndexIn(RvRows, r)
    <3>1. i \in DOMAIN RvRows
      BY DEF IndexIn, Range
    <3>2. i \in 1..Len(RvRows)
      BY <3>1, RvAssumption, LenProperties
    <3>3. data[r] = IF i > Len(cells) THEN Blank ELSE cells[i]
      OBVIOUS
    <3> HIDE DEF i, data
    <3>4. CASE i > Len(cells)
      BY <3>3, <3>4, BlankIsRow
    <3>5. CASE ~(i > Len(cells))
      <4>1. i \in 1..Len(cells)
        BY <1>3, <3>2, <3>5, LenProperties
      <4>2. cells[i] \in Range(cells)
        BY <1>3, <4>1, LenProperties DEF Range
      <4>3. QED
        BY <1>3, <3>3, <3>5, <4>2
    <3>6. QED
      BY <3>4, <3>5
  <2>2. data = [r \in Range(RvRows) |-> data[r]]
    OBVIOUS
  <2> HIDE DEF data
  <2>3. QED
    BY <2>1, <2>2 DEF IsData
<1>5. rows \in Seq(Range(RvRows)) /\ IsInjective(rows)
  <2>1. RvRows \in Seq(Range(RvRows)) /\ IsInjective(RvRows) /\ Len(cells) \in Nat
    BY <1>3, RvAssumption, LenProperties
  <2>2. DOMAIN rows = 1..Len(cells) /\ \A i \in 1..Len(cells) : rows[i] = RvRows[i]
    BY <1>3, <2>1, SubSeqProperties
  <2>3. \A i \in 1..Len(cells) : i \in DOMAIN RvRows
    BY <1>3, <2>1, LenProperties
  <2>4. rows \in Seq(Range(RvRows))
    BY <1>3, <2>1, SubSeqProperties
  <2>5. IsInjective(rows)
    BY <2>1, <2>2, <2>3 DEF IsInjective
  <2>6. QED
    BY <2>4, <2>5
<1> HIDE DEF data, rows
<1> DEFINE base == [rows |-> rows, gone |-> {}, ops |-> RvOps, data |-> data,
              fields |-> Range(RvFields), filter |-> EmptyGroup, sorts |-> <<>>,
              group |-> NoField, hideEmpty |-> FALSE, collapsed |-> {}, pages |-> 0,
              query |-> <<>>, only |-> FALSE, scope |-> NoField,
              board |-> NoField, sub |-> NoField, cards |-> <<>>, drag |-> NoRow, edit |-> NoRow]
<1>6. rv = Merged(base, saved)
  BY <1>1 DEF data, rows
<1>7. DOMAIN base = RvParts \ {"kind"}
  BY DEF RvParts
<1>8. /\ base.rows = rows /\ base.data = data /\ base.fields = Range(RvFields) /\ base.sorts = <<>>
      /\ base.drag = NoRow /\ base.cards = <<>>
  OBVIOUS
<1> HIDE DEF base
<1>9. rv = [q \in RvParts |-> IF q \in DOMAIN saved THEN saved[q] ELSE base[q]]
  <2>1. DOMAIN base \cup DOMAIN saved = RvParts
    BY <1>2, <1>7 DEF RvParts
  <2>2. QED
    BY <1>6, <2>1 DEF Merged
<1>10. IsView(rv)
  BY <1>9 DEF IsView
<1>11. /\ rv.rows = rows /\ rv.data = data /\ rv.fields = Range(RvFields) /\ rv.sorts = <<>>
       /\ rv.drag = NoRow /\ rv.cards = <<>>
  BY <1>2, <1>8, <1>9 DEF RvParts
<1>12. <<>> \in Seq(SortRules) /\ DOMAIN <<>> = {}
  BY EmptySeq
<1>13. QED
  BY <1>4, <1>5, <1>10, <1>11, <1>12 DEF RvInv, RvSound

-----------------------------------------------------------------------------
(* A card that was dropped or added.                                       *)

\* What a view shows of it apart from the rows' cells is as before.
LEMMA SameBoard ==
    ASSUME NEW v, NEW w, w.fields = v.fields, w.board = v.board, w.sub = v.sub
    PROVE  BoardField(w) = BoardField(v) /\ SubField(w) = SubField(v)
<1>1. Live(w) = Live(v)
  BY DEF Live
<1>2. QED
  BY <1>1 DEF BoardField, SubField

\* A cell that holds a column's value is in the column.
LEMMA InItsColumn ==
    ASSUME NEW v, RvSound(v), NEW f \in Range(RvFields), NEW col, NEW r, v.data[r][f] = col.value
    PROVE  InColumn(v, f, r, col)
  BY DEF InColumn, IsEmpty

LEMMA ItsCard ==
    ASSUME NEW v, RvSound(v), NEW col, NEW lane, NEW r \in Range(Visible(v)),
           BoardField(v) \in Range(RvFields), v.data[r][BoardField(v)] = col.value,
           SubField(v) # NoField => v.data[r][SubField(v)] = lane.value
    PROVE  r \in Range(CardsIn(v, col, lane))
<1>1. InColumn(v, BoardField(v), r, col)
  BY InItsColumn
<1>2. SubField(v) # NoField => InColumn(v, SubField(v), r, lane)
  <2>1. SubField(v) # NoField => SubField(v) \in Range(RvFields)
    BY DEF SubField, RvSound
  <2>2. QED
    BY <2>1, InItsColumn
<1>3. QED
  BY <1>1, <1>2, CardsAre

\* The operations left are nothing to it.
LEMMA DoesIs ==
    ASSUME NEW w, IsView(w), Does(w)
    PROVE  \A q \in RvParts \ {"ops"} : rv'[q] = w[q]
  BY DEF Does, IsView

LEMMA DroppedLands ==
    ASSUME RvInv, OnBoard, rv.drag # NoRow, Writable(rv),
           NEW col \in ColumnsFor(rv, BoardField(rv)), NEW lane \in Lanes(rv), DropOn(col, lane),
           rv.drag \in Range(Visible(rv'))
    PROVE  rv.drag \in Range(CardsIn(rv', col, lane))
<1> DEFINE cells == Placement(rv, col, lane)
           w == WithDropped(rv, cells)
<1>1. RvSound(rv) /\ BoardField(rv) \in rv.fields
  BY DEF RvInv, OnBoard
<1>2. /\ Fitting(cells)
      /\ BoardField(rv) \in DOMAIN cells /\ cells[BoardField(rv)] = col.value
      /\ SubField(rv) # NoField => SubField(rv) \in DOMAIN cells /\ cells[SubField(rv)] = lane.value
  BY <1>1, PlacementFits DEF Writable
<1>3. Does(w)
  BY DEF DropOn, WithDropped
<1>4. rv.drag \in Range(RvRows)
  BY <1>1 DEF RvSound
<1> HIDE DEF cells
<1>5. /\ RvSound(w) /\ \A q \in RvParts \ {"drag", "data"} : w[q] = rv[q]
      /\ \A f \in DOMAIN cells : w.data[rv.drag][f] = cells[f]
  BY <1>1, <1>2, <1>4, WithDroppedIs
<1> HIDE DEF w
<1>6. RvSound(rv')
  BY <1>3, <1>5, DoesSound DEF RvInv
<1>7. \A q \in RvParts \ {"ops"} : rv'[q] = w[q]
  BY <1>3, <1>5, DoesIs DEF RvSound
<1>8. rv'.fields = rv.fields /\ rv'.board = rv.board /\ rv'.sub = rv.sub /\ rv'.data = w.data
  BY <1>5, <1>7 DEF RvParts
<1>9. BoardField(rv') = BoardField(rv) /\ SubField(rv') = SubField(rv)
  BY <1>8, SameBoard
<1>10. /\ rv'.data[rv.drag][BoardField(rv')] = col.value
       /\ SubField(rv') # NoField => rv'.data[rv.drag][SubField(rv')] = lane.value
  BY <1>2, <1>5, <1>8, <1>9
<1>11. BoardField(rv') \in Range(RvFields)
  BY <1>1, <1>9 DEF RvSound
<1>12. QED
  BY <1>6, <1>10, <1>11, ItsCard

LEMMA NewCardShown ==
    ASSUME RvInv, OnBoard, Writable(rv), rv'.rows # rv.rows,
           NEW col \in ColumnsFor(rv, BoardField(rv)), NEW lane \in Lanes(rv), AddCard(col, lane),
           NEW r \in Range(rv.rows') \ Range(rv.rows), r \in Range(Visible(rv'))
    PROVE  r \in Range(ShownIn(rv', col, lane)) /\ rv'.edit = r
<1> DEFINE cells == Placement(rv, col, lane)
           k == PageKey(col, lane)
           x == Free(rv)[1]
           w == WithCard(rv, x, cells, k)
<1>1. RvSound(rv) /\ BoardField(rv) \in rv.fields
  BY DEF RvInv, OnBoard
<1>2. /\ Fitting(cells)
      /\ BoardField(rv) \in DOMAIN cells /\ cells[BoardField(rv)] = col.value
      /\ SubField(rv) # NoField => SubField(rv) \in DOMAIN cells /\ cells[SubField(rv)] = lane.value
  BY <1>1, PlacementFits DEF Writable
<1>3. CardAdded(cells, k)
  BY DEF AddCard
<1> HIDE DEF cells, k
<1>4. x \in Range(RvRows) \ Range(rv.rows) /\ Does(w)
  BY <1>2, <1>3, CardAddedIs
<1> HIDE DEF x
<1>5. /\ RvSound(w) /\ \A q \in RvParts \ {"rows", "data", "edit", "cards"} : w[q] = rv[q]
      /\ w.rows = Append(rv.rows, x) /\ w.data = [rv.data EXCEPT ![x] = Merged(Blank, cells)] /\ w.edit = x
      /\ w.cards = Put(rv.cards, k, (Len(rv.rows) + RvLimit) \div RvLimit)
  BY <1>1, <1>2, <1>4, WithCardIs
<1> HIDE DEF w
<1>6. RvSound(rv')
  BY <1>4, <1>5, DoesSound DEF RvInv
<1>7. \A q \in RvParts \ {"ops"} : rv'[q] = w[q]
  BY <1>4, <1>5, DoesIs DEF RvSound
<1>8. /\ rv'.fields = rv.fields /\ rv'.board = rv.board /\ rv'.sub = rv.sub /\ rv'.data = w.data
      /\ rv'.rows = w.rows /\ rv'.edit = w.edit /\ rv'.cards = w.cards
  BY <1>5, <1>7 DEF RvParts
<1>9. BoardField(rv') = BoardField(rv) /\ SubField(rv') = SubField(rv)
  BY <1>8, SameBoard
<1>10. r = x
  <2>1. Range(Append(rv.rows, x)) = Range(rv.rows) \cup {x}
    BY <1>1, <1>4, AddedRow
  <2>2. r \in Range(rv'.rows) \ Range(rv.rows)
    OBVIOUS
  <2>3. QED
    BY <1>5, <1>8, <2>1, <2>2
<1>11. \A f \in DOMAIN cells : rv'.data[r][f] = cells[f]
  <2>1. IsRow(Merged(Blank, cells)) /\ \A f \in DOMAIN cells : Merged(Blank, cells)[f] = cells[f]
    BY <1>2, BlankIsRow, MergedFits
  <2>2. IsData(rv.data) /\ x \in Range(RvRows)
    BY <1>1, <1>4 DEF RvSound
  <2> DEFINE c == Merged(Blank, cells)
  <2> HIDE DEF c
  <2>3. [rv.data EXCEPT ![x] = c][x] = c
    BY <2>2 DEF IsData
  <2>4. w.data[x] = c
    BY <1>5, <2>3 DEF c
  <2>5. QED
    BY <1>8, <1>10, <2>1, <2>4 DEF c
<1>12. /\ rv'.data[r][BoardField(rv')] = col.value
       /\ SubField(rv') # NoField => rv'.data[r][SubField(rv')] = lane.value
  BY <1>2, <1>9, <1>11
<1>13. BoardField(rv') \in Range(RvFields)
  BY <1>1, <1>9 DEF RvSound
<1> DEFINE cards == CardsIn(rv', col, lane)
           n == (Len(rv.rows) + RvLimit) \div RvLimit
<1>14. r \in Range(cards)
  BY <1>6, <1>12, <1>13, ItsCard
<1>15. PagesOf(rv', k) = n
  BY <1>5, <1>8 DEF PagesOf, Put
<1>16. cards \in Seq(Range(RvRows)) /\ Len(cards) <= Len(rv.rows) + 1
  <2>1. cards \in Seq(Range(RvRows)) /\ Len(cards) <= Len(Visible(rv'))
    BY <1>6, CardsAre
  <2>2. Visible(rv') \in Seq(Range(RvRows)) /\ Len(Visible(rv')) <= Len(rv'.rows)
    BY <1>6, VisibleIs
  <2>3. Len(rv'.rows) = Len(rv.rows) + 1
    BY <1>1, <1>4, <1>5, <1>8, AddedRow
  <2>4. rv.rows \in Seq(Range(RvRows))
    BY <1>1 DEF RvSound
  <2> HIDE DEF cards
  <2>5. QED
    BY <2>1, <2>2, <2>3, <2>4, LenProperties
<1>17. ShownIn(rv', col, lane) = SubSeq(cards, 1, Min({Len(cards), RvLimit * (n + 1)}))
  BY <1>15 DEF ShownIn, k
<1>18. Len(rv.rows) < RvLimit * (n + 1) /\ n \in Nat /\ Len(rv.rows) \in Nat
  <2>1. Len(rv.rows) \in Nat /\ RvLimit \in Nat \ {0}
    BY <1>1, RvAssumption, LenProperties DEF RvSound
  <2>2. QED
    BY <2>1, PagesEnough
<1> HIDE DEF cards, n
<1>19. Min({Len(cards), RvLimit * (n + 1)}) = Len(cards)
  <2>1. RvLimit * (n + 1) \in Int /\ Len(cards) \in Nat
    BY <1>16, <1>18, RvAssumption, LenProperties
  <2> DEFINE m == RvLimit * (n + 1)
  <2>2. m \in Int /\ Len(cards) <= m
    BY <1>16, <1>18, <2>1
  <2> HIDE DEF m
  <2>3. Min({Len(cards), m}) = Len(cards)
    BY <2>1, <2>2, MinOfTwo
  <2>4. QED
    BY <2>3 DEF m
<1>20. SubSeq(cards, 1, Len(cards)) = cards
  BY <1>16, SubSeqFull
<1>21. QED
  BY <1>5, <1>8, <1>10, <1>14, <1>17, <1>19, <1>20

-----------------------------------------------------------------------------
(* Cells as texts.                                                         *)

(* The labels of a list of choices, up to one of its places.               *)
JoinedOf(ids, n, F) ==
    F = [i \in 0..n |-> IF i = 0 THEN <<>>
                        ELSE F[i - 1] \o (IF i = 1 THEN <<>> ELSE <<0>>) \o RvLabel[ids[i]]]

LEMMA JoinedStep ==
    ASSUME NEW ids, NEW m \in Nat, m > 0, NEW F, JoinedOf(ids, m - 1, F)
    PROVE  \E G : JoinedOf(ids, m, G)
<1> DEFINE last == F[m - 1] \o (IF m = 1 THEN <<>> ELSE <<0>>) \o RvLabel[ids[m]]
           G == [i \in 0..m |-> IF i = m THEN last ELSE F[i]]
<1>1. \A i \in 0..(m - 1) : G[i] = F[i]
  OBVIOUS
<1>2. G[m] = last
  <2> HIDE DEF last
  <2>1. m \in 0..m
    OBVIOUS
  <2>2. QED
    BY <2>1
<1>3. \A i \in 0..(m - 1) :
        F[i] = IF i = 0 THEN <<>> ELSE F[i - 1] \o (IF i = 1 THEN <<>> ELSE <<0>>) \o RvLabel[ids[i]]
  <2>1. \A i \in DOMAIN F :
          F[i] = IF i = 0 THEN <<>> ELSE F[i - 1] \o (IF i = 1 THEN <<>> ELSE <<0>>) \o RvLabel[ids[i]]
    BY ZenonT(40) DEF JoinedOf
  <2>2. DOMAIN F = 0..(m - 1)
    BY ZenonT(40) DEF JoinedOf
  <2>3. QED
    BY <2>1, <2>2
<1>4. ASSUME NEW i \in 0..m
      PROVE  G[i] = IF i = 0 THEN <<>> ELSE G[i - 1] \o (IF i = 1 THEN <<>> ELSE <<0>>) \o RvLabel[ids[i]]
  <2> HIDE DEF G
  <2>1. CASE i = m
    <3>1. m - 1 \in 0..(m - 1) /\ i # 0
      BY <2>1
    <3>2. G[m - 1] = F[m - 1]
      BY <1>1, <3>1
    <3>3. QED
      BY <1>2, <2>1, <3>1, <3>2
  <2>2. CASE i # m
    <3>1. i \in 0..(m - 1) /\ (i # 0 => i - 1 \in 0..(m - 1))
      BY <2>2
    <3>2. G[i] = F[i] /\ (i # 0 => G[i - 1] = F[i - 1])
      BY <1>1, <3>1
    <3>3. QED
      BY <1>3, <3>1, <3>2
  <2>3. QED
    BY <2>1, <2>2
<1>5. DOMAIN G = 0..m /\ G = [i \in 0..m |-> G[i]]
  OBVIOUS
<1> HIDE DEF G
<1>6. JoinedOf(ids, m, G)
  BY <1>4, <1>5 DEF JoinedOf
<1>7. QED
  BY <1>6

LEMMA JoinedExists ==
    ASSUME NEW ids, NEW n \in Nat
    PROVE  \E F : JoinedOf(ids, n, F)
<1> DEFINE B == {k \in Nat : ~\E F : JoinedOf(ids, k, F)}
<1>1. SUFFICES ASSUME B # {} PROVE FALSE
  OBVIOUS
<1>2. PICK m \in B : \A k \in B : m <= k
  <2>1. B \in SUBSET Nat
    OBVIOUS
  <2> HIDE DEF B
  <2>2. QED
    BY <1>1, <2>1, HasLeast
<1>3. CASE m = 0
  <2> DEFINE F == [i \in 0..0 |-> <<>>]
  <2>1. F = [i \in 0..0 |-> IF i = 0 THEN <<>>
                            ELSE F[i - 1] \o (IF i = 1 THEN <<>> ELSE <<0>>) \o RvLabel[ids[i]]]
    <3>1. \A i \in 0..0 : i = 0
      OBVIOUS
    <3>2. QED
      BY <3>1
  <2> HIDE DEF F
  <2>2. JoinedOf(ids, 0, F)
    BY <2>1 DEF JoinedOf
  <2>3. QED
    BY <1>3, <2>2
<1>4. CASE m > 0
  <2>1. m - 1 \in Nat /\ ~(m <= m - 1)
    BY <1>4
  <2>2. m - 1 \notin B
    BY <1>2, <2>1
  <2>3. PICK F : JoinedOf(ids, m - 1, F)
    BY <2>1, <2>2
  <2>4. \E G : JoinedOf(ids, m, G)
    BY <1>4, <2>3, JoinedStep
  <2>5. QED
    BY <2>4
<1>5. m = 0 \/ m > 0
  BY <1>2
<1>6. QED
  BY <1>3, <1>4, <1>5

(* Which is a text.                                                        *)
LEMMA JoinedIs ==
    ASSUME NEW ids \in Seq(DOMAIN RvLabel)
    PROVE  Joined(ids) \in Seq(Int)
<1> DEFINE n == Len(ids)
           F == CHOOSE G : JoinedOf(ids, n, G)
<1>1. n \in Nat
  BY LenProperties
<1>2. JoinedOf(ids, n, F)
  BY <1>1, JoinedExists
<1>3. Joined(ids) = F[n]
  BY DEF Joined, JoinedOf
<1> HIDE DEF F
<1>4. \A i \in 0..n :
        F[i] = IF i = 0 THEN <<>> ELSE F[i - 1] \o (IF i = 1 THEN <<>> ELSE <<0>>) \o RvLabel[ids[i]]
  BY <1>2 DEF JoinedOf
<1> DEFINE B == {k \in 0..n : F[k] \notin Seq(Int)}
<1>5. SUFFICES ASSUME B # {} PROVE FALSE
  <2>1. n \in 0..n
    BY <1>1
  <2>2. QED
    BY <1>3, <2>1
<1>6. PICK m \in B : \A k \in B : m <= k
  <2>1. B \in SUBSET Nat
    OBVIOUS
  <2> HIDE DEF B
  <2>2. QED
    BY <1>5, <2>1, HasLeast
<1>7. m # 0
  <2>1. m = 0 => F[m] = <<>>
    BY <1>4, <1>6
  <2>2. <<>> \in Seq(Int)
    BY EmptySeq
  <2>3. QED
    BY <1>6, <2>1, <2>2
<1>8. m \in 1..n /\ m - 1 \in 0..n /\ ~(m <= m - 1)
  BY <1>1, <1>6, <1>7
<1>9. F[m - 1] \in Seq(Int)
  BY <1>6, <1>8
<1>10. RvLabel[ids[m]] \in Seq(Int)
  <2>1. ids[m] \in DOMAIN RvLabel
    BY <1>8, ElementOfSeq
  <2>2. RvLabel[ids[m]] \in Seq(Nat)
    BY <2>1, RvAssumption
  <2>3. QED
    BY <2>2
<1>11. (IF m = 1 THEN <<>> ELSE <<0>>) \in Seq(Int)
  BY EmptySeq
<1>12. F[m] = F[m - 1] \o (IF m = 1 THEN <<>> ELSE <<0>>) \o RvLabel[ids[m]]
  BY <1>4, <1>7, <1>8
<1> DEFINE gap == IF m = 1 THEN <<>> ELSE <<0>>
<1> HIDE DEF gap
<1>13. F[m - 1] \o gap \in Seq(Int)
  BY <1>9, <1>11, ConcatProperties DEF gap
<1>14. F[m - 1] \o gap \o RvLabel[ids[m]] \in Seq(Int)
  BY <1>10, <1>13, ConcatProperties
<1>15. QED
  BY <1>6, <1>12, <1>14 DEF gap

LEMMA TextIs ==
    ASSUME NEW f \in Range(RvFields), NEW x \in CellsOf(f)
    PROVE  ToText(f, x) \in Seq(Int)
<1>1. <<>> \in Seq(Int) /\ <<99>> \in Seq(Int)
  BY EmptySeq
<1>2. ASSUME NEW s \in Seq(Nat) PROVE s \in Seq(Int)
  OBVIOUS
<1>3. ASSUME NEW k \in Int PROVE <<k>> \in Seq(Int)
  OBVIOUS
<1>4. CASE x = Null
  BY <1>1, <1>4 DEF ToText
<1>5. CASE x # Null
  <2>1. RvKind[f] \in {"text", "select", "number", "checkbox", "tags"}
    BY RvAssumption DEF Range
  <2>2. CASE RvKind[f] = "text"
    <3>1. x \in Seq(Nat) /\ ToText(f, x) = x
      BY <1>5, <2>2 DEF CellsOf, ToText
    <3>2. QED
      BY <1>2, <3>1
  <2>3. CASE RvKind[f] = "number"
    <3>1. x \in Int /\ ToText(f, x) = <<x>>
      BY <1>5, <2>3 DEF CellsOf, ToText
    <3>2. QED
      BY <1>3, <3>1
  <2>4. CASE RvKind[f] = "checkbox"
    <3>1. ToText(f, x) = IF x THEN <<99>> ELSE <<>>
      BY <1>5, <2>4 DEF ToText
    <3>2. QED
      BY <1>1, <3>1
  <2>5. CASE RvKind[f] = "select"
    <3>1. x \in Nat /\ ToText(f, x) = IF x \in DOMAIN RvLabel THEN RvLabel[x] ELSE <<x>>
      BY <1>5, <2>5 DEF CellsOf, ToText, ChoiceIds
    <3>2. x \in DOMAIN RvLabel => RvLabel[x] \in Seq(Nat)
      BY RvAssumption
    <3>3. QED
      BY <1>2, <1>3, <3>1, <3>2
  <2>6. CASE RvKind[f] = "tags"
    <3>1. x \in Seq(DOMAIN RvLabel) /\ ToText(f, x) = Joined(x)
      BY <1>5, <2>6 DEF CellsOf, ToText
    <3>2. QED
      BY <3>1, JoinedIs
  <2>7. QED
    BY <2>1, <2>2, <2>3, <2>4, <2>5, <2>6
<1>6. QED
  BY <1>4, <1>5


-----------------------------------------------------------------------------
(* Orders: texts alphabetically, cells, rows by several sorts.             *)
LEMMA BeforeOneWay ==
    ASSUME NEW s \in Seq(Int), NEW t \in Seq(Int), Before(s, t)
    PROVE  ~Before(t, s)
<1>1. Len(s) \in Nat /\ Len(t) \in Nat
  BY LenProperties
<1>2. PICK i \in 1..Len(t) : /\ \A j \in 1..(i - 1) : j <= Len(s) /\ s[j] = t[j]
                             /\ i > Len(s) \/ s[i] < t[i]
  BY DEF Before
<1>3. SUFFICES ASSUME NEW k \in 1..Len(s), \A j \in 1..(k - 1) : j <= Len(t) /\ t[j] = s[j],
                      k > Len(t) \/ t[k] < s[k]
               PROVE  FALSE
  BY DEF Before
<1>4. (\A j \in 1..Len(s) : s[j] \in Int) /\ (\A j \in 1..Len(t) : t[j] \in Int)
  BY ElementOfSeq
<1>5. CASE i < k
  <2>1. i \in 1..(k - 1) /\ i \in 1..Len(s)
    BY <1>1, <1>5
  <2>2. t[i] = s[i] /\ s[i] \in Int /\ ~(i > Len(s))
    BY <1>1, <1>3, <1>4, <2>1
  <2>3. QED
    BY <1>2, <2>2
<1>6. CASE k < i
  <2>1. k \in 1..(i - 1) /\ k \in 1..Len(t)
    BY <1>1, <1>6
  <2>2. t[k] = s[k] /\ t[k] \in Int /\ ~(k > Len(t))
    BY <1>1, <1>2, <1>4, <2>1
  <2>3. QED
    BY <1>3, <2>2
<1>7. CASE i = k
  <2>1. i \in 1..Len(s) /\ i \in 1..Len(t) /\ s[i] \in Int /\ t[i] \in Int
    BY <1>4, <1>7
  <2>2. s[i] < t[i] /\ t[i] < s[i]
    BY <1>1, <1>2, <1>3, <1>7, <2>1
  <2>3. QED
    BY <2>1, <2>2
<1>8. QED
  BY <1>1, <1>5, <1>6, <1>7

LEMMA BeforeThird ==
    ASSUME NEW s \in Seq(Int), NEW t \in Seq(Int), NEW u \in Seq(Int), Before(s, t)
    PROVE  Before(s, u) \/ Before(u, t)
<1>1. Len(s) \in Nat /\ Len(t) \in Nat /\ Len(u) \in Nat
  BY LenProperties
<1>2. PICK i \in 1..Len(t) : /\ \A j \in 1..(i - 1) : j <= Len(s) /\ s[j] = t[j]
                             /\ i > Len(s) \/ s[i] < t[i]
  BY DEF Before
<1>3. /\ \A j \in 1..Len(s) : s[j] \in Int
      /\ \A j \in 1..Len(t) : t[j] \in Int
      /\ \A j \in 1..Len(u) : u[j] \in Int
  BY ElementOfSeq
<1> DEFINE D == {j \in 1..(i - 1) : ~(j <= Len(u) /\ u[j] = t[j])}
<1>4. CASE D = {}
  <2>1. \A j \in 1..(i - 1) : j <= Len(u) /\ u[j] = t[j]
    BY <1>4
  <2>2. CASE i > Len(u)
    <3>1. Before(u, t)
      BY <2>1, <2>2 DEF Before
    <3>2. QED
      BY <3>1
  <2>3. CASE ~(i > Len(u))
    <3>1. i \in 1..Len(u) /\ u[i] \in Int /\ t[i] \in Int
      BY <1>1, <1>3, <2>3
    <3>2. CASE u[i] < t[i]
      <4>1. Before(u, t)
        BY <2>1, <3>2 DEF Before
      <4>2. QED
        BY <4>1
    <3>3. CASE ~(u[i] < t[i])
      <4>1. \A j \in 1..(i - 1) : j <= Len(s) /\ s[j] = u[j]
        BY <1>2, <2>1
      <4>2. i > Len(s) \/ s[i] < u[i]
        <5>1. SUFFICES ASSUME ~(i > Len(s)) PROVE s[i] < u[i]
          OBVIOUS
        <5>2. s[i] \in Int /\ s[i] < t[i]
          BY <1>1, <1>2, <1>3, <5>1
        <5>3. QED
          BY <3>1, <3>3, <5>2
      <4>3. Before(s, u)
        BY <3>1, <4>1, <4>2 DEF Before
      <4>4. QED
        BY <4>3
    <3>4. QED
      BY <3>2, <3>3
  <2>4. QED
    BY <2>2, <2>3
<1>5. CASE D # {}
  <2>1. PICK m \in D : \A j \in D : m <= j
    <3>1. D \in SUBSET Nat
      BY <1>1
    <3> HIDE DEF D
    <3>2. QED
      BY <1>5, <3>1, HasLeast
  <2>2. m \in 1..(i - 1) /\ m \in 1..Len(t) /\ m \in 1..Len(s) /\ s[m] = t[m]
    BY <1>1, <1>2, <2>1
  <2>3. \A j \in 1..(m - 1) : j \in 1..(i - 1) /\ j \notin D
    <3>1. \A j \in 1..(m - 1) : j \in 1..(i - 1) /\ ~(m <= j)
      BY <1>1, <2>2
    <3> HIDE DEF D
    <3>2. QED
      BY <2>1, <3>1
  <2>4. \A j \in 1..(m - 1) : j <= Len(u) /\ u[j] = t[j] /\ j <= Len(s) /\ s[j] = t[j]
    BY <1>2, <2>3
  <2>5. CASE m > Len(u)
    <3>1. Before(u, t)
      BY <2>2, <2>4, <2>5 DEF Before
    <3>2. QED
      BY <3>1
  <2>6. CASE ~(m > Len(u))
    <3>1. m \in 1..Len(u) /\ u[m] # t[m] /\ u[m] \in Int /\ t[m] \in Int /\ s[m] = t[m]
      BY <1>1, <1>3, <2>1, <2>2, <2>6, SMTT(30)
    <3>2. CASE u[m] < t[m]
      <4>1. Before(u, t)
        BY <2>2, <2>4, <3>2 DEF Before
      <4>2. QED
        BY <4>1
    <3>3. CASE ~(u[m] < t[m])
      <4>1. s[m] < u[m]
        BY <3>1, <3>3
      <4>2. \A j \in 1..(m - 1) : j <= Len(s) /\ s[j] = u[j]
        BY <2>4
      <4>3. Before(s, u)
        BY <3>1, <4>1, <4>2 DEF Before
      <4>4. QED
        BY <4>3
    <3>4. QED
      BY <3>2, <3>3
  <2>7. QED
    BY <2>5, <2>6
<1>6. QED
  BY <1>4, <1>5

LEMMA BelowIs ==
    ASSUME NEW f \in Range(RvFields), NEW a \in CellsOf(f), NEW b \in CellsOf(f), a # Null, b # Null
    PROVE  /\ Below(f, a, b) => ~Below(f, b, a)
           /\ \A c \in CellsOf(f) \ {Null} : Below(f, a, b) => Below(f, a, c) \/ Below(f, c, b)
           /\ ToText(f, a) = ToText(f, b) => ~Below(f, a, b)
<1>1. CASE RvKind[f] = "number"
  <2>1. a \in Int /\ b \in Int /\ \A c \in CellsOf(f) \ {Null} : c \in Int
    BY <1>1 DEF CellsOf
  <2>2. ToText(f, a) = <<a>> /\ ToText(f, b) = <<b>>
    BY <1>1 DEF ToText
  <2>3. \A x, y \in CellsOf(f) : Below(f, x, y) <=> x < y
    BY <1>1 DEF Below
  <2>4. Below(f, a, b) => ~Below(f, b, a)
    <3>1. (Below(f, a, b) <=> a < b) /\ (Below(f, b, a) <=> b < a)
      BY <2>3
    <3>2. a < b => ~(b < a)
      BY <2>1
    <3>3. QED
      BY <3>1, <3>2
  <2>5. \A c \in CellsOf(f) \ {Null} : Below(f, a, b) => Below(f, a, c) \/ Below(f, c, b)
    BY <2>1, <2>3
  <2>6. <<a>> = <<b>> => a = b
    OBVIOUS
  <2>7. a = b => ~(a < b)
    BY <2>1
  <2>8. ToText(f, a) = ToText(f, b) => ~Below(f, a, b)
    BY <2>2, <2>3, <2>6, <2>7
  <2>9. QED
    BY <2>4, <2>5, <2>8
<1>2. CASE RvKind[f] # "number"
  <2>1. \A x, y \in CellsOf(f) : Below(f, x, y) = Before(ToText(f, x), ToText(f, y))
    BY <1>2 DEF Below
  <2>2. \A x \in CellsOf(f) : ToText(f, x) \in Seq(Int)
    BY TextIs
  <2>3. Below(f, a, b) => ~Below(f, b, a)
    BY <2>1, <2>2, BeforeOneWay
  <2>4. \A c \in CellsOf(f) : Below(f, a, b) => Below(f, a, c) \/ Below(f, c, b)
    BY <2>1, <2>2, BeforeThird
  <2>5. ToText(f, a) = ToText(f, b) => ~Below(f, a, b)
    <3>1. SUFFICES ASSUME ToText(f, a) = ToText(f, b), Below(f, a, b) PROVE FALSE
      OBVIOUS
    <3>2. Before(ToText(f, a), ToText(f, b)) /\ Before(ToText(f, b), ToText(f, a))
      BY <2>1, <3>1
    <3>3. QED
      BY <2>2, <3>2, BeforeOneWay
  <2>6. QED
    BY <2>3, <2>4, <2>5
<1>3. QED
  BY <1>1, <1>2

(* A sort puts some cells ahead of others, in either direction.            *)
LEMMA AheadIs ==
    ASSUME NEW f \in Range(RvFields), NEW dir, NEW a \in CellsOf(f), NEW b \in CellsOf(f), NEW c \in CellsOf(f)
    PROVE  LET s == [field |-> f, dir |-> dir]
           IN /\ Ahead(s, a, b) => ~Ahead(s, b, a)
              /\ Ahead(s, a, b) => Ahead(s, a, c) \/ Ahead(s, c, b)
<1> DEFINE s == [field |-> f, dir |-> dir]
           Lower(x, y) == IF dir = "asc" THEN Below(f, x, y) ELSE Below(f, y, x)
<1>1. \A x, y : Ahead(s, x, y) <=> ~IsEmpty(f, x) /\ (IsEmpty(f, y) \/ Lower(x, y))
  BY DEF Ahead
<1>2. \A x : ~IsEmpty(f, x) => x # Null
  BY DEF IsEmpty
<1>3. ~IsEmpty(f, a) /\ ~IsEmpty(f, b) => (Lower(a, b) => ~Lower(b, a))
  BY <1>2, BelowIs
<1>4. ~IsEmpty(f, a) /\ ~IsEmpty(f, b) /\ ~IsEmpty(f, c) => (Lower(a, b) => Lower(a, c) \/ Lower(c, b))
  <2>1. SUFFICES ASSUME ~IsEmpty(f, a), ~IsEmpty(f, b), ~IsEmpty(f, c)
                 PROVE  Lower(a, b) => Lower(a, c) \/ Lower(c, b)
    OBVIOUS
  <2>2. a # Null /\ b # Null /\ c \in CellsOf(f) \ {Null}
    BY <1>2, <2>1
  <2>3. Below(f, a, b) => Below(f, a, c) \/ Below(f, c, b)
    BY <2>2, BelowIs
  <2>4. Below(f, b, a) => Below(f, b, c) \/ Below(f, c, a)
    BY <2>2, BelowIs
  <2>5. QED
    BY <2>3, <2>4
<1> HIDE DEF Lower, s
<1>5. Ahead(s, a, b) => ~Ahead(s, b, a)
  BY <1>1, <1>3
<1>6. Ahead(s, a, b) => Ahead(s, a, c) \/ Ahead(s, c, b)
  BY <1>1, <1>4
<1>7. QED
  BY <1>5, <1>6 DEF s

LEMMA TiedIs ==
    ASSUME NEW f \in Range(RvFields), NEW dir, NEW a \in CellsOf(f), NEW b \in CellsOf(f),
           \/ IsEmpty(f, a) /\ IsEmpty(f, b)
           \/ ~IsEmpty(f, a) /\ ~IsEmpty(f, b) /\ ToText(f, a) = ToText(f, b)
    PROVE  ~Ahead([field |-> f, dir |-> dir], a, b)
<1> DEFINE s == [field |-> f, dir |-> dir]
<1>1. Ahead(s, a, b) <=> /\ ~IsEmpty(f, a)
                         /\ IsEmpty(f, b) \/ IF dir = "asc" THEN Below(f, a, b) ELSE Below(f, b, a)
  BY DEF Ahead
<1>2. CASE IsEmpty(f, a)
  BY <1>1, <1>2
<1>3. CASE ~IsEmpty(f, a) /\ ~IsEmpty(f, b) /\ ToText(f, a) = ToText(f, b)
  <2>1. a # Null /\ b # Null
    BY <1>3 DEF IsEmpty
  <2>2. ~Below(f, a, b) /\ ~Below(f, b, a)
    BY <1>3, <2>1, BelowIs
  <2>3. QED
    BY <1>1, <1>3, <2>2
<1>4. QED
  BY <1>2, <1>3


-----------------------------------------------------------------------------
(* The rows that a sort puts ahead of others.                              *)
Leading(v, s, X) ==
    {p \in X \X X : s.field \in v.fields /\ Ahead(s, v.data[p[1]][s.field], v.data[p[2]][s.field])}

LEMMA LeadingOrders ==
    ASSUME NEW v, RvSound(v), NEW s \in SortRules, NEW X \in SUBSET Range(RvRows)
    PROVE  WeakOrder(Leading(v, s, X), X)
<1> DEFINE L == Leading(v, s, X)
           f == s.field
           Held(r) == v.data[r][f]
<1>1. \A x, y \in X : <<x, y>> \in L <=> f \in v.fields /\ Ahead(s, Held(x), Held(y))
  BY DEF Leading
<1>2. CASE f \notin v.fields
  BY <1>1, <1>2 DEF WeakOrder
<1>3. CASE f \in v.fields
  <2>1. s = [field |-> f, dir |-> s.dir]
    BY DEF SortRules
  <2>2. f \in Range(RvFields)
    BY <1>3 DEF RvSound
  <2>3. \A x \in X : Held(x) \in CellsOf(f)
    BY <2>2 DEF RvSound, IsData, IsRow
  <2> HIDE DEF L, Held, f
  <2>4. \A a, b, c \in CellsOf(f) : /\ Ahead(s, a, b) => ~Ahead(s, b, a)
                                    /\ Ahead(s, a, b) => Ahead(s, a, c) \/ Ahead(s, c, b)
    BY <2>1, <2>2, AheadIs
  <2>5. \A x, y \in X : <<x, y>> \in L => <<y, x>> \notin L
    BY <1>1, <2>3, <2>4
  <2>6. \A x, y, z \in X : <<x, z>> \in L => <<x, y>> \in L \/ <<y, z>> \in L
    BY <1>1, <2>3, <2>4
  <2>7. QED
    BY <2>5, <2>6 DEF WeakOrder, L
<1>4. QED
  BY <1>2, <1>3

\* The order that a view's sorts give rows.
Order(v, X) == {p \in X \X X : Precedes(v, p[1], p[2])}

LEMMA PrecedesIs ==
    ASSUME NEW v, RvSound(v), NEW X \in SUBSET Range(RvRows), NEW x \in X, NEW y \in X
    PROVE  <<x, y>> \in Order(v, X) <=>
             \E i \in 1..Len(v.sorts) :
                /\ <<x, y>> \in Leading(v, v.sorts[i], X)
                /\ \A j \in 1..(i - 1) : <<y, x>> \notin Leading(v, v.sorts[j], X)
                                         /\ <<x, y>> \notin Leading(v, v.sorts[j], X)
<1>1. DOMAIN v.sorts = 1..Len(v.sorts)
  BY LenProperties DEF RvSound
<1>2. <<x, y>> \in Order(v, X) <=> Precedes(v, x, y)
  BY DEF Order
<1> DEFINE Leads(i, a, b) == /\ v.sorts[i].field \in v.fields
                             /\ Ahead(v.sorts[i], v.data[a][v.sorts[i].field], v.data[b][v.sorts[i].field])
<1>3. Precedes(v, x, y) <=>
        \E i \in 1..Len(v.sorts) : Leads(i, x, y) /\ \A j \in 1..(i - 1) : ~Leads(j, y, x) /\ ~Leads(j, x, y)
  BY <1>1 DEF Precedes
<1>4. \A i : (<<x, y>> \in Leading(v, v.sorts[i], X) <=> Leads(i, x, y))
             /\ (<<y, x>> \in Leading(v, v.sorts[i], X) <=> Leads(i, y, x))
  BY DEF Leading
<1> HIDE DEF Leads
<1>5. QED
  BY <1>2, <1>3, <1>4

LEMMA OrderOrders ==
    ASSUME NEW v, RvSound(v), NEW X \in SUBSET Range(RvRows)
    PROVE  WeakOrder(Order(v, X), X)
<1> DEFINE n == Len(v.sorts)
           F == [i \in 1..n |-> Leading(v, v.sorts[i], X)]
<1>1. n \in Nat /\ \A i \in 1..n : v.sorts[i] \in SortRules
  BY LenProperties, ElementOfSeq DEF RvSound
<1>2. \A i \in 1..n : WeakOrder(F[i], X)
  BY <1>1, LeadingOrders
<1>3. \A i \in 1..n : F[i] = Leading(v, v.sorts[i], X)
  OBVIOUS
<1>4. \A i \in 1..n : 1..(i - 1) \subseteq 1..n
  BY <1>1
<1> HIDE DEF n, F
<1>5. ASSUME NEW x \in X, NEW y \in X
      PROVE  <<x, y>> \in Order(v, X) <=> <<x, y>> \in ByFirst(F, n, X)
  <2>1. <<x, y>> \in Order(v, X) <=>
             \E i \in 1..n :
                /\ <<x, y>> \in Leading(v, v.sorts[i], X)
                /\ \A j \in 1..(i - 1) : <<y, x>> \notin Leading(v, v.sorts[j], X)
                                         /\ <<x, y>> \notin Leading(v, v.sorts[j], X)
    BY PrecedesIs DEF n
  <2>2. <<x, y>> \in ByFirst(F, n, X) <=>
             \E i \in 1..n : <<x, y>> \in F[i] /\ \A j \in 1..(i - 1) : <<y, x>> \notin F[j] /\ <<x, y>> \notin F[j]
    BY <1>1, ByFirstIs
  <2>3. QED
    BY <1>3, <1>4, <2>1, <2>2
<1>6. WeakOrder(ByFirst(F, n, X), X)
  BY <1>1, <1>2, ByFirstOrders
<1>7. QED
  BY <1>5, <1>6 DEF WeakOrder


-----------------------------------------------------------------------------
(* Sorting by a column from its menu.                                      *)
(* Two that the other sorts do not tell apart are told apart by those kept. *)
LEMMA SameOrder ==
    ASSUME NEW v, RvSound(v), NEW w, RvSound(w), NEW f \in v.fields, NEW dir,
           w.fields = v.fields, w.data = v.data,
           w.sorts = <<[field |-> f, dir |-> dir]>> \o Kept(v.sorts, {s \in Range(v.sorts) : s.field # f}),
           NEW X \in SUBSET Range(RvRows), NEW x \in X, NEW y \in X, SameCell(v, f, x, y)
    PROVE  <<x, y>> \in Order(w, X) <=> <<x, y>> \in Order(v, X)
<1> DEFINE S == {s \in Range(v.sorts) : s.field # f}
           k == Kept(v.sorts, S)
           first == [field |-> f, dir |-> dir]
           n == Len(v.sorts)
           L(s) == <<x, y>> \in Leading(v, s, X)
           M(s) == <<y, x>> \in Leading(v, s, X)
<1>1. v.sorts \in Seq(SortRules) /\ n \in Nat /\ DOMAIN v.sorts = 1..n
  BY LenProperties DEF RvSound
<1>2. PICK e : PlacedIn(v.sorts, S, n, k, e)
  BY <1>1, KeptPlaces
<1>3. k \in Seq(SortRules) /\ Len(k) \in Nat
  BY <1>1, KeptPlaces, LenProperties
<1>4. w.sorts = <<first>> \o k
  OBVIOUS
<1>5. first \in SortRules
  <2>1. w.sorts \in Seq(SortRules)
    BY DEF RvSound
  <2> HIDE DEF first, k
  <2>2. <<first>> \in Seq({first}) /\ Len(<<first>>) = 1 /\ <<first>>[1] = first
    OBVIOUS
  <2>3. Len(w.sorts) = Len(k) + 1 /\ w.sorts[1] = first
    BY <1>3, <1>4
  <2>4. QED
    BY <1>3, <2>1, <2>3, ElementOfSeq
<1>6. Len(w.sorts) = Len(k) + 1 /\ w.sorts[1] = first /\ \A a \in 1..Len(k) : w.sorts[a + 1] = k[a]
  <2> HIDE DEF first, k
  <2>1. <<first>> \in Seq(SortRules) /\ Len(<<first>>) = 1 /\ <<first>>[1] = first
    BY <1>5
  <2> DEFINE one == <<first>>
  <2> HIDE DEF one
  <2>2. /\ Len(one \o k) = Len(one) + Len(k)
        /\ \A i \in 1..(Len(one) + Len(k)) : (one \o k)[i] = IF i <= Len(one) THEN one[i] ELSE k[i - Len(one)]
    BY <1>3, <2>1, ConcatProperties DEF one
  <2>3. Len(one) = 1 /\ one[1] = first /\ w.sorts = one \o k
    BY <1>4, <2>1 DEF one
  <2>4. Len(w.sorts) = Len(k) + 1
    BY <1>3, <2>2, <2>3
  <2>5. w.sorts[1] = first
    BY <1>3, <2>2, <2>3
  <2>6. \A a \in 1..Len(k) : w.sorts[a + 1] = k[a]
    <3>1. \A a \in 1..Len(k) : a + 1 \in 1..(1 + Len(k)) /\ ~(a + 1 <= 1) /\ (a + 1) - 1 = a
      BY <1>3
    <3>2. QED
      BY <2>2, <2>3, <3>1
  <2>7. QED
    BY <2>4, <2>5, <2>6
<1>7. ASSUME NEW s \in SortRules, s.field = f
      PROVE  ~L(s) /\ ~M(s)
  <2>1. s = [field |-> f, dir |-> s.dir]
    BY <1>7 DEF SortRules
  <2>2. f \in Range(RvFields)
    BY DEF RvSound
  <2>3. v.data[x][f] \in CellsOf(f) /\ v.data[y][f] \in CellsOf(f)
    BY <2>2 DEF RvSound, IsData, IsRow
  <2>4. ~Ahead(s, v.data[x][f], v.data[y][f]) /\ ~Ahead(s, v.data[y][f], v.data[x][f])
    BY <2>1, <2>2, <2>3, TiedIs DEF SameCell
  <2>5. QED
    BY <1>7, <2>4 DEF Leading
<1>8. \A s : /\ <<x, y>> \in Leading(w, s, X) <=> L(s)
             /\ <<y, x>> \in Leading(w, s, X) <=> M(s)
  BY DEF Leading
<1>9. <<x, y>> \in Order(v, X) <=>
        \E i \in 1..n : L(v.sorts[i]) /\ \A j \in 1..(i - 1) : ~M(v.sorts[j]) /\ ~L(v.sorts[j])
  BY PrecedesIs
<1>10. <<x, y>> \in Order(w, X) <=>
        \E i \in 1..(Len(k) + 1) : L(w.sorts[i]) /\ \A j \in 1..(i - 1) : ~M(w.sorts[j]) /\ ~L(w.sorts[j])
  <2>1. <<x, y>> \in Order(w, X) <=>
          \E i \in 1..Len(w.sorts) :
             /\ <<x, y>> \in Leading(w, w.sorts[i], X)
             /\ \A j \in 1..(i - 1) : <<y, x>> \notin Leading(w, w.sorts[j], X)
                                      /\ <<x, y>> \notin Leading(w, w.sorts[j], X)
    BY PrecedesIs
  <2> HIDE DEF L, M
  <2>2. QED
    BY <1>6, <1>8, <2>1
<1>11. ~L(first) /\ ~M(first)
  BY <1>5, <1>7
<1>12. \A i \in 1..n : v.sorts[i] \in SortRules /\ (v.sorts[i] \notin S => ~L(v.sorts[i]) /\ ~M(v.sorts[i]))
  <2>1. ASSUME NEW i \in 1..n PROVE v.sorts[i] \in SortRules /\ v.sorts[i] \in Range(v.sorts)
    BY <1>1, ElementOfSeq DEF Range
  <2>2. QED
    BY <1>7, <2>1
<1> HIDE DEF S, k, first, n, L, M
<1>13. /\ Len(e) = Len(k) /\ \A a \in 1..Len(k) : e[a] \in 1..n /\ k[a] = v.sorts[e[a]] /\ v.sorts[e[a]] \in S
       /\ \A a, b \in 1..Len(k) : a < b => e[a] < e[b]
       /\ \A j \in 1..n : v.sorts[j] \in S => \E a \in 1..Len(k) : e[a] = j
  <2>1. e \in Seq(1..n) /\ Len(e) = Len(k)
    BY <1>2 DEF PlacedIn
  <2>2. \A a \in 1..Len(k) : e[a] \in 1..n
    BY <2>1, ElementOfSeq
  <2>3. QED
    BY <1>2, <2>1, <2>2 DEF PlacedIn
<1>14. ASSUME NEW i \in 1..n, L(v.sorts[i]), \A j \in 1..(i - 1) : ~M(v.sorts[j]) /\ ~L(v.sorts[j])
       PROVE  \E a \in 1..(Len(k) + 1) : L(w.sorts[a]) /\ \A j \in 1..(a - 1) : ~M(w.sorts[j]) /\ ~L(w.sorts[j])
  <2>1. v.sorts[i] \in S
    BY <1>12, <1>14
  <2>2. PICK a \in 1..Len(k) : e[a] = i
    BY <1>13, <2>1
  <2>3. w.sorts[a + 1] = v.sorts[i] /\ a + 1 \in 1..(Len(k) + 1)
    <3>1. w.sorts[a + 1] = k[a]
      BY <1>6, <2>2
    <3>2. k[a] = v.sorts[i]
      BY <1>13, <2>2
    <3>3. a + 1 \in 1..(Len(k) + 1)
      BY <1>3, <2>2
    <3>4. QED
      BY <3>1, <3>2, <3>3
  <2>4. ASSUME NEW j \in 1..a PROVE ~M(w.sorts[j]) /\ ~L(w.sorts[j])
    <3>1. CASE j = 1
      BY <1>6, <1>11, <3>1
    <3>2. CASE j # 1
      <4>1. j - 1 \in 1..Len(k) /\ j - 1 < a /\ (j - 1) + 1 = j
        BY <1>3, <3>2
      <4>2. w.sorts[j] = v.sorts[e[j - 1]]
        BY <1>6, <1>13, <4>1
      <4>3. e[j - 1] < i /\ e[j - 1] \in 1..n
        BY <1>13, <2>2, <4>1
      <4>4. e[j - 1] \in 1..(i - 1)
        BY <1>1, <4>3
      <4>5. QED
        BY <1>14, <4>2, <4>4
    <3>3. QED
      BY <3>1, <3>2
  <2>5. (a + 1) - 1 = a
    BY <1>3
  <2>6. QED
    BY <1>14, <2>3, <2>4, <2>5
<1>15. ASSUME NEW a \in 1..(Len(k) + 1), L(w.sorts[a]), \A j \in 1..(a - 1) : ~M(w.sorts[j]) /\ ~L(w.sorts[j])
       PROVE  \E i \in 1..n : L(v.sorts[i]) /\ \A j \in 1..(i - 1) : ~M(v.sorts[j]) /\ ~L(v.sorts[j])
  <2>1. a # 1
    BY <1>6, <1>11, <1>15
  <2>2. a - 1 \in 1..Len(k) /\ (a - 1) + 1 = a
    BY <1>3, <2>1
  <2> DEFINE i == e[a - 1]
  <2>3. i \in 1..n /\ v.sorts[i] = w.sorts[a]
    BY <1>6, <1>13, <2>2
  <2>4. ASSUME NEW j \in 1..(i - 1) PROVE ~M(v.sorts[j]) /\ ~L(v.sorts[j])
    <3>1. j \in 1..n /\ j < i
      BY <1>1, <2>3
    <3>2. CASE v.sorts[j] \notin S
      BY <1>12, <3>1, <3>2
    <3>3. CASE v.sorts[j] \in S
      <4>1. PICK b \in 1..Len(k) : e[b] = j
        BY <1>13, <3>1, <3>3
      <4>2. b < a - 1
        <5>1. ~(a - 1 < b) /\ b # a - 1
          <6>1. a - 1 < b => i < j
            BY <1>13, <2>2, <4>1
          <6>2. b = a - 1 => i = j
            BY <4>1
          <6>3. QED
            BY <2>3, <3>1, <6>1, <6>2
        <5>2. QED
          BY <1>3, <2>2, <5>1
      <4>3. b + 1 \in 1..(a - 1) /\ w.sorts[b + 1] = v.sorts[j]
        <5>1. b + 1 \in 1..(a - 1)
          BY <1>3, <2>2, <4>2
        <5>2. w.sorts[b + 1] = k[b]
          BY <1>6
        <5>3. k[b] = v.sorts[j]
          BY <1>13, <4>1
        <5>4. QED
          BY <5>1, <5>2, <5>3
      <4>4. QED
        BY <1>15, <4>3
    <3>4. QED
      BY <3>2, <3>3
  <2>5. QED
    BY <1>15, <2>3, <2>4
<1>16. QED
  BY <1>9, <1>10, <1>14, <1>15


(* What the filter and the search let pass does not depend on the sorts.   *)
LEMMA SameFilter ==
    ASSUME NEW v, NEW w, w.fields = v.fields, w.data = v.data, w.filter = v.filter, NEW rows
    PROVE  ApplyFilterTree(w, rows) = ApplyFilterTree(v, rows)
<1>1. \A g : Active(w, g) = Active(v, g)
  BY DEF Active, Counts
<1>2. \A r, n : RuleHolds(w, r, n) = RuleHolds(v, r, n)
  BY DEF RuleHolds
<1>3. \A r, n : MatchNode(w, r, n) = MatchNode(v, r, n)
  <2>1. \A r, n : {c \in Active(w, n) : RuleHolds(w, r, c)} = {c \in Active(v, n) : RuleHolds(v, r, c)}
    BY <1>1, <1>2
  <2>2. QED
    BY <1>1, <1>2, <2>1 DEF MatchNode
<1> DEFINE A == Active(v, v.filter)
<1>4. Active(w, w.filter) = A
  BY <1>1
<1> HIDE DEF A
<1>5. \A r : {n \in A : MatchNode(w, r, n)} = {n \in A : MatchNode(v, r, n)}
  BY <1>3
<1>6. {r \in Range(rows) : Combined(v.filter.conj, A, {n \in A : MatchNode(w, r, n)})}
       = {r \in Range(rows) : Combined(v.filter.conj, A, {n \in A : MatchNode(v, r, n)})}
  BY <1>5
<1>7. QED
  BY <1>4, <1>6 DEF ApplyFilterTree, A

LEMMA SameSearch ==
    ASSUME NEW v, NEW w, w.fields = v.fields, w.data = v.data, w.scope = v.scope, w.query = v.query, w.rows = v.rows
    PROVE  MatchedIds(w) = MatchedIds(v)
<1>1. SearchFields(w) = SearchFields(v)
  BY DEF SearchFields
<1>2. \A text : Rank(w, text) = Rank(v, text)
  BY DEF Rank
<1> DEFINE S == SearchFields(v)
<1>3. \A r : {Rank(w, ToText(f, w.data[r][f])) : f \in S} = {Rank(v, ToText(f, v.data[r][f])) : f \in S}
  BY <1>2
<1>4. \A r : BestRank(w, r) = BestRank(v, r)
  BY <1>1, <1>3 DEF BestRank
<1>5. {r \in Range(v.rows) : BestRank(w, r) < 3} = {r \in Range(v.rows) : BestRank(v, r) < 3}
  BY <1>4
<1>6. QED
  BY <1>5 DEF MatchedIds

LEMMA IndexIs ==
    ASSUME NEW T, NEW s \in Seq(T), IsInjective(s), NEW i \in 1..Len(s)
    PROVE  IndexIn(s, s[i]) = i
<1>1. DOMAIN s = 1..Len(s)
  BY LenProperties
<1>2. \A k \in DOMAIN s : s[k] = s[i] => k = i
  BY <1>1 DEF IsInjective
<1>3. QED
  BY <1>1, <1>2 DEF IndexIn

LEMMA TiesKept ==
    ASSUME RvInv, NEW f \in rv.fields, NEW dir \in {"asc", "desc"}, SortBy(f, dir),
           NEW i \in DOMAIN Visible(rv), NEW j \in DOMAIN Visible(rv), i < j
    PROVE  LET rows == Visible(rv)
               sorted == Visible(rv')
           IN /\ ~Ahead([field |-> f, dir |-> dir], rv.data[sorted[j]][f], rv.data[sorted[i]][f])
              /\ SameCell(rv, f, sorted[i], sorted[j]) => IndexIn(rows, sorted[i]) < IndexIn(rows, sorted[j])
<1> DEFINE v == rv
           w == rv'
           first == [field |-> f, dir |-> dir]
           p == ApplyFilterTree(v, v.rows)
           X == Range(p)
           K == IF v.only /\ v.query # <<>> THEN MatchedIds(v) ELSE Range(v.rows)
<1>1. RvSound(v) /\ RvSound(w)
  BY SortByKeeps DEF RvInv
<1>2. w = [[v EXCEPT !.sorts = <<first>> \o Kept(v.sorts, {s \in Range(v.sorts) : s.field # f})] EXCEPT !.ops = @ - 1]
  BY DEF SortBy, Does
<1>3. /\ w.fields = v.fields /\ w.data = v.data /\ w.filter = v.filter /\ w.rows = v.rows
      /\ w.scope = v.scope /\ w.query = v.query /\ w.only = v.only
  BY <1>1, <1>2 DEF RvSound, IsView, RvParts
<1>4. w.sorts = <<first>> \o Kept(v.sorts, {s \in Range(v.sorts) : s.field # f})
  <2> DEFINE new == <<first>> \o Kept(v.sorts, {s \in Range(v.sorts) : s.field # f})
  <2>1. w = [[v EXCEPT !.sorts = new] EXCEPT !.ops = @ - 1]
    BY <1>2
  <2> HIDE DEF new
  <2>2. w.sorts = new
    BY <1>1, <2>1 DEF RvSound, IsView, RvParts
  <2>3. QED
    BY <2>2 DEF new
<1>5. ApplyFilterTree(w, w.rows) = p
  BY <1>3, SameFilter
<1>6. MatchedIds(w) = MatchedIds(v)
  BY <1>3, SameSearch
<1>7. Visible(v) = Kept(Sorted(p, Order(v, X)), K)
  BY DEF Visible, ApplySorts, Order
<1>8. Visible(w) = Kept(Sorted(p, Order(w, X)), K)
  BY <1>3, <1>5, <1>6 DEF Visible, ApplySorts, Order
<1>9. p \in Seq(X) /\ IsInjective(p) /\ X \in SUBSET Range(RvRows)
  <2>1. v.rows \in Seq(Range(RvRows)) /\ IsInjective(v.rows)
    BY <1>1 DEF RvSound
  <2>2. PICK S : p = Kept(v.rows, S)
    BY DEF ApplyFilterTree
  <2>3. p \in Seq(Range(RvRows)) /\ IsInjective(p)
    BY <2>1, <2>2, KeptIs
  <2> HIDE DEF p
  <2>4. \A a \in 1..Len(p) : p[a] \in Range(RvRows) /\ p[a] \in Range(p)
    BY <2>3, LenProperties, ElementOfSeq DEF Range
  <2>5. p \in Seq(Range(p))
    BY <2>3, <2>4, SeqDef, LenProperties
  <2>6. Range(p) \subseteq Range(RvRows)
    BY <2>3, <2>4, LenProperties DEF Range
  <2>7. QED
    BY <2>3, <2>5, <2>6
<1> DEFINE R == Order(v, X)
           Q == Order(w, X)
           c == Visible(v)
           d == Visible(w)
<1> HIDE DEF p, X, K, first
<1>10. WeakOrder(R, X) /\ WeakOrder(Q, X)
  BY <1>1, <1>9, OrderOrders
<1>11. c \in Seq(X) /\ IsInjective(c) /\ d \in Seq(X) /\ Len(c) = Len(d)
  <2>1. c = Kept(Sorted(p, R), K) /\ d = Kept(Sorted(p, Q), K)
    BY <1>7, <1>8
  <2> HIDE DEF R, Q, c, d
  <2>2. /\ Sorted(p, R) \in Seq(X) /\ IsInjective(Sorted(p, R)) /\ Range(Sorted(p, R)) = Range(p)
        /\ Sorted(p, Q) \in Seq(X) /\ IsInjective(Sorted(p, Q)) /\ Range(Sorted(p, Q)) = Range(p)
    BY <1>9, SortedIs
  <2>3. c \in Seq(X) /\ IsInjective(c) /\ Range(c) = Range(p) \cap K
    BY <2>1, <2>2, KeptIs
  <2>4. d \in Seq(X) /\ IsInjective(d) /\ Range(d) = Range(p) \cap K
    BY <2>1, <2>2, KeptIs
  <2>5. QED
    BY <2>3, <2>4, SameLength
<1>12. i \in 1..Len(d) /\ j \in 1..Len(d)
  BY <1>11, LenProperties
<1>13. d[i] \in X /\ d[j] \in X
  BY <1>11, <1>12, ElementOfSeq
<1> HIDE DEF R, Q, c, d
<1>14. /\ <<d[j], d[i]>> \notin Q
       /\ (<<d[i], d[j]>> \in Q <=> <<d[i], d[j]>> \in R) /\ (<<d[j], d[i]>> \in Q <=> <<d[j], d[i]>> \in R) =>
             \E a, b \in 1..Len(c) : a < b /\ c[a] = d[i] /\ c[b] = d[j]
  <2>1. c = Kept(Sorted(p, R), K) /\ d = Kept(Sorted(p, Q), K)
    BY <1>7, <1>8 DEF R, Q, c, d
  <2>2. i \in 1..Len(Kept(Sorted(p, Q), K)) /\ j \in 1..Len(Kept(Sorted(p, Q), K))
    BY <1>12, <2>1
  <2>3. LET k == Kept(Sorted(p, R), K)
            l == Kept(Sorted(p, Q), K)
        IN /\ <<l[j], l[i]>> \notin Q
           /\ (<<l[i], l[j]>> \in Q <=> <<l[i], l[j]>> \in R) /\ (<<l[j], l[i]>> \in Q <=> <<l[j], l[i]>> \in R) =>
                 \E a, b \in 1..Len(k) : a < b /\ k[a] = l[i] /\ k[b] = l[j]
    BY <1>9, <1>10, <2>2, TiesStay
  <2>4. QED
    BY <2>1, <2>3
<1>15. ~Ahead([field |-> f, dir |-> dir], v.data[d[j]][f], v.data[d[i]][f])
  <2>1. SUFFICES ASSUME Ahead(first, v.data[d[j]][f], v.data[d[i]][f]) PROVE FALSE
    BY DEF first
  <2>2. w.sorts[1] = first /\ 1 \in 1..Len(w.sorts)
    <3>1. v.sorts \in Seq(SortRules) /\ w.sorts \in Seq(SortRules)
      BY <1>1 DEF RvSound
    <3> DEFINE k == Kept(v.sorts, {s \in Range(v.sorts) : s.field # f})
    <3>2. k \in Seq(SortRules) /\ Len(k) \in Nat
      BY <3>1, KeptHas, LenProperties
    <3>3. w.sorts = <<first>> \o k
      BY <1>4
    <3> HIDE DEF k
    <3>4. QED
      BY <3>2, <3>3
  <2>3. first.field = f
    BY DEF first
  <2>4. <<d[j], d[i]>> \in Leading(w, w.sorts[1], X)
    BY <1>3, <1>13, <2>1, <2>2, <2>3 DEF Leading
  <2>5. 1..(1 - 1) = {}
    OBVIOUS
  <2>6. <<d[j], d[i]>> \in Order(w, X) <=>
           \E a \in 1..Len(w.sorts) :
              /\ <<d[j], d[i]>> \in Leading(w, w.sorts[a], X)
              /\ \A b \in 1..(a - 1) : <<d[i], d[j]>> \notin Leading(w, w.sorts[b], X)
                                       /\ <<d[j], d[i]>> \notin Leading(w, w.sorts[b], X)
    BY <1>1, <1>9, <1>13, PrecedesIs
  <2>7. QED
    BY <1>14, <2>2, <2>4, <2>5, <2>6 DEF Q
<1>16. SameCell(v, f, d[i], d[j]) => IndexIn(c, d[i]) < IndexIn(c, d[j])
  <2>1. SUFFICES ASSUME SameCell(v, f, d[i], d[j]) PROVE IndexIn(c, d[i]) < IndexIn(c, d[j])
    OBVIOUS
  <2>2. SameCell(v, f, d[j], d[i])
    BY <2>1 DEF SameCell
  <2>3. <<d[i], d[j]>> \in Q <=> <<d[i], d[j]>> \in R
    BY <1>1, <1>3, <1>4, <1>9, <1>13, <2>1, SameOrder DEF Q, R, first
  <2>4. <<d[j], d[i]>> \in Q <=> <<d[j], d[i]>> \in R
    BY <1>1, <1>3, <1>4, <1>9, <1>13, <2>2, SameOrder DEF Q, R, first
  <2>5. PICK a, b \in 1..Len(c) : a < b /\ c[a] = d[i] /\ c[b] = d[j]
    BY <1>14, <2>3, <2>4
  <2>6. IndexIn(c, c[a]) = a /\ IndexIn(c, c[b]) = b
    BY <1>11, IndexIs
  <2>7. QED
    BY <2>5, <2>6
<1>17. QED
  BY <1>15, <1>16 DEF c, d

-----------------------------------------------------------------------------
(* The rows of a view, in the browser.                                     *)

LEMMA RvWithin ==
    /\ Init => rv = Closed \/ RvInit
    /\ [Next]_vars => [rv # Closed /\ RvNext]_rv
BY DEF Init, Next, vars

LEMMA RvAlways == Spec => [](rv = Closed \/ RvInv)
<1>1. Init => rv = Closed \/ RvInv
  BY RvWithin, RvInitInv
<1>2. (rv = Closed \/ RvInv) /\ [Next]_vars => (rv = Closed \/ RvInv)'
  BY RvWithin, RvNextInv DEF RvInv
<1>3. QED
  BY <1>1, <1>2, PTL DEF Spec

(* DroppedCardLands, of the browser: a card dropped on a column of a       *)
(* swimlane is a card of it from then on, however the board came to be as  *)
(* it is, as long as the board can write both and the filter and the       *)
(* search let the card pass (dropOn, placement, matches).                  *)
THEOREM BrowserDroppedCardLands == Spec => DroppedCardLands
<1>1. (rv = Closed \/ RvInv) =>
        [OnBoard /\ rv.drag # NoRow /\ Writable(rv) =>
           \A col \in ColumnsFor(rv, BoardField(rv)), lane \in Lanes(rv) :
              DropOn(col, lane) =>
                 (rv.drag \in Range(Visible(rv'))
                     => rv.drag \in Range(CardsIn(rv', col, lane)))]_rv
  BY DroppedLands DEF OnBoard
<1>2. QED
  BY <1>1, RvAlways, PTL DEF DroppedCardLands

(* NewCardInSight, of the browser: a card added in a column is on the page *)
(* with its title open, however many cards the column has (addCard's       *)
(* onSuccess, placement).                                                  *)
THEOREM BrowserNewCardInSight == Spec => NewCardInSight
<1>1. (rv = Closed \/ RvInv) =>
        [OnBoard /\ Writable(rv) /\ rv'.rows # rv.rows =>
           \A col \in ColumnsFor(rv, BoardField(rv)), lane \in Lanes(rv) :
              AddCard(col, lane) =>
                 \A r \in Range(rv.rows') \ Range(rv.rows) :
                     r \in Range(Visible(rv')) => /\ r \in Range(ShownIn(rv', col, lane))
                                                 /\ rv'.edit = r]_rv
  BY NewCardShown DEF OnBoard
<1>2. QED
  BY <1>1, RvAlways, PTL DEF NewCardInSight

(* SortingKeepsTies, of the browser: sorting by a column from its menu     *)
(* puts the rows in the order of its cells and leaves those with the same  *)
(* cell as they were, whatever the other sorts and the filter (setSort,    *)
(* applySorts).                                                            *)
THEOREM BrowserSortingKeepsTies == Spec => SortingKeepsTies
<1>1. (rv = Closed \/ RvInv) =>
        [\A f \in (IF rv = Closed THEN {} ELSE rv.fields), dir \in {"asc", "desc"} :
           SortBy(f, dir) =>
              LET rows == Visible(rv)  sorted == Visible(rv')
              IN \A i, j \in DOMAIN rows :
                   i < j => /\ ~Ahead([field |-> f, dir |-> dir], rv.data[sorted[j]][f],
                                      rv.data[sorted[i]][f])
                            /\ SameCell(rv, f, sorted[i], sorted[j])
                                 => IndexIn(rows, sorted[i]) < IndexIn(rows, sorted[j])]_rv
  BY TiesKept
<1>2. QED
  BY <1>1, RvAlways, PTL DEF SortingKeepsTies

(* OppositesSplit, of the browser: an operator and its opposite split the  *)
(* rows, whatever the cells hold and whatever the filter says (matchOne).  *)
THEOREM BrowserOppositesSplit == Spec => []OppositesSplit
<1>1. OppositesSplit
  BY OneOfOpposites DEF OppositesSplit
<1>2. QED
  BY <1>1, PTL

===============================================================================
