------------------------------ MODULE TableGrid ------------------------------
(* The grid of a Table view: which rows it shows and in which order, the         *)
(* highlighted range and the keys that move it, the cell being edited with the   *)
(* text typed into it, the selected rows, copying.                               *)
(*                                                                               *)
(* What the toolbar and the server do to the rows is an arrangement of them,     *)
(* chosen anew at any time: their order, which of them pass, grouped or as a     *)
(* tree.  RowViews says how filters, sorts and groups make one.  Rows are the    *)
(* ones loaded so far; their number and the values of a cell are small.          *)
EXTENDS Screen, Arrays, Integers, Sequences, FiniteSets, SequencesExt, TLC

CONSTANTS
    TgRows,           \* ids of rows, in the server's order
    TgNew,            \* the row "New" creates
    TgFields,         \* columns in order
    TgKind,           \* column -> id, text or menu (select, tags, people, ...)
    TgGroup,          \* row -> its group
    TgKids,           \* row -> its sub-items, in order
    TgArrangements,   \* [order : rows that pass in their order, mode : flat, groups or tree]
    TgTyped,          \* what users type or choose
    TgChildPage,      \* sub-items shown at first
    TgOps,            \* bound on what the user does
    NoCell, NoDraft

ASSUME TgAssumption == /\ TgRows \in Seq(Range(TgRows)) /\ TgFields \in Seq(Range(TgFields))
                       /\ \A a \in TgArrangements : a.order \in Seq(Range(TgRows)) /\ IsInjective(a.order)
                       /\ IsInjective(TgRows) /\ IsInjective(TgFields) /\ TgNew \in Range(TgRows)
                       /\ DOMAIN TgKind = Range(TgFields) /\ TgChildPage \in Nat \ {0}

VARIABLE tg

InList(s, x) == \E i \in 1..Len(s) : s[i] = x
Place(s, x) == CHOOSE i \in 1..Len(s) : s[i] = x
Clamp(lo, hi, n) == IF hi < lo \/ n < lo THEN lo ELSE IF n > hi THEN hi ELSE n

-------------------------------------------------------------------------------
(* The rows on the page *)

RowItems(g) == Kept(TgRows, g.loaded)
VisibleRows(g) == Kept(g.arr.order, g.loaded)
DisplayFields(g) == Kept(TgFields, Range(TgFields) \ g.hidden)

\* The groups in the order of their first rows, without the collapsed ones.
InGroups(g) ==
    LET rows == VisibleRows(g)
        firsts == SelectSeq(rows, LAMBDA r : /\ TgGroup[r] \notin g.collapsed
                                             /\ \A i \in 1..(Place(rows, r) - 1) :
                                                   TgGroup[rows[i]] # TgGroup[r])
    IN FlattenSeq([k \in DOMAIN firsts |->
                     SelectSeq(rows, LAMBDA r : TgGroup[r] = TgGroup[firsts[k]])])

ChildrenOf(g, r) == Kept(TgKids[r], Range(VisibleRows(g)))
ChildWindow(g, r) == IF r \in DOMAIN g.windows THEN g.windows[r] ELSE TgChildPage
FirstOf(s, n) == SubSeq(s, 1, Min({Len(s), n}))
HasParent(r) == \E p \in Range(TgRows) : r \in Range(TgKids[p])

\* Parents before their sub-items, as many of these as their window holds.
Tree(g, rows) ==
    LET kids(r) == IF r \notin g.expanded THEN <<>> ELSE FirstOf(ChildrenOf(g, r), ChildWindow(g, r))
        under[r \in Range(TgRows)] ==
            <<r>> \o FlattenSeq([i \in DOMAIN kids(r) |-> under[kids(r)[i]]])
    IN FlattenSeq([i \in DOMAIN rows |-> under[rows[i]]])

Shown(g) ==
    CASE g.arr.mode = "flat" -> VisibleRows(g)
      [] g.arr.mode = "groups" -> InGroups(g)
      [] g.arr.mode = "tree" -> Tree(g, SelectSeq(VisibleRows(g), LAMBDA r : ~HasParent(r)))

-------------------------------------------------------------------------------
(* Cells *)

Cell(r, f) == <<r, f>>
Editable(f) == TgKind[f] # "id"

\* Is the cell being edited on the page?
EditOnPage(g) == /\ g.edit # NoCell
                 /\ InList(Shown(g), g.edit[1]) /\ InList(DisplayFields(g), g.edit[2])

\* Is the user typing in an input?  Then the keys are the cell's, not the grid's.
InInput(g) == EditOnPage(g) /\ TgKind[g.edit[2]] = "text"

\* A mutant: the text typed stays in the editor when it moves to another cell.
RenderedWithDraft(g) ==
    IF ~InInput(g) THEN [g EXCEPT !.draft = NoDraft, !.typedIn = NoCell]
    ELSE IF g.draft # NoDraft THEN g
    ELSE [g EXCEPT !.draft = g.data[g.edit[1]][g.edit[2]]]

\* The editor is mounted anew for each cell, with the cell's value; it goes with what
\* was typed when its row or column leaves the page.
RenderedGrid(g) ==
    IF ~InInput(g) THEN [g EXCEPT !.draft = NoDraft, !.typedIn = NoCell]
    ELSE IF g.draft # NoDraft /\ g.edit = tg.edit THEN g
    ELSE [g EXCEPT !.draft = g.data[g.edit[1]][g.edit[2]], !.typedIn = NoCell]

Gives(g) == tg' = RenderedGrid([g EXCEPT !.ops = @ - 1])

NoRange == [r1 |-> 0, c1 |-> 0, r2 |-> 0, c2 |-> 0]
At(r, c) == [r1 |-> r, c1 |-> c, r2 |-> r, c2 |-> c]

HighlightedIn(g, r, c) ==
    /\ g.range # NoRange
    /\ Min({g.range.r1, g.range.r2}) <= r /\ r <= Max({g.range.r1, g.range.r2})
    /\ Min({g.range.c1, g.range.c2}) <= c /\ c <= Max({g.range.c1, g.range.c2})

-------------------------------------------------------------------------------
(* The mouse *)

\* Pressing a cell highlights it and ends another edit, whose input may or may not
\* get to commit before it is gone.
Press(r, c) ==
    LET cell == Cell(Shown(tg)[r], DisplayFields(tg)[c])
        kept == [tg EXCEPT !.edit = NoCell, !.range = At(r, c), !.dragging = TRUE,
                           !.again = (tg.range = At(r, c)) /\ Editable(cell[2])]
    IN /\ ~tg.dragging /\ tg.edit # cell
       /\ \/ Gives(kept)
          \/ InInput(tg) /\ Gives([kept EXCEPT !.data[tg.edit[1]][tg.edit[2]] = tg.draft])

MoveOver(r, c) == tg.dragging /\ Gives([tg EXCEPT !.range.r2 = r, !.range.c2 = c])

\* Let go on the cell that was pressed: a second click on a highlighted cell edits it.
Release(r, c) ==
    /\ tg.dragging
    /\ IF tg.again /\ tg.range.r1 = r /\ tg.range.c1 = c
       THEN Gives([tg EXCEPT !.dragging = FALSE,
                             !.edit = Cell(Shown(tg)[r], DisplayFields(tg)[c])])
       ELSE Gives([tg EXCEPT !.dragging = FALSE])

DoubleClick(r, c) ==
    /\ ~tg.dragging /\ Editable(DisplayFields(tg)[c])
    /\ tg.edit # Cell(Shown(tg)[r], DisplayFields(tg)[c])
    /\ Gives([tg EXCEPT !.range = At(r, c), !.edit = Cell(Shown(tg)[r], DisplayFields(tg)[c])])

Mouse == \E r \in 1..Len(Shown(tg)), c \in 1..Len(DisplayFields(tg)) :
            Press(r, c) \/ MoveOver(r, c) \/ Release(r, c) \/ DoubleClick(r, c)

-------------------------------------------------------------------------------
(* The keys of the grid *)

\* A mutant: the highlight moves on past the last row and column.
SteppedUnclamped(g, dr, dc) ==
    LET r == Clamp(1, Len(Shown(g)) + 1, g.range.r2 + dr)
        c == Clamp(1, Len(DisplayFields(g)), g.range.c2 + dc)
    IN [g EXCEPT !.range = At(r, c), !.edit = NoCell]

\* Arrows, Tab and Shift+Tab: from the range's last cell, kept within the visible rows.
Stepped(g, dr, dc) ==
    LET r == Clamp(1, Len(VisibleRows(g)), g.range.r2 + dr)
        c == Clamp(1, Len(DisplayFields(g)), g.range.c2 + dc)
    IN [g EXCEPT !.range = At(r, c), !.edit = NoCell]

Steps == {<<1, 0>>, <<-1, 0>>, <<0, 1>>, <<0, -1>>}

StepKey == \E d \in Steps :
    /\ tg.range # NoRange /\ ~InInput(tg)
    /\ Gives(Stepped(tg, d[1], d[2]))

\* Enter edits the cell the range ends in, looked up among the visible rows.
EnterKey ==
    /\ tg.range # NoRange /\ ~InInput(tg)
    /\ tg.range.r2 \in DOMAIN VisibleRows(tg) /\ tg.range.c2 \in DOMAIN DisplayFields(tg)
    /\ Editable(DisplayFields(tg)[tg.range.c2])
    /\ Gives([tg EXCEPT !.edit = Cell(VisibleRows(tg)[tg.range.r2],
                                     DisplayFields(tg)[tg.range.c2])])

EscapeKey == ~InInput(tg) /\ Gives([tg EXCEPT !.range = NoRange, !.edit = NoCell])

\* Ctrl+C copies from the loaded rows and all the columns.
CopyKey ==
    /\ tg.range # NoRange /\ ~InInput(tg)
    /\ LET rows == RowItems(tg)
       IN Gives([tg EXCEPT !.copied =
            {Cell(rows[p[1]], TgFields[p[2]]) :
                p \in {q \in (DOMAIN rows) \X (DOMAIN TgFields) : HighlightedIn(tg, q[1], q[2])}}])

GridKeys == StepKey \/ EnterKey \/ EscapeKey \/ CopyKey

-------------------------------------------------------------------------------
(* The cell being edited *)

Type == \E t \in TgTyped \cup {Null} :
    /\ InInput(tg) /\ t # tg.draft
    /\ Gives([tg EXCEPT !.draft = t, !.typedIn = tg.edit])

\* Where finishing a cell puts the highlight: the row below, the next or the previous cell.
FinishedAt(r, c, move) ==
    LET rows == Len(VisibleRows(tg)) cols == Len(DisplayFields(tg))
    IN CASE move = "stay" -> tg.range
         [] move = "down" -> At(Clamp(1, rows, r + 1), c)
         [] move = "next" -> IF c < cols THEN At(r, c + 1) ELSE At(Clamp(1, rows, r + 1), 1)
         [] move = "previous" -> IF c > 1 THEN At(r, c - 1) ELSE At(Clamp(1, rows, r - 1), cols)

\* Enter, Tab, Shift+Tab or leaving the input: the text is committed to the cell.
Finish ==
    /\ InInput(tg)
    /\ \E move \in {"down", "next", "previous", "stay"} :
          Gives([tg EXCEPT !.data[tg.edit[1]][tg.edit[2]] = tg.draft, !.edit = NoCell,
                           !.range = FinishedAt(Place(Shown(tg), tg.edit[1]),
                                                Place(DisplayFields(tg), tg.edit[2]), move)])

Cancel == InInput(tg) /\ Gives([tg EXCEPT !.edit = NoCell])

\* A choice in the menu of a cell, which goes on being edited.
Choose ==
    /\ EditOnPage(tg) /\ ~InInput(tg)
    /\ \E t \in TgTyped \cup {Null} : Gives([tg EXCEPT !.data[tg.edit[1]][tg.edit[2]] = t])

CellEditing == Type \/ Finish \/ Cancel \/ Choose

(* Selected rows *)

\* A mutant: the last row of the span is left out.
SpannedShort(g, a, c) ==
    [g EXCEPT !.selected = Range(SubSeq(RowItems(g), Min({a, c}), Max({a, c}) - 1)),
              !.anchor = a, !.cursor = c]

\* The loaded rows from a to c, as numbered on the page.
Spanned(g, a, c) ==
    [g EXCEPT !.selected = Range(SubSeq(RowItems(g), Min({a, c}), Min({Max({a, c}), Len(RowItems(g))}))),
              !.anchor = a, !.cursor = c]

Toggled(S, x) == IF x \in S THEN S \ {x} ELSE S \cup {x}

RowClick ==
    \E i \in 1..Len(Shown(tg)), shift \in BOOLEAN :
        IF shift /\ tg.anchor # 0 THEN Gives([Spanned(tg, tg.anchor, i) EXCEPT !.spans = TRUE])
        ELSE Gives([tg EXCEPT !.selected = Toggled(@, Shown(tg)[i]), !.anchor = i, !.cursor = i,
                              !.first = Shown(tg)[i], !.spans = FALSE])

\* Ctrl+Shift+Down and Up.
ExtendKey ==
    \E d \in {1, -1} :
        LET a == IF tg.anchor = 0 THEN 1 ELSE tg.anchor
            from == IF tg.cursor = 0 THEN a ELSE tg.cursor
        IN /\ tg.loaded # {}
           /\ Gives([Spanned(tg, a, Clamp(1, Len(RowItems(tg)), from + d)) EXCEPT
                       !.spans = TRUE, !.first = IF tg.anchor = 0 THEN RowItems(tg)[1] ELSE @])

SelectAll == \E S \in {{}, tg.loaded} :
                tg.selected # S /\ Gives([tg EXCEPT !.selected = S, !.spans = FALSE])

Selecting == RowClick \/ ExtendKey \/ SelectAll

-------------------------------------------------------------------------------
(* The rows and columns change *)

\* The numbers of the anchor and the cursor stay, whatever is there now.
Rearranged(g) == [g EXCEPT !.first = NoRow, !.spans = FALSE]

Arrange == \E a \in TgArrangements \ {tg.arr} : Gives(Rearranged([tg EXCEPT !.arr = a]))

CollapseRows ==
    /\ tg.arr.mode = "groups"
    /\ \E r \in Range(VisibleRows(tg)) : Gives([tg EXCEPT !.collapsed = Toggled(@, TgGroup[r])])

ToggleExpand ==
    /\ tg.arr.mode = "tree"
    /\ \E r \in Range(Shown(tg)) : ChildrenOf(tg, r) # <<>> /\ Gives([tg EXCEPT !.expanded = Toggled(@, r)])

MoreChildren ==
    /\ tg.arr.mode = "tree"
    /\ \E r \in Range(Shown(tg)) \cap tg.expanded :
          /\ Len(ChildrenOf(tg, r)) > ChildWindow(tg, r)
          /\ Gives([tg EXCEPT !.windows = (r :> (ChildWindow(tg, r) + TgChildPage)) @@ @])

HideField == \E f \in Range(TgFields) : Gives([tg EXCEPT !.hidden = Toggled(@, f)])

\* The new row's title is edited, on the page or not.
NewRow ==
    /\ TgNew \notin tg.loaded \cup tg.gone
    /\ \E f \in {h \in Range(TgFields) : TgKind[h] = "text"} :
          Gives(Rearranged([tg EXCEPT !.loaded = @ \cup {TgNew}, !.edit = Cell(TgNew, f)]))

\* The row leaves the page, not the selection.
RemoveRow == \E r \in Range(Shown(tg)) :
    Gives(Rearranged([tg EXCEPT !.loaded = @ \ {r}, !.gone = @ \cup {r}]))

Changing == Arrange \/ CollapseRows \/ ToggleExpand \/ MoreChildren \/ HideField
              \/ NewRow \/ RemoveRow

-------------------------------------------------------------------------------
TgInit ==
    \E a \in TgArrangements :
        tg = [loaded |-> Range(TgRows) \ {TgNew}, gone |-> {}, arr |-> a, collapsed |-> {},
              expanded |-> {}, windows |-> <<>>, hidden |-> {},
              data |-> [r \in Range(TgRows) |-> [f \in Range(TgFields) |-> Null]],
              edit |-> NoCell, draft |-> NoDraft, typedIn |-> NoCell,
              range |-> NoRange, dragging |-> FALSE, again |-> FALSE, copied |-> {},
              selected |-> {}, anchor |-> 0, cursor |-> 0, first |-> NoRow, spans |-> FALSE,
              ops |-> TgOps]

TgNext == tg.ops > 0 /\ (Mouse \/ GridKeys \/ CellEditing \/ Selecting \/ Changing)

TgSpec == TgInit /\ [][TgNext]_tg

-------------------------------------------------------------------------------
(* Properties *)

OnGrid == tg # Closed /\ tg' # Closed

\* What is typed into a cell is written to that cell or nowhere, whatever else is clicked,
\* sorted, grouped, hidden, added or deleted before the input is left (commitCell and
\* the key of CellEditor).
TypedStaysInCell ==
    [][OnGrid => \A r \in Range(TgRows), f \in Range(TgFields) :
          (TgKind[f] = "text" /\ tg.data[r][f] # tg'.data[r][f])
              => tg.typedIn = Cell(r, f) /\ tg'.data[r][f] = tg.draft]_tg

\* In a flat arrangement the keys stay with what is highlighted: a step lands on a cell
\* of the page, and Enter edits the highlighted cell, also after rows left the page
\* (the grid's onKey).
KeysFollowHighlight ==
    [][(OnGrid /\ tg.arr.mode = "flat" /\ Shown(tg) # <<>> /\ DisplayFields(tg) # <<>>) =>
          /\ StepKey => /\ tg'.range.r2 \in DOMAIN Shown(tg')
                        /\ tg'.range.c2 \in DOMAIN DisplayFields(tg')
          /\ EnterKey => HighlightedIn(tg', Place(Shown(tg'), tg'.edit[1]),
                                            Place(DisplayFields(tg'), tg'.edit[2]))]_tg

\* As long as the rows stay as they are, and are shown unsorted, unfiltered and ungrouped,
\* Shift-click and Ctrl+Shift with an arrow select the rows from the one clicked first to
\* the one reached, and nothing else (handleRowClick).
SelectionSpansRows ==
    (tg # Closed /\ tg.spans /\ tg.first # NoRow /\ tg.arr = [order |-> TgRows, mode |-> "flat"]) =>
        LET rows == Shown(tg)
            i == Place(rows, tg.first)
            j == tg.cursor
        IN tg.selected = {rows[k] : k \in Min({i, j})..Max({i, j})}

===============================================================================
