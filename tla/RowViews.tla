------------------------------- MODULE RowViews -------------------------------
(* The rows of a database as List, Gallery and Board show them: filter tree,   *)
(* sorts, groups, search, board columns, and what the user does to them from    *)
(* the toolbar, the column menu, the search bar and the cards.                  *)
(*                                                                              *)
(* One tab, whose requests are answered before the user goes on: RowClient is   *)
(* about requests that overlap.  A text is a sequence of letters, numbers up to  *)
(* case; a choice of a select field is a number with a label.                    *)
EXTENDS Screen, Arrays, Integers, Sequences, FiniteSets, SequencesExt, TLC

CONSTANTS
    RvRows,       \* ids a row can get, in the order they are given out
    RvFields,     \* the columns, in order; the first text is the title
    RvKind,       \* column -> text, select, number, checkbox or tags
    RvLabel,      \* choice -> label
    RvTables,     \* what the database can hold at first: a sequence of rows' cells
    RvSaved,      \* what the stored settings of views set
    RvTexts,      \* texts users type
    RvLimit,      \* rows per page
    RvOps         \* bound on what the user does

\* What the cells of a column can hold.
CellsOf(f) ==
    {Null} \cup CASE RvKind[f] = "text" -> Seq(Nat) [] RvKind[f] = "number" -> Int
                  [] RvKind[f] = "checkbox" -> BOOLEAN [] RvKind[f] = "select" -> Nat
                  [] RvKind[f] = "tags" -> Seq(DOMAIN RvLabel)

ASSUME RvAssumption ==
    /\ RvRows \in Seq(Range(RvRows)) /\ IsInjective(RvRows)
    /\ RvFields \in Seq(Range(RvFields)) /\ IsInjective(RvFields)
    /\ DOMAIN RvKind = Range(RvFields)
    /\ Range(RvKind) \subseteq {"text", "select", "number", "checkbox", "tags"}
    /\ \A c \in DOMAIN RvLabel : c \in Nat /\ RvLabel[c] \in Seq(Nat)
    /\ \A cells \in RvTables :
          /\ cells \in Seq(Range(cells)) /\ Len(cells) <= Len(RvRows)
          /\ \A row \in Range(cells) : /\ DOMAIN row = Range(RvFields)
                                      /\ \A f \in Range(RvFields) : row[f] \in CellsOf(f)
    /\ \A saved \in RvSaved : "kind" \in DOMAIN saved /\ DOMAIN saved \subseteq {"kind", "board", "sub"}
    /\ RvTexts \subseteq Seq(Nat) /\ RvLimit \in Nat \ {0}

VARIABLE rv

ChoiceIds == DOMAIN RvLabel

\* The columns there are; a view is any record like rv.
Live(v) == Kept(RvFields, v.fields)
Titles(v) == Kept(Live(v), {f \in v.fields : RvKind[f] = "text"})

-------------------------------------------------------------------------------
(* lib/view.ts: cells as text, and their emptiness *)

Joined(ids) ==
    LET joined[i \in 0..Len(ids)] ==
          IF i = 0 THEN <<>>
          ELSE joined[i - 1] \o (IF i = 1 THEN <<>> ELSE <<0>>) \o RvLabel[ids[i]]
    IN joined[Len(ids)]

ToText(f, v) ==
    IF v = Null THEN <<>>
    ELSE CASE RvKind[f] = "text" -> v
           [] RvKind[f] = "number" -> <<v>>
           [] RvKind[f] = "checkbox" -> IF v THEN <<99>> ELSE <<>>
           [] RvKind[f] = "select" -> IF v \in ChoiceIds THEN RvLabel[v] ELSE <<v>>
           [] RvKind[f] = "tags" -> Joined(v)

IsEmpty(f, v) == v = Null \/ (RvKind[f] \in {"text", "tags"} /\ v = <<>>)

\* An empty cell counts as the number 0, and so does an empty filter value.
ToNum(v) == IF v = Null THEN 0 ELSE v
Number(t) == IF t = <<>> THEN 0 ELSE t[1]
Names(ids) == {<<i>> : i \in Range(ids)}

Includes(s, t) == \E i \in 0..(Len(s) - Len(t)) : SubSeq(s, i + 1, i + Len(t)) = t

-------------------------------------------------------------------------------
(* Filters *)

OperatorsFor ==
    [text     |-> <<"equals", "not_equals", "contains", "not_contains", "starts_with",
                    "ends_with", "empty", "not_empty">>,
     number   |-> <<"eq", "ne", "gt", "lt", "empty", "not_empty">>,
     select   |-> <<"is", "is_not", "empty", "not_empty">>,
     checkbox |-> <<"checked", "unchecked">>,
     tags     |-> <<"contains", "not_contains", "empty", "not_empty">>]

Has(f, v, t) ==
    IF RvKind[f] = "tags" THEN IF v = Null THEN t = <<>> ELSE t \in Names(v)
    ELSE Includes(ToText(f, v), t)

\* A mutant: an empty list of tags is no list.
LacksInList(f, v, t) ==
    IF RvKind[f] = "tags" THEN v # Null /\ t \notin Names(v) ELSE ~Includes(ToText(f, v), t)

Lacks(f, v, t) ==
    IF RvKind[f] = "tags" THEN IF v = Null THEN t # <<>> ELSE t \notin Names(v)
    ELSE ~Includes(ToText(f, v), t)

Matches(f, v, op, t) ==
    CASE op = "empty" -> IsEmpty(f, v)
      [] op = "not_empty" -> ~IsEmpty(f, v)
      [] op = "checked" -> v = TRUE
      [] op = "unchecked" -> ~(v = TRUE)
      [] op = "is" -> <<v>> = t
      [] op = "is_not" -> <<v>> # t
      [] op = "contains" -> Has(f, v, t)
      [] op = "not_contains" -> Lacks(f, v, t)
      [] op = "equals" -> ToText(f, v) = t
      [] op = "not_equals" -> ToText(f, v) # t
      [] op = "starts_with" -> IsPrefix(t, ToText(f, v))
      [] op = "ends_with" -> IsSuffix(t, ToText(f, v))
      [] op = "eq" -> ToNum(v) = Number(t)
      [] op = "ne" -> ToNum(v) # Number(t)
      [] op = "gt" -> ToNum(v) > Number(t)
      [] op = "lt" -> ToNum(v) < Number(t)

IsGroup(n) == "rules" \in DOMAIN n

\* Rules without a column, or whose column is gone, do not count; a group in a group
\* counts when it has rules at all.
RuleHolds(v, r, c) == Matches(c.field, v.data[r][c.field], c.op, c.value)
Counts(v, n) == IF IsGroup(n) THEN n.rules # <<>> ELSE n.field \in v.fields

Combined(conj, S, holding) ==
    S # {} => IF conj = "and" THEN S \subseteq holding ELSE S \cap holding # {}

Active(v, g) == {n \in Range(g.rules) : Counts(v, n)}

MatchNode(v, r, n) ==
    IF IsGroup(n) THEN Combined(n.conj, Active(v, n), {c \in Active(v, n) : RuleHolds(v, r, c)})
    ELSE RuleHolds(v, r, n)

ApplyFilterTree(v, rows) ==
    LET rules == Active(v, v.filter)
    IN Kept(rows, {r \in Range(rows) :
                     Combined(v.filter.conj, rules, {n \in rules : MatchNode(v, r, n)})})

-------------------------------------------------------------------------------
(* Sorts and groups *)

\* localeCompare: alphabetic, a prefix first.
Before(s, t) ==
    \E i \in 1..Len(t) : /\ \A j \in 1..(i - 1) : j <= Len(s) /\ s[j] = t[j]
                         /\ i > Len(s) \/ s[i] < t[i]

Below(f, a, b) == IF RvKind[f] = "number" THEN a < b ELSE Before(ToText(f, a), ToText(f, b))

\* Empty values go last in both directions.
Ahead(s, a, b) ==
    /\ ~IsEmpty(s.field, a)
    /\ \/ IsEmpty(s.field, b)
       \/ IF s.dir = "asc" THEN Below(s.field, a, b) ELSE Below(s.field, b, a)

\* By the first sort that tells them apart; one without a column, or whose column is
\* gone, does not count.
Precedes(v, r, q) ==
    LET Leads(i, x, y) == LET s == v.sorts[i]
                          IN s.field \in v.fields /\ Ahead(s, v.data[x][s.field], v.data[y][s.field])
    IN \E i \in DOMAIN v.sorts :
          Leads(i, r, q) /\ \A j \in 1..(i - 1) : ~Leads(j, q, r) /\ ~Leads(j, r, q)

IndexIn(s, x) == CHOOSE i \in DOMAIN s : s[i] = x

ApplySorts(v, rows) ==
    Sorted(rows, {p \in Range(rows) \X Range(rows) : Precedes(v, p[1], p[2])})

\* The groups, by label, in the order of their first rows; "Empty" has the empty label.
GroupRows(v, rows) ==
    LET Key(r) == ToText(v.group, v.data[r][v.group])
        firsts == Kept(rows, {r \in Range(rows) :
                                \A i \in 1..(IndexIn(rows, r) - 1) : Key(rows[i]) # Key(r)})
    IN [i \in DOMAIN firsts |->
          [key |-> Key(firsts[i]), rows |-> Kept(rows, {r \in Range(rows) : Key(r) = Key(firsts[i])})]]

-------------------------------------------------------------------------------
(* Search *)

SearchFields(v) == IF v.scope \in v.fields THEN {v.scope} ELSE v.fields

\* 0 for the whole cell, 1 for its beginning, 2 for a part, 3 for none.
Rank(v, text) ==
    CASE text = v.query -> 0
      [] text # v.query /\ IsPrefix(v.query, text) -> 1
      [] ~IsPrefix(v.query, text) /\ Includes(text, v.query) -> 2
      [] OTHER -> 3

BestRank(v, r) == Min({Rank(v, ToText(f, v.data[r][f])) : f \in SearchFields(v)})

MatchedIds(v) == IF v.query = <<>> THEN {} ELSE {r \in Range(v.rows) : BestRank(v, r) < 3}

\* The texts the open search bar suggests.
Suggestions(v) == {ToText(f, v.data[r][f]) : f \in SearchFields(v), r \in MatchedIds(v)} \ {<<>>, v.query}

\* The rows of a view: filtered, sorted, and on demand only those found.
Visible(v) ==
    Kept(ApplySorts(v, ApplyFilterTree(v, v.rows)),
         IF v.only /\ v.query # <<>> THEN MatchedIds(v) ELSE Range(v.rows))

\* What List and Gallery put on the page.
Listed(v) ==
    IF v.group \in v.fields
    THEN UNION {Range(g.rows) : g \in {h \in Range(GroupRows(v, Visible(v))) :
                  /\ h.key \notin v.collapsed /\ ~(v.hideEmpty /\ h.key = <<>>)}}
    ELSE Range(SubSeq(Visible(v), 1, Min({Len(Visible(v)), RvLimit * (v.pages + 1)})))

-------------------------------------------------------------------------------
(* Board: columns, swimlanes and cards *)

None == [key |-> <<"none">>, value |-> Null]

ColumnsFor(v, f) ==
    LET filled == Kept(Visible(v), {r \in Range(Visible(v)) : ~IsEmpty(f, v.data[r][f])})
        Text(r) == ToText(f, v.data[r][f])
        texts == {Text(r) : r \in Range(filled)}
        First(t) == v.data[Kept(filled, {r \in Range(filled) : Text(r) = t})[1]][f]
    IN CASE RvKind[f] = "select" -> {None} \cup {[key |-> <<"is", c>>, value |-> c] : c \in ChoiceIds}
         [] RvKind[f] = "checkbox" -> {[key |-> <<"checked", b>>, value |-> b] : b \in BOOLEAN}
         [] OTHER -> {None} \cup {[key |-> <<"as", t>>, value |-> First(t)] : t \in texts}

InColumn(v, f, r, col) ==
    LET cell == v.data[r][f]
    IN IF RvKind[f] = "checkbox" THEN (cell = TRUE) = (col.value = TRUE)
       ELSE IF col.value = Null THEN IsEmpty(f, cell)
       ELSE cell = col.value \/ ToText(f, cell) = ToText(f, col.value)

BoardField(v) ==
    IF v.board # NoField THEN v.board
    ELSE IF \E f \in v.fields : RvKind[f] = "select"
    THEN Live(v)[Min({i \in DOMAIN Live(v) : RvKind[Live(v)[i]] = "select"})] ELSE NoField

NoLane == [key |-> <<>>, value |-> Null]
SubField(v) == IF v.sub \in v.fields THEN v.sub ELSE NoField
Lanes(v) == IF SubField(v) = NoField THEN {NoLane} ELSE ColumnsFor(v, SubField(v))

CardsIn(v, col, lane) ==
    Kept(Visible(v), {r \in Range(Visible(v)) :
                        /\ InColumn(v, BoardField(v), r, col)
                        /\ SubField(v) # NoField => InColumn(v, SubField(v), r, lane)})

PageKey(col, lane) == <<lane.key, col.key>>
PagesOf(v, k) == IF k \in DOMAIN v.cards THEN v.cards[k] ELSE 0

ShownIn(v, col, lane) ==
    LET cards == CardsIn(v, col, lane)
    IN SubSeq(cards, 1, Min({Len(cards), RvLimit * (PagesOf(v, PageKey(col, lane)) + 1)}))

Settable(f) == RvKind[f] # "tags"

\* The cell that puts a row in a column.
ColumnCell(f, col) == IF Settable(f) THEN Put(<<>>, f, col.value) ELSE <<>>

\* The cells a card takes on in a column: the swimlane's is written last.
Placement(v, col, lane) ==
    LET inColumn == ColumnCell(BoardField(v), col)
    IN IF SubField(v) # NoField /\ Settable(SubField(v)) THEN Put(inColumn, SubField(v), lane.value)
       ELSE inColumn

-------------------------------------------------------------------------------
(* Actions *)

\* A user's operation.
Does(new) == rv' = [new EXCEPT !.ops = @ - 1]

NewRule(f) == [field |-> f, op |-> OperatorsFor[RvKind[f]][1], value |-> <<>>]

NoRule == [field |-> NoField, op |-> "contains", value |-> <<>>]

Targets(f) == CASE RvKind[f] = "text" -> RvTexts [] RvKind[f] = "number" -> {<<1>>, <<2>>}
                [] RvKind[f] = "checkbox" -> {} [] OTHER -> {<<c>> : c \in ChoiceIds}

\* A rule after a change of its column, operator or value.
RuleEdits(c) ==
    {NewRule(f) : f \in rv.fields}
    \cup {NoRule}
    \cup IF c.field \notin rv.fields THEN {}
         ELSE {[c EXCEPT !.op = o] : o \in Range(OperatorsFor[RvKind[c.field]])}
              \cup {[c EXCEPT !.value = t] :
                      t \in IF c.op \in {"empty", "not_empty"} THEN {} ELSE Targets(c.field)}

\* A group after one change in it: a rule removed, edited or added, and the other
\* conjunction once there are two rules.
GroupEdits(g, edited) ==
    {[g EXCEPT !.rules = RemoveAt(@, i)] : i \in DOMAIN g.rules}
    \cup UNION {{[g EXCEPT !.rules[i] = n] : n \in edited[i]} : i \in DOMAIN g.rules}
    \cup {[g EXCEPT !.rules = Append(@, IF Live(rv) = <<>> THEN NoRule ELSE NewRule(Live(rv)[1]))]}
    \cup (IF Len(g.rules) < 2 THEN {} ELSE {[g EXCEPT !.conj = c] : c \in {"and", "or"}})

EmptyGroup == [conj |-> "and", rules |-> <<>>]

\* Only the outermost group takes other groups.
EditFilter ==
    LET InGroup(n) == GroupEdits(n, [i \in DOMAIN n.rules |-> RuleEdits(n.rules[i])])
        Edited(n) == IF IsGroup(n) THEN InGroup(n) ELSE RuleEdits(n)
        rules == rv.filter.rules
    IN \E g \in GroupEdits(rv.filter, [i \in DOMAIN rules |-> Edited(rules[i])])
                  \cup {[rv.filter EXCEPT !.rules = Append(@, EmptyGroup)]} :
          g # rv.filter /\ Does([rv EXCEPT !.filter = g])

FirstSort == [field |-> IF Live(rv) = <<>> THEN NoField ELSE Live(rv)[1], dir |-> "asc"]

SortEdits ==
    {Append(rv.sorts, FirstSort)}
    \cup {RemoveAt(rv.sorts, i) : i \in DOMAIN rv.sorts}
    \cup {[rv.sorts EXCEPT ![i].field = f] : i \in DOMAIN rv.sorts, f \in rv.fields \cup {NoField}}
    \cup {[rv.sorts EXCEPT ![i].dir = d] : i \in DOMAIN rv.sorts, d \in {"asc", "desc"}}

EditSorts == \E s \in SortEdits \ {rv.sorts} : Does([rv EXCEPT !.sorts = s])

\* On a board the group is the field of the columns.
EditGroup ==
    \/ \E f \in (rv.fields \cup {NoField}) \ {rv.group, rv.board} :
          Does(IF rv.kind = "board" THEN [rv EXCEPT !.board = f] ELSE [rv EXCEPT !.group = f])
    \/ rv.group # NoField /\ Does([rv EXCEPT !.hideEmpty = ~@])
    \/ \E f \in (rv.fields \cup {NoField}) \ {rv.sub} :
          rv.kind = "board" /\ Does([rv EXCEPT !.sub = f])

Toolbar == EditFilter \/ EditSorts \/ EditGroup

\* A mutant: the column menu replaces the other sorts.
SortByAlone(f, dir) == Does([rv EXCEPT !.sorts = <<[field |-> f, dir |-> dir]>>])

\* The column menu sorts by its column first, and by the others as before.
SortBy(f, dir) ==
    Does([rv EXCEPT !.sorts = <<[field |-> f, dir |-> dir]>>
                              \o Kept(@, {s \in Range(@) : s.field # f})])

DeleteColumn(f) == Does([rv EXCEPT !.fields = @ \ {f}])

ColumnMenu ==
    \E f \in rv.fields :
        \/ \E dir \in {"asc", "desc"} : SortBy(f, dir)
        \/ Does([rv EXCEPT !.group = IF @ = f THEN NoField ELSE f])
        \/ Does([rv EXCEPT !.filter.rules = Append(@, NewRule(f))])
        \/ DeleteColumn(f)

SearchBar ==
    \/ \E q \in (RvTexts \cup Suggestions(rv)) \ {rv.query} : Does([rv EXCEPT !.query = q])
    \/ \E f \in (rv.fields \cup {NoField}) \ {rv.scope} : Does([rv EXCEPT !.scope = f])
    \/ rv.query # <<>> /\ Does([rv EXCEPT !.only = ~@])

-------------------------------------------------------------------------------
(* List and Gallery *)

Free(v) == Kept(RvRows, Range(RvRows) \ (Range(v.rows) \cup v.gone))
Blank == [f \in Range(RvFields) |-> Null]

\* A committed title: its editor opens again, and the pages are counted from the rows.
CommitTitle ==
    \E r \in Listed(rv), t \in RvTexts \cup {Null} :
        /\ Titles(rv) # <<>>
        /\ Does([rv EXCEPT !.data[r][Titles(rv)[1]] = t, !.edit = r, !.pages = Len(rv.rows) \div RvLimit])

FinishTitle == rv.edit # NoRow /\ Does([rv EXCEPT !.edit = NoRow])

AddRow ==
    Free(rv) # <<>> /\ Does([rv EXCEPT !.rows = Append(@, Free(rv)[1]), !.data[Free(rv)[1]] = Blank])

DeleteRow ==
    \E r \in Listed(rv) : Does([rv EXCEPT !.rows = Kept(@, Range(@) \ {r}), !.gone = @ \cup {r}])

CollapseGroup ==
    /\ rv.group \in rv.fields
    /\ \E g \in Range(GroupRows(rv, Visible(rv))) :
          Does([rv EXCEPT !.collapsed = IF g.key \in @ THEN @ \ {g.key} ELSE @ \cup {g.key}])

LoadMore == /\ rv.group \notin rv.fields /\ RvLimit * (rv.pages + 1) < Len(Visible(rv))
            /\ Does([rv EXCEPT !.pages = @ + 1])

OnRows == CommitTitle \/ FinishTitle \/ AddRow \/ DeleteRow \/ CollapseGroup \/ LoadMore

List == rv.kind = "list" /\ OnRows
Gallery == rv.kind = "gallery" /\ OnRows

-------------------------------------------------------------------------------
(* Board *)

\* A mutant: the first page of the column is left as it is.
CardAddedInPlace(cells, k) ==
    /\ Free(rv) # <<>>
    /\ Does([rv EXCEPT !.rows = Append(@, Free(rv)[1]), !.data[Free(rv)[1]] = Merged(Blank, cells),
                       !.edit = Free(rv)[1]])

\* The card's title opens, on a column with pages enough for all the rows.
CardAdded(cells, k) ==
    /\ Free(rv) # <<>>
    /\ Does([rv EXCEPT !.rows = Append(@, Free(rv)[1]), !.data[Free(rv)[1]] = Merged(Blank, cells),
                       !.edit = Free(rv)[1],
                       !.cards = Put(@, k, (Len(rv.rows) + RvLimit) \div RvLimit)])

AddCard(col, lane) == CardAdded(Placement(rv, col, lane), PageKey(col, lane))

\* The N key adds to the first column, whatever the swimlanes.
AddCardByKey ==
    LET col == IF RvKind[BoardField(rv)] = "checkbox" THEN [key |-> <<"checked", TRUE>>, value |-> TRUE]
               ELSE None
    IN CardAdded(ColumnCell(BoardField(rv), col), PageKey(col, NoLane))

DragStart(col, lane) == \E r \in Range(ShownIn(rv, col, lane)) \ {rv.edit} :
                            rv.drag = NoRow /\ Does([rv EXCEPT !.drag = r])

\* A mutant: only the column's cell is written.
DropOnColumn(col, lane) ==
    /\ rv.drag # NoRow
    /\ Does([rv EXCEPT !.drag = NoRow,
                       !.data[rv.drag] = Merged(@, ColumnCell(BoardField(rv), col))])

DropOn(col, lane) ==
    /\ rv.drag # NoRow
    /\ Does([rv EXCEPT !.drag = NoRow, !.data[rv.drag] = Merged(@, Placement(rv, col, lane))])

LoadMoreCards(col, lane) ==
    /\ Len(ShownIn(rv, col, lane)) < Len(CardsIn(rv, col, lane))
    /\ Does([rv EXCEPT !.cards = Put(@, PageKey(col, lane), PagesOf(rv, PageKey(col, lane)) + 1)])

CommitCard(col, lane) == \E r \in Range(ShownIn(rv, col, lane)), t \in RvTexts \cup {Null} :
    Titles(rv) # <<>> /\ Does([rv EXCEPT !.data[r][Titles(rv)[1]] = t, !.edit = NoRow])

Board ==
    /\ rv.kind = "board" /\ BoardField(rv) \in rv.fields
    /\ \/ AddCardByKey
       \/ \E col \in ColumnsFor(rv, BoardField(rv)), lane \in Lanes(rv) :
             \/ AddCard(col, lane) \/ DragStart(col, lane) \/ DropOn(col, lane)
             \/ LoadMoreCards(col, lane) \/ CommitCard(col, lane)

-------------------------------------------------------------------------------
\* A view opens with the settings stored for it.
RvInit ==
    \E cells \in RvTables, saved \in RvSaved :
        rv = Merged(
             [rows |-> SubSeq(RvRows, 1, Len(cells)), gone |-> {}, ops |-> RvOps,
              data |-> [r \in Range(RvRows) |-> IF IndexIn(RvRows, r) > Len(cells) THEN Blank
                                                ELSE cells[IndexIn(RvRows, r)]],
              fields |-> Range(RvFields), filter |-> EmptyGroup, sorts |-> <<>>,
              group |-> NoField, hideEmpty |-> FALSE, collapsed |-> {}, pages |-> 0,
              query |-> <<>>, only |-> FALSE, scope |-> NoField,
              board |-> NoField, sub |-> NoField, cards |-> <<>>, drag |-> NoRow, edit |-> NoRow], saved)

RvNext == rv.ops > 0 /\ (Toolbar \/ ColumnMenu \/ SearchBar \/ List \/ Gallery \/ Board)

RvSpec == RvInit /\ [][RvNext]_rv

-------------------------------------------------------------------------------
(* Properties *)

Opposite == [equals |-> "not_equals", contains |-> "not_contains", empty |-> "not_empty",
             eq |-> "ne", is |-> "is_not", checked |-> "unchecked"]

\* An operator and its opposite split the rows: turning "is" into "is not" in the editor
\* shows exactly the rows that were left out, whatever is empty, gone or a list
\* (matchOne).
OppositesSplit ==
    rv # Closed =>
    \A f \in Range(RvFields), r \in Range(rv.rows) :
    \A op \in Range(OperatorsFor[RvKind[f]]) \cap DOMAIN Opposite, t \in {<<>>} \cup Targets(f) :
        LET v == rv.data[r][f]
        IN Matches(f, v, op, t) # Matches(f, v, Opposite[op], t)

SameCell(v, f, r, q) ==
    LET a == v.data[r][f] b == v.data[q][f]
    IN (IsEmpty(f, a) /\ IsEmpty(f, b)) \/ (~IsEmpty(f, a) /\ ~IsEmpty(f, b) /\ ToText(f, a) = ToText(f, b))

\* Sorting by a column from its menu puts the rows in the order of its cells, empty
\* ones last, and leaves rows with the same cell in the order they had (setSort,
\* applySorts).
SortingKeepsTies ==
    [][\A f \in (IF rv = Closed THEN {} ELSE rv.fields), dir \in {"asc", "desc"} :
         SortBy(f, dir) =>
            LET rows == Visible(rv)  sorted == Visible(rv')
            IN \A i, j \in DOMAIN rows :
                 i < j => /\ ~Ahead([field |-> f, dir |-> dir], rv.data[sorted[j]][f],
                                    rv.data[sorted[i]][f])
                          /\ SameCell(rv, f, sorted[i], sorted[j])
                               => IndexIn(rows, sorted[i]) < IndexIn(rows, sorted[j])]_rv

OnBoard == rv # Closed /\ rv.kind = "board" /\ BoardField(rv) \in rv.fields

\* The board can write its columns and swimlanes, and they are of two fields.
Writable(v) == /\ Settable(BoardField(v)) /\ BoardField(v) # SubField(v)
               /\ SubField(v) # NoField => Settable(SubField(v))

\* A card dropped on a column of a swimlane is a card of it from then on, when the board
\* can write both and they are different fields, unless the filter or the search
\* now leaves it out (dropOn, placement, matches).
DroppedCardLands ==
    [][OnBoard /\ rv.drag # NoRow /\ Writable(rv) =>
         \A col \in ColumnsFor(rv, BoardField(rv)), lane \in Lanes(rv) :
            DropOn(col, lane) =>
               (rv.drag \in Range(Visible(rv'))
                   => rv.drag \in Range(CardsIn(rv', col, lane)))]_rv

\* A card added in a column is on the page, with its title being edited, however many
\* cards the column has and wherever the sorts put it, unless the filter or the search
\* leaves it out (addCard.onSuccess).
NewCardInSight ==
    [][OnBoard /\ Writable(rv) /\ rv'.rows # rv.rows =>
         \A col \in ColumnsFor(rv, BoardField(rv)), lane \in Lanes(rv) :
            AddCard(col, lane) =>
               \A r \in Range(rv.rows') \ Range(rv.rows) :
                   r \in Range(Visible(rv')) => /\ r \in Range(ShownIn(rv', col, lane))
                                            /\ rv'.edit = r]_rv

===============================================================================
