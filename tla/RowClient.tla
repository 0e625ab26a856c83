-------------------------------- MODULE RowClient --------------------------------
(* The rows a Table view has loaded and the requests that change them: the pages  *)
(* of POST /rows/query it fetches one after the other, the mutations of           *)
(* table-view.tsx, their handlers in api/engine.py, and what each answer does to   *)
(* the pages kept.                                                                 *)
(*                                                                                 *)
(* A row is its place in the order, its number (seq) and an id of its own; what is  *)
(* in its cells is TableGrid's.  A creation reads the highest number in one step    *)
(* and inserts in another: nothing keeps two of them from reading the same one.     *)
EXTENDS Screen, Integers, Sequences, SequencesExt, FiniteSets, FiniteSetsExt

CONSTANTS
    RcStart,      \* how many rows there are at first
    RcPageSize,   \* rows of a page
    RcBulk,       \* how many rows "Bulk" adds
    RcPending,    \* bound on requests under way
    RcOps         \* bound on what the user does

ASSUME RcAssumption == {RcStart, RcPageSize, RcBulk} \subseteq Nat \ {0}

VARIABLE rc

-------------------------------------------------------------------------------
(* The server *)

\* ORDER BY order, seq: rows that tie come in any order, in every query anew.
ListedBefore(a, b) == a.order < b.order \/ (a.order = b.order /\ a.seq < b.seq)

\* The rows a sort can put at place i.
AtPlace(rows, i) ==
    {r \in rows : /\ Cardinality({q \in rows : ListedBefore(q, r)}) < i
                  /\ i <= Cardinality({q \in rows : ~ListedBefore(r, q)})}

MaxSeq(rows) == Max({0} \cup {r.seq : r \in rows})

\* Numbers are the successors of the highest one read: those of rows deleted from the end
\* come again, and so do those given out since it was read.
Added(s, top, n) ==
    [s EXCEPT !.rows = @ \cup {[id |-> s.made + k, seq |-> top + k, order |-> top + k] : k \in 1..n},
              !.made = @ + n]

Without(rows, ids) == {r \in rows : r.id \notin ids}

\* Rows that are not named keep their places.
Reordered(rows, ids) ==
    {IF r.id \in Range(ids) THEN [r EXCEPT !.order = (CHOOSE i \in DOMAIN ids : ids[i] = r.id) - 1]
     ELSE r : r \in rows}

PageCount(total) == (total + RcPageSize - 1) \div RcPageSize

\* The slices of n rows, from a place on, of all the ways the rows can be sorted.
Slices(rows, from, n) ==
    LET at == [i \in 1..n |-> AtPlace(rows, from + i)]
    IN {f \in [1..n -> rows] : IsInjective(f) /\ \A i \in 1..n : f[i] \in at[i]}

\* What page n can be.
Queried(rows, n) ==
    LET all == Cardinality(rows)
        from == (n - 1) * RcPageSize
        many == Max({0, Min({all, n * RcPageSize}) - from})
    IN {[items |-> [i \in 1..many |-> f[i].id], page |-> n, total |-> all, pages |-> PageCount(all)] :
          f \in Slices(rows, from, many)}

-------------------------------------------------------------------------------
(* The pages kept, and those being fetched *)

\* Nothing is fetched.
NoFetch == [want |-> 0, old |-> <<>>, got |-> <<>>, whole |-> FALSE]
Loading == rc.fetch # NoFetch

ItemsOf(pages) == FlattenSeq([i \in DOMAIN pages |-> pages[i].items])
LoadedRows == ItemsOf(rc.pages)
HasNext(pages) == Last(pages).page < Last(pages).pages

\* The pages are not, or may not be, what the server has, until they are fetched anew.
Torn(s) == [s EXCEPT !.torn = TRUE, !.fetch.whole = FALSE]

\* What is invalidated is fetched again from the first page on, as many as there are; a
\* fetch under way is given up for it, but not the first one.
RowsInvalidated(s) ==
    IF s.pages = <<>> THEN Torn(s)
    ELSE [s EXCEPT !.fetch = [want |-> Len(s.pages), old |-> <<>>, got |-> <<>>, whole |-> TRUE]]

\* A mutant: a row that was created is put at the end of what is loaded.
AppendedHere(s) ==
    IF s.pages = <<>> THEN s ELSE [s EXCEPT !.pages[Len(s.pages)].items = Append(@, s.made)]

RowsCreated(s) == RowsInvalidated(s)

\* After a deletion the row is taken from the pages, and the total is one less: nothing is
\* fetched again, and a fetch under way is not looked at.
RowRemoved(s, id) ==
    LET Smaller(p) == [items |-> SelectSeq(p.items, LAMBDA r : r # id), page |-> p.page,
                       total |-> Max({0, p.total - 1}), pages |-> PageCount(Max({0, p.total - 1}))]
    IN [Torn(s) EXCEPT !.pages = [i \in DOMAIN @ |-> Smaller(@[i])],
                       !.gone = @ \cup {id}]

-------------------------------------------------------------------------------
(* Fetching *)

\* A page in addition to those there are.  It gives up a fetch under way, and with it what
\* that one was for.
FetchNextPage ==
    /\ rc.pages # <<>> /\ rc.ops > 0 /\ HasNext(rc.pages)
    /\ rc.fetch.old = <<>>
    /\ rc' = [rc EXCEPT !.ops = @ - 1, !.torn = @ \/ Loading,
                        !.fetch = [want |-> 1, old |-> rc.pages, got |-> <<>>, whole |-> FALSE]]

Complete(f) == f.got # <<>> /\ (Len(f.got) = f.want \/ ~HasNext(f.got))

QueryPage ==
    /\ Loading /\ ~Complete(rc.fetch)
    /\ LET f == rc.fetch
           so == f.old \o f.got
           n == IF so = <<>> THEN 1 ELSE Last(so).page + 1
       IN \E page \in Queried(rc.rows, n) : rc' = [rc EXCEPT !.fetch.got = Append(@, page)]

PagesArrive ==
    /\ Loading /\ Complete(rc.fetch)
    /\ rc' = [rc EXCEPT !.pages = rc.fetch.old \o rc.fetch.got, !.fetch = NoFetch,
                        !.torn = @ /\ ~rc.fetch.whole]

\* Back in the window, rows that are old are fetched again.
RefetchRows == /\ rc.pages # <<>> /\ ~Loading /\ rc.ops > 0
           /\ rc' = [RowsInvalidated(rc) EXCEPT !.ops = @ - 1]

Fetching == FetchNextPage \/ QueryPage \/ PagesArrive \/ RefetchRows

-------------------------------------------------------------------------------
(* What the user does *)

Sends(do, ids) ==
    /\ rc.ops > 0 /\ Cardinality(rc.net) < RcPending
    /\ rc' = [rc EXCEPT !.ops = @ - 1, !.sent = @ + 1,
                        !.net = @ \cup {[nth |-> rc.sent + 1, do |-> do, ids |-> ids, row |-> ids[1],
                                         top |-> Null, failed |-> FALSE]}]

\* "New", N, and the row's "Add sub-item"; the key does not wait for the last answer.
CreateOne == Sends("create", <<Null>>)
BulkAdd == (\A m \in rc.net : m.do # "bulk") /\ Sends("bulk", <<Null>>)
DeleteOne == \E id \in Range(LoadedRows) : Sends("delete", <<id>>)

\* Rows stay selected when they are gone: those deleted on their own may be among them.
Selections == {ids \in SUBSET (Range(LoadedRows) \cup rc.gone) : Cardinality(ids) \in 1..2}
BulkDelete == \E ids \in Selections : Sends("deletes", SetToSeq(ids))
DuplicateRows == \E ids \in Selections : Sends("duplicate", SetToSeq(ids))

MoveBefore(ids, from, to) ==
    LET rest == SelectSeq(ids, LAMBDA x : x # from)
        place == CHOOSE i \in DOMAIN rest : rest[i] = to
    IN InsertAt(rest, place, from)

ReorderRows == \E from, to \in Range(LoadedRows) :
                  from # to /\ Sends("reorder", MoveBefore(LoadedRows, from, to))

RowUser == CreateOne \/ BulkAdd \/ DeleteOne \/ BulkDelete \/ DuplicateRows \/ ReorderRows

-------------------------------------------------------------------------------
(* The requests *)

Handled(m, s, rest, failed) ==
    rc' = [s EXCEPT !.net = (@ \ {m}) \cup {[m EXCEPT !.ids = rest, !.failed = failed, !.top = Null]}]

\* The highest number, read for a row that is inserted later.
ReadTop(m) ==
    /\ m.do \in {"create", "duplicate", "bulk"} /\ m.ids # <<>> /\ m.top = Null
    /\ rc' = [rc EXCEPT !.net = (@ \ {m}) \cup {[m EXCEPT !.top = MaxSeq(rc.rows)]}]

\* Copies are created one after the other, each with a request of its own.
CreateRow(m) ==
    /\ m.do \in {"create", "duplicate"} /\ m.ids # <<>> /\ m.top # Null
    /\ Handled(m, Added(rc, m.top, 1), Tail(m.ids), FALSE)

BulkCreateRows(m) ==
    /\ m.do = "bulk" /\ m.ids # <<>> /\ m.top # Null
    /\ Handled(m, Added(rc, m.top, RcBulk), <<>>, FALSE)

\* The deletions of a selection are sent together; one of a row that is gone fails.
DeleteRows(m) ==
    /\ m.do \in {"delete", "deletes"} /\ m.ids # <<>>
    /\ \E i \in DOMAIN m.ids :
          Handled(m, [rc EXCEPT !.rows = Without(@, {m.ids[i]})], RemoveAt(m.ids, i),
                  m.failed \/ \A r \in rc.rows : r.id # m.ids[i])

ReorderHandled(m) ==
    /\ m.do = "reorder" /\ m.ids # <<>>
    /\ Handled(m, [rc EXCEPT !.rows = Reordered(@, m.ids)], <<>>, FALSE)

\* An answer; one that failed changes nothing on the page, whatever was done.
RowsAnswered(m) ==
    /\ m.ids = <<>>
    /\ LET got == [rc EXCEPT !.net = @ \ {m}]
       IN rc' = CASE m.failed -> Torn(got)
                  [] ~m.failed /\ m.do \in {"create", "bulk", "duplicate"} -> RowsCreated(got)
                  [] ~m.failed /\ m.do = "delete" -> RowRemoved(got, m.row)
                  [] OTHER -> RowsInvalidated(got)

RowRequest(m) ==
    ReadTop(m) \/ CreateRow(m) \/ BulkCreateRows(m) \/ DeleteRows(m) \/ ReorderHandled(m) \/ RowsAnswered(m)

-------------------------------------------------------------------------------
\* The first page is on its way.
RcInit == rc = [rows |-> {[id |-> k, seq |-> k, order |-> k] : k \in 1..RcStart}, made |-> RcStart,
                pages |-> <<>>, fetch |-> [want |-> 1, old |-> <<>>, got |-> <<>>, whole |-> TRUE],
                net |-> {}, sent |-> 0, gone |-> {}, torn |-> FALSE, ops |-> RcOps]

RcNext == RowUser \/ Fetching \/ \E m \in rc.net : RowRequest(m)

RcSpec == RcInit /\ [][RcNext]_rc

-------------------------------------------------------------------------------
(* Properties *)

\* With nothing under way and no more to load, the table has as many rows as there are, and
\* in each place one that belongs there by the server's order: every row that ties with no
\* other once and in its place, however creations, deletions, moves and the loading of pages
\* overlapped.  Rows that tie (created at once, they got the same numbers) can be skipped or
\* repeated where a page ends between them: rowsQ asks for each page with a query of its own.
\* Excepted is a table in which a row was deleted on its own, a deletion failed, a request was
\* answered before the first page was there, or "Load more" gave up a refetch, and the rows
\* were not fetched anew since (invalidate).
QuietTableIsComplete ==
    (rc # Closed /\ rc.net = {} /\ ~Loading /\ ~rc.torn /\ ~HasNext(rc.pages))
       => /\ Len(LoadedRows) = Cardinality(rc.rows)
          /\ \A i \in DOMAIN LoadedRows : \E r \in AtPlace(rc.rows, i) : r.id = LoadedRows[i]

===============================================================================
