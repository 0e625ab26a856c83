------------------------------- MODULE DateViews -------------------------------
(* Rows in time: the bars of the Gantt view and the tray of unscheduled rows,    *)
(* the calendar, and the picker of a date cell.                                  *)
(*                                                                               *)
(* Time runs in steps of DvDay a day, the snap of the Hour period, from the      *)
(* Monday 0 that also begins a month and a year; months have one length.  A date *)
(* is a day, with or without a time of that day.  Requests are answered before   *)
(* the user goes on.                                                             *)
EXTENDS Screen, Integers, Sequences, FiniteSets, SequencesExt

CONSTANTS
    DvDay, DvHour,             \* steps of a day and of an hour
    DvWeek, DvMonth, DvYear,   \* days of a week, days of a month, months of a year
    DvWeeks,                   \* weeks a page of the month mode shows
    DvRows, DvNew,             \* rows, and the one "New" creates
    DvFields, DvKind,          \* columns that can be an axis, in order: "date" or "created"
    DvCells,                   \* what the columns can hold at first
    DvPeriods,                 \* period -> [minor, major, window]; hour among them
    DvBlock,                   \* steps of a block set by a click in the Hour period
    DvTicks,                   \* most columns of a header
    DvNine, DvFive,            \* the times a picked start and end get
    DvLimit, DvNow, DvDays, DvMoves, DvTimes,   \* rows per page, today's step, and the
    DvOps                      \* bounds: days clicked, steps dragged, times set, operations

\* What a cell holds: a date, or a range of them.
DvDates == [day : Int, time : Int \cup {Null}]
DvValues == [start : DvDates, end : DvDates \cup {Null}]
InOrder(v) == v # Null /\ v.end # Null => v.start.day <= v.end.day
\* Both its ends have a time, or neither.
Alike(v) == v # Null /\ v.end # Null => (v.start.time = Null <=> v.end.time = Null)

DvUnits == {"hour", "day", "week", "biweek", "month", "quarter", "year"}

ASSUME DvAssumption ==
    /\ {DvDay, DvHour, DvWeek, DvMonth, DvYear, DvLimit, DvBlock, DvTicks} \subseteq Nat \ {0}
    /\ {DvNine, DvFive, DvNow, DvOps} \cup DvDays \cup DvMoves \cup DvTimes \subseteq Int
    /\ "hour" \in DOMAIN DvPeriods /\ "day" \in DOMAIN DvPeriods
    /\ \A p \in DOMAIN DvPeriods :
          /\ DvPeriods[p].window \in Nat
          /\ {DvPeriods[p].minor, DvPeriods[p].major} \subseteq DvUnits
    /\ \A f \in DOMAIN DvKind : DvKind[f] \in {"date", "created"}
    /\ DvFields \in Seq(Range(DvFields)) /\ DvFields # <<>>
    /\ DvRows \in Seq(Range(DvRows)) /\ DvNew \in Range(DvRows)
    /\ Null \notin DvDates \cup DvValues \cup Int
    /\ \A cells \in DvCells :
          /\ cells \in [Range(DvRows) -> [Range(DvFields) -> DvValues \cup {Null}]]
          /\ \A r \in Range(DvRows), f \in Range(DvFields) : InOrder(cells[r][f]) /\ Alike(cells[r][f])

VARIABLE dv

Least(S) == CHOOSE x \in S : \A y \in S : x <= y
Greatest(S) == CHOOSE x \in S : \A y \in S : y <= x

-------------------------------------------------------------------------------
(* Dates *)

Dated(t) == [day |-> t \div DvDay, time |-> Null]
Timed(t) == [day |-> t \div DvDay, time |-> t % DvDay]
Step(s) == s.day * DvDay + IF s.time = Null THEN 0 ELSE s.time
StartOfDay(t) == (t \div DvDay) * DvDay

NoSpan == [start |-> 0, end |-> -1, allDay |-> FALSE, hasEnd |-> FALSE]

\* dateSpan and parseEvent: an end before the start counts as the start.
Span(v) ==
    IF v = Null THEN NoSpan
    ELSE LET s == Step(v.start)
         IN [start |-> s, end |-> IF v.end = Null THEN s ELSE Greatest({s, Step(v.end)}),
             allDay |-> v.start.time = Null, hasEnd |-> v.end # Null]

\* The column of the axis: the one picked, or else the first.
Axis == IF dv.picked \in Range(DvFields) THEN dv.picked ELSE DvFields[1]
Movable == DvKind[Axis] = "date"
SpanOf(r) == Span(dv.data[r][Axis])
HasSpan(r) == SpanOf(r) # NoSpan

\* The rows come in the order of DvRows.
UpTo(r) == {DvRows[i] : i \in 1..(CHOOSE i \in DOMAIN DvRows : DvRows[i] = r)}

Acts(new) == dv' = [new EXCEPT !.ops = @ - 1]

Saves(new, r, v) == Acts([new EXCEPT !.data[r][Axis] = v])

-------------------------------------------------------------------------------
(* Gantt: the window of time and its columns *)

Unit(u) ==
    CASE u = "hour" -> DvHour [] u = "day" -> DvDay [] u = "week" -> DvWeek * DvDay
      [] u = "biweek" -> 2 * DvWeek * DvDay [] u = "month" -> DvMonth * DvDay
      [] u = "quarter" -> 3 * DvMonth * DvDay [] u = "year" -> DvYear * DvMonth * DvDay

\* Two weeks begin with any week.
AlignDown(t, u) == t - (t % Unit(IF u = "biweek" THEN "week" ELSE u))

\* The beginnings of the columns, DvTicks at most.
UnitTicks(from, to, u) ==
    LET first == AlignDown(from, u)
    IN {first + k * Unit(u) : k \in 0..Least({DvTicks, 1 + (to - first) \div Unit(u)}) - 1}

\* Dated rows a page at a time, undated ones in the tray.
DatedRows == {r \in dv.rows : HasSpan(r)}
Bars == {r \in DatedRows : Cardinality(UpTo(r) \cap DatedRows) <= DvLimit * (dv.pages + 1)}
Tray == dv.rows \ DatedRows

Period == DvPeriods[dv.period]
Margin == Greatest({3, (Period.window + 5) \div 10}) * DvDay

\* A mutant: nothing is left around the bars.
WindowUnpadded ==
    LET side == Period.window * DvDay
        spans == {SpanOf(r) : r \in Bars}
    IN [from |-> StartOfDay(Least({StartOfDay(DvNow) - (1 + dv.before) * side}
                                  \cup {s.start : s \in spans})),
        to |-> StartOfDay(Greatest({StartOfDay(DvNow) + (1 + dv.after) * side}
                                   \cup {s.end : s \in spans}))]

\* Around today, as often extended as asked for, and around the bars loaded.
Window ==
    LET side == Period.window * DvDay
        spans == {SpanOf(r) : r \in Bars}
    IN [from |-> StartOfDay(Least({StartOfDay(DvNow) - (1 + dv.before) * side}
                                  \cup {s.start : s \in spans})) - Margin,
        to |-> StartOfDay(Greatest({StartOfDay(DvNow) + (1 + dv.after) * side}
                                   \cup {s.end : s \in spans})) + Margin]

Extend == \/ Acts([dv EXCEPT !.before = @ + 1])
          \/ Acts([dv EXCEPT !.after = @ + 1])
LoadMoreBars == Bars # DatedRows /\ Acts([dv EXCEPT !.pages = @ + 1])

Controls == \/ \E p \in DOMAIN DvPeriods \ {dv.period} : Acts([dv EXCEPT !.period = p])
            \/ \E f \in Range(DvFields) \ {Axis} : Acts([dv EXCEPT !.picked = f])

AddBar == /\ DvNew \notin dv.rows
          /\ Acts([dv EXCEPT !.rows = @ \cup {DvNew}, !.edit = DvNew,
                             !.pages = Cardinality(dv.rows) \div DvLimit])

-------------------------------------------------------------------------------
(* Gantt: moving and resizing bars, and scheduling rows of the tray *)

Snap == IF dv.period = "hour" THEN 1 ELSE DvDay

ApplyDrag(mode, s, e, d) ==
    CASE mode = "move" -> [start |-> s + d, end |-> e + d]
      [] mode = "start" -> [start |-> Least({s + d, e}), end |-> e]
      [] mode = "end" -> [start |-> s, end |-> Greatest({e + d, s})]

\* A mutant: a bar without an end gets one from its right edge only.
DropBarShort ==
    /\ dv.drag # Closed
    /\ LET g == dv.drag
           to == ApplyDrag(g.mode, g.span.start, g.span.end, g.delta * Snap)
           useTime == dv.period = "hour" \/ ~g.span.allDay
           F(t) == IF useTime THEN Timed(t) ELSE Dated(t)
           keepEnd == g.mode = "end" \/ g.span.hasEnd
           up == [dv EXCEPT !.drag = Closed]
       IN IF g.delta = 0 THEN Acts(up)
          ELSE Saves(up, g.row, [start |-> F(to.start), end |-> IF keepEnd THEN F(to.end) ELSE Null])

\* What the bar was at the press is what is moved.
BeginDrag == \E r \in Bars, mode \in {"move", "start", "end"} :
    Movable /\ Acts([dv EXCEPT !.drag = [row |-> r, mode |-> mode, span |-> SpanOf(r), delta |-> 0]])
DragOn == \E d \in DvMoves \ {dv.drag.delta} : Acts([dv EXCEPT !.drag.delta = d])
\* What the bar let go writes: an edge gives a bar without an end one, unless it is closed.
Dropped ==
    LET g == dv.drag
        to == ApplyDrag(g.mode, g.span.start, g.span.end, g.delta * Snap)
        useTime == dv.period = "hour" \/ ~g.span.allDay
        F(t) == IF useTime THEN Timed(t) ELSE Dated(t)
        keepEnd == g.mode = "end" \/ g.span.hasEnd \/ to.end # to.start
    IN [start |-> F(to.start), end |-> IF keepEnd THEN F(to.end) ELSE Null]

DropBar ==
    /\ dv.drag # Closed
    /\ LET up == [dv EXCEPT !.drag = Closed]
       IN IF dv.drag.delta = 0 THEN Acts(up) ELSE Saves(up, dv.drag.row, Dropped)

\* The step of the tray under the pointer.
TrayStep(t) == IF dv.period = "hour" THEN t ELSE StartOfDay(t)

Scheduled(a, b) ==
    LET lo == Least({a, b})
        hi == Greatest({a, b})
    IN IF dv.period = "hour"
       THEN [start |-> Timed(lo), end |-> Timed(IF lo = hi THEN lo + DvBlock ELSE hi)]
       ELSE [start |-> Dated(lo), end |-> IF lo = hi THEN Null ELSE Dated(hi)]

TraySteps == {d * DvDay + k : d \in DvDays, k \in 0..(DvDay - 1)}

TrayDown == \E r \in Tray, t \in TraySteps :
    Movable /\ \E u \in {t, t + 1, t + DvDay} : Saves(dv, r, Scheduled(TrayStep(t), TrayStep(u)))

Gantt ==
    /\ dv.mode = "gantt"
    /\ IF dv.drag # Closed THEN DragOn \/ DropBar
       ELSE Extend \/ LoadMoreBars \/ Controls \/ AddBar \/ BeginDrag \/ TrayDown

-------------------------------------------------------------------------------
(* Calendar *)

Monday(d) == d - (d % DvWeek)
FirstOfMonth(d) == d - (d % DvMonth)

\* The days of the page.
DaysShown ==
    CASE dv.cal = "day" -> {dv.anchor}
      [] dv.cal = "4days" -> dv.anchor..(dv.anchor + 3)
      [] dv.cal = "week" -> Monday(dv.anchor)..(Monday(dv.anchor) + DvWeek - 1)
      [] dv.cal = "month" -> LET first == Monday(FirstOfMonth(dv.anchor))
                             IN first..(first + DvWeeks * DvWeek - 1)
      [] dv.cal = "year" -> {}

StartDay(s) == s.start \div DvDay
EndDay(s) == s.end \div DvDay
Covers(s, d) == s # NoSpan /\ StartDay(s) <= d /\ d <= EndDay(s)

\* The month has an event on all its days, the other modes one with a time on its first.
EventsOn(d) ==
    {r \in dv.rows : LET s == SpanOf(r)
                     IN Covers(s, d) /\ (dv.cal # "month" /\ ~s.allDay => StartDay(s) = d)}

StepCalendar == \E dir \in {1, -1} :
    Acts([dv EXCEPT !.anchor =
        CASE dv.cal = "year" -> FirstOfMonth(@) + dir * DvYear * DvMonth
          [] dv.cal = "month" -> FirstOfMonth(@) + dir * DvMonth
          [] dv.cal = "week" -> @ + dir * DvWeek
          [] dv.cal = "4days" -> @ + dir * 4
          [] dv.cal = "day" -> @ + dir])

Header == \/ StepCalendar
          \/ dv.anchor # DvNow \div DvDay /\ Acts([dv EXCEPT !.anchor = DvNow \div DvDay])
          \/ \E f \in Range(DvFields) \ {Axis} : Acts([dv EXCEPT !.picked = f])
          \/ \E c \in {"day", "4days", "week", "month", "year"} \ {dv.cal} : Acts([dv EXCEPT !.cal = c])

\* A day of the year opens.
YearGrid == dv.cal = "year" /\ \E d \in DvDays : Acts([dv EXCEPT !.anchor = d, !.cal = "day"])

DragEvent == /\ Movable /\ dv.dragId = NoRow
             /\ \E r \in UNION {EventsOn(d) : d \in DaysShown} : Acts([dv EXCEPT !.dragId = r])

\* A mutant: the end stays where it is.
RescheduleStart(r, t) ==
    LET s == SpanOf(r)
        F(x) == IF s.allDay THEN Dated(x) ELSE Timed(x)
    IN Saves([dv EXCEPT !.dragId = NoRow], r,
             [start |-> F(t), end |-> IF s.hasEnd THEN F(s.end) ELSE Null])

Reschedule(r, t) ==
    LET s == SpanOf(r)
        F(x) == IF s.allDay THEN Dated(x) ELSE Timed(x)
    IN Saves([dv EXCEPT !.dragId = NoRow], r,
             [start |-> F(t), end |-> IF s.hasEnd THEN F(t + s.end - s.start) ELSE Null])

\* On a day of the month the time of the day stays; the all-day row begins with the day,
\* and on the hours it is where the pointer is, rounded up at the foot of the day.
DropOnMonth(r, d) ==
    dv.cal = "month" /\ Reschedule(r, d * DvDay + IF SpanOf(r).allDay THEN 0 ELSE SpanOf(r).start % DvDay)
DropOnAllDay(r, d) == dv.cal # "month" /\ Reschedule(r, d * DvDay)
DropOnHours(r, d, k) == dv.cal # "month" /\ Reschedule(r, d * DvDay + k)

DropEvent ==
    /\ dv.dragId # NoRow
    /\ IF HasSpan(dv.dragId)
       THEN \E d \in DaysShown : \/ DropOnMonth(dv.dragId, d)
                                 \/ DropOnAllDay(dv.dragId, d)
                                 \/ \E k \in 0..DvDay : DropOnHours(dv.dragId, d, k)
       ELSE Acts([dv EXCEPT !.dragId = NoRow])

\* The N key, the month's plus and a double click on the hours.
DraftStarts ==
    {Dated(dv.anchor * DvDay)}
    \cup (IF dv.cal = "month" THEN {Dated(d * DvDay) : d \in DaysShown}
          ELSE {Timed(d * DvDay + k) : d \in DaysShown, k \in 0..DvDay})

OpenDraft == \E s \in DraftStarts :
    Movable /\ dv.draft = Null /\ Acts([dv EXCEPT !.draft = [start |-> s, end |-> Null]])

\* The draft is of the column that is the axis when it is saved.
Draft ==
    /\ dv.draft # Null
    /\ \/ Acts([dv EXCEPT !.draft = Null])
       \/ /\ DvNew \notin dv.rows
          /\ Saves([dv EXCEPT !.draft = Null, !.rows = @ \cup {DvNew}], DvNew, dv.draft)

Calendar ==
    /\ dv.mode = "calendar"
    /\ IF dv.draft # Null THEN Draft
       ELSE Header \/ YearGrid \/ DragEvent \/ DropEvent \/ OpenDraft

-------------------------------------------------------------------------------
(* The picker of a date cell: what it shows is its own until it is mounted again. *)

\* The dates of the picker, written with or without their times; an end that is not yet
\* picked is the start.
Emitted(c) ==
    LET Fix(s, time) == IF c.withTime
                        THEN [s EXCEPT !.time = IF time # Null THEN time ELSE IF @ # Null THEN @ ELSE 0]
                        ELSE [s EXCEPT !.time = Null]
    IN IF c.start = Null THEN Null
       ELSE [start |-> Fix(c.start, c.start.time),
             end |-> IF ~c.withEnd THEN Null
                     ELSE IF c.end = Null THEN Fix(c.start, Null) ELSE Fix(c.end, c.end.time)]

Emit(c) == Saves([dv EXCEPT !.cell = c], c.row, Emitted(c))

At9(c, d) == [day |-> d, time |-> IF ~c.withTime THEN Null
                                  ELSE IF c.start # Null /\ c.start.time # Null THEN c.start.time ELSE DvNine]
At5(c, d) == [day |-> d, time |-> IF ~c.withTime THEN Null
                                  ELSE IF c.end # Null /\ c.end.time # Null THEN c.end.time ELSE DvFive]

\* A mutant: a day before the start is taken for the end.
PickAnyDay(c, d) ==
    Emit(IF ~c.withEnd THEN [c EXCEPT !.start = At9(c, d)]
         ELSE IF c.start = Null \/ c.end # Null THEN [c EXCEPT !.start = At9(c, d), !.end = Null]
         ELSE [c EXCEPT !.end = At5(c, d)])

\* In a range the first day is the start, an earlier one the start instead, a later the end.
PickDay(c, d) ==
    Emit(IF ~c.withEnd THEN [c EXCEPT !.start = At9(c, d)]
         ELSE IF c.start = Null \/ c.end # Null THEN [c EXCEPT !.start = At9(c, d), !.end = Null]
         ELSE IF d < c.start.day THEN [c EXCEPT !.start = At9(c, d)]
         ELSE [c EXCEPT !.end = At5(c, d)])

Today == DvNow \div DvDay
DayOf(s) == IF s = Null THEN Today ELSE s.day

\* The time of the end makes it a range; without a start nothing is written.
PickTime(c, k) ==
    /\ c.withTime
    /\ \/ Emit([c EXCEPT !.start = [day |-> DayOf(@), time |-> k]])
       \/ c.withEnd /\ Emit([c EXCEPT !.end = [day |-> IF @ = Null THEN DayOf(c.start) ELSE @.day,
                                               time |-> k]])

ToggleEnd(c) == Emit([c EXCEPT !.withEnd = ~@, !.end = IF c.withEnd THEN Null ELSE @])
ToggleTime(c) == Emit([c EXCEPT !.withTime = ~@])

OpenCell == \E r \in dv.rows :
    LET v == dv.data[r][Axis]
        HasTime(s) == s # Null /\ s.time # Null
    IN /\ Movable
       /\ Acts([dv EXCEPT !.cell =
            IF v = Null THEN [row |-> r, start |-> Null, end |-> Null, withTime |-> FALSE, withEnd |-> FALSE]
            ELSE [row |-> r, start |-> v.start, end |-> v.end, withEnd |-> v.end # Null,
                  withTime |-> HasTime(v.start) \/ HasTime(v.end)]])

DateCell ==
    /\ dv.mode = "table"
    /\ \/ dv.cell = Closed /\ OpenCell
       \/ /\ dv.cell # Closed
          /\ \/ \E d \in DvDays : PickDay(dv.cell, d)
             \/ \E k \in DvTimes : PickTime(dv.cell, k)
             \/ ToggleEnd(dv.cell) \/ ToggleTime(dv.cell)

-------------------------------------------------------------------------------
Opened(mode, s) ==
    [mode |-> mode, pages |-> 0, before |-> 0, after |-> 0, edit |-> NoRow, drag |-> Closed,
     anchor |-> Today, dragId |-> NoRow, draft |-> Null, cell |-> Closed,
     rows |-> s.rows, data |-> s.data, picked |-> s.picked, period |-> s.period, cal |-> s.cal, ops |-> s.ops]

\* Another view of the rows: its settings are kept, the rest begins anew.
SwitchTab == \E mode \in {"gantt", "calendar", "table"} \ {dv.mode} :
    dv.drag = Closed /\ Acts(Opened(mode, dv))

DvInit ==
    \E mode \in {"gantt", "calendar", "table"}, cells \in DvCells,
       period \in DOMAIN DvPeriods, cal \in {"day", "week", "month"} :
        dv = Opened(mode,
             [rows |-> Range(DvRows) \ {DvNew}, data |-> cells, picked |-> NoField,
              period |-> period, cal |-> cal, ops |-> DvOps])

DvNext == dv.ops > 0 /\ (Gantt \/ Calendar \/ DateCell \/ SwitchTab)

DvSpec == DvInit /\ [][DvNext]_dv

-------------------------------------------------------------------------------
(* Properties *)

\* A range of days never ends before it begins, whichever of the bars, the tray, the calendar
\* and the picker wrote it, in whichever order: only times within a day can be out of
\* order (pickDay, applyDrag, reschedule, trayDown).
RangesInOrder ==
    dv # Closed =>
    \A r \in dv.rows, f \in Range(DvFields) : InOrder(dv.data[r][f])

\* Where a bar is drawn: the days of an all-day bar are drawn whole.
DrawnTo(s) == IF s.allDay THEN s.end + DvDay ELSE s.end

\* Every bar that is loaded fits the window, whole last day included, and so does today;
\* unless there are too many columns they reach the window's end (GanttView, unitTicks).
WindowHoldsBars ==
    (dv # Closed /\ dv.mode = "gantt") =>
        LET w == Window
        IN /\ w.from <= DvNow /\ DvNow < w.to
           /\ \A r \in Bars : w.from <= SpanOf(r).start /\ DrawnTo(SpanOf(r)) <= w.to
           /\ \A u \in {Period.minor, Period.major} :
                 LET ticks == UnitTicks(w.from, w.to, u)
                 IN Least(ticks) <= w.from
                    /\ (Cardinality(ticks) < DvTicks => w.to < Greatest(ticks) + Unit(u))

\* A bar stays where it was drawn when it is let go, unless one end was drawn past the other
\* or a bar of whole days was dragged by hours: a bar of one day can be drawn out to
\* either side (beginDrag).
BarStaysWhereDrawn ==
    [][(dv # Closed /\ dv.drag # Closed) =>
         LET g == dv.drag
             d == g.delta * Snap
             left == g.span.start + IF g.mode = "end" THEN 0 ELSE d
             right == DrawnTo(g.span) + IF g.mode = "start" THEN 0 ELSE d
         IN (DropBar /\ (g.span.allDay => dv.period # "hour")
               /\ g.span.start + (IF g.mode = "end" THEN 0 ELSE d)
                     <= g.span.end + (IF g.mode = "start" THEN 0 ELSE d))
              => /\ Span(dv'.data[g.row][Axis]).start = left
                 /\ DrawnTo(Span(dv'.data[g.row][Axis])) = right]_dv

\* An event dropped on a day is there afterwards, as long as it was, in the month and in the
\* all-day row and on the hours, but for the foot of a day, which is the next one
\* (reschedule, onDrop).
EventLandsOnDay ==
    [][(dv # Closed /\ dv.mode = "calendar" /\ dv.dragId # NoRow) =>
         \A d \in DaysShown :
            (HasSpan(dv.dragId)
             /\ (DropOnMonth(dv.dragId, d) \/ DropOnAllDay(dv.dragId, d)
                 \/ \E k \in 0..(DvDay - 1) : DropOnHours(dv.dragId, d, k)))
            => LET r == dv.dragId
                   s == SpanOf(r)
                   n == Span(dv'.data[r][Axis])
               IN /\ r \in EventsOn(d)' /\ StartDay(n) = d
                  /\ n.end - n.start = s.end - s.start /\ n.allDay = s.allDay]_dv

===============================================================================
