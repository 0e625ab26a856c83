------------------------------- MODULE MCBrowser -------------------------------
EXTENDS Browser

(* RowViews *)
CONSTANTS r1, r2, r3, title, stage, size, done, tags
RowIds == <<r1, r2, r3>>
Columns == <<title, stage, size, done, tags>>
Kinds == title :> "text" @@ stage :> "select" @@ size :> "number" @@ done :> "checkbox"
         @@ tags :> "tags"
Labels == 1 :> <<5>> @@ 2 :> <<5>> @@ 3 :> <<6>>
First == title :> <<5>> @@ stage :> 1 @@ size :> 2 @@ done :> TRUE @@ tags :> <<3>>
Second == title :> <<5, 6>> @@ stage :> Null @@ size :> Null @@ done :> Null @@ tags :> Null
Third == title :> Null @@ stage :> 4 @@ size :> 1 @@ done :> FALSE @@ tags :> <<1, 3>>
Fourth == title :> <<6>> @@ stage :> 1 @@ size :> 1 @@ done :> TRUE @@ tags :> <<>>
Tables == {<<First, Second>>, <<Third, First, Fourth>>}
SavedViews == {[kind |-> "list"], [kind |-> "gallery"], [kind |-> "board"], [kind |-> "board", sub |-> size],
           [kind |-> "board", board |-> done],
           [kind |-> "board", board |-> size, sub |-> stage]}
Typed == {<<5>>, <<6>>}

(* TableGrid *)
CONSTANTS q1, q2, q3, q4, seq, name, state
GridRows == <<q1, q2, q3, q4>>
GridColumns == <<seq, name, state>>
GridKinds == seq :> "id" @@ name :> "text" @@ state :> "menu"
GridGroups == q1 :> "a" @@ q2 :> "b" @@ q3 :> "a" @@ q4 :> "b"
GridKids == q1 :> <<q3, q2>> @@ q2 :> <<>> @@ q3 :> <<q4>> @@ q4 :> <<>>
Arrangements == {[order |-> GridRows, mode |-> "flat"], [order |-> <<q3, q4, q1>>, mode |-> "flat"],
                 [order |-> GridRows, mode |-> "groups"], [order |-> GridRows, mode |-> "tree"]}

(* DateViews *)
CONSTANTS d1, d2, d3, due, created
DateRows == <<d1, d2, d3>>
Axes == <<due, created>>
AxisKinds == due :> "date" @@ created :> "created"
On(d) == [day |-> d, time |-> Null]
AtTime(d, k) == [day |-> d, time |-> k]
Till(s, e) == [start |-> s, end |-> e]
FirstCells ==
    LET Of(v, w) == [r \in {d1, d2, d3} |-> due :> (CASE r = d1 -> v [] r = d2 -> w [] OTHER -> Null)
                                             @@ created :> Till(AtTime(2, 1), Null)]
    IN {Of(Till(On(2), Null), Null), Of(Till(AtTime(1, 2), AtTime(2, 1)), Till(On(9), On(10)))}
Zooms == "hour" :> [minor |-> "hour", major |-> "day", window |-> 1]
         @@ "day" :> [minor |-> "day", major |-> "week", window |-> 2]
         @@ "biweek" :> [minor |-> "biweek", major |-> "month", window |-> 4]
         @@ "quarter" :> [minor |-> "quarter", major |-> "year", window |-> 3]
Shifts == {-1, 0, 1}

(* Workspaces *)
CONSTANTS u1, u2, w1, w2
BelongTo == u1 :> <<w1, w2>> @@ u2 :> <<w2>>

===============================================================================
