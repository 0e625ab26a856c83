------------------------------ MODULE UnreadCount ------------------------------
(* The bell's badge (notification-bell.tsx): it asks for the number of unread       *)
(* notifications every 15 seconds, the service keeps that number in Redis for 30     *)
(* (services/notifications.py, api/notifications.py), and reading notifications,      *)
(* here or in another window, and new ones change it meanwhile.                       *)
(*                                                                                  *)
(* Time is counted in intervals of the badge; requests are answered within one.       *)
(* What a handler does before, between and after its awaits are steps of their own.   *)
EXTENDS Screen, Integers, Sequences, FiniteSets, FiniteSetsExt

CONSTANTS
    NbTtl,       \* how many intervals a cached number is served
    NbMost,      \* bound on notifications
    NbPending,   \* bound on requests under way
    NbOps        \* bound on what the user and others do

ASSUME NbAssumption == NbTtl \in Nat /\ NbMost \in Nat /\ NbOps \in Nat

VARIABLE nb

Unread(s) == Cardinality({id \in DOMAIN s.read : ~s.read[id]})

-------------------------------------------------------------------------------
(* The page *)

Ask(s, do, id) ==
    [s EXCEPT !.net = @ \cup {[nth |-> Max({0} \cup {m.nth : m \in s.net}) + 1, do |-> do, id |-> id,
                               step |-> "sent", got |-> Null, seen |-> Null, dropped |-> FALSE]}]

\* What is fetched is not fetched twice; when it is invalidated the fetch under way is given
\* up, unless nothing has arrived yet: the handler goes on all the same.
UnderWay(s, do) == \E m \in s.net : m.do = do /\ ~m.dropped
FetchOnce(s, do) == IF UnderWay(s, do) THEN s ELSE Ask(s, do, Null)
FetchAnew(s, do, data) ==
    IF data = Null THEN FetchOnce(s, do)
    ELSE Ask([s EXCEPT !.net = {IF m.do = do THEN [m EXCEPT !.dropped = TRUE] ELSE m : m \in @}], do, Null)

\* The list is asked for only while it is open.
Refresh(s) == LET t == FetchAnew(s, "count", s.badge)
              IN IF s.open THEN FetchAnew(t, "list", s.list) ELSE t

BellActs(s) == nb.ops > 0 /\ Cardinality(nb.net) < NbPending /\ nb' = [s EXCEPT !.ops = @ - 1]

\* A list that is old is fetched again.
OpenBell == /\ ~nb.open
            /\ \E old \in {TRUE} \cup {nb.list = Null} :
                  BellActs(IF old THEN FetchOnce([nb EXCEPT !.open = TRUE], "list") ELSE [nb EXCEPT !.open = TRUE])
CloseBell == nb.open /\ nb' = [nb EXCEPT !.open = FALSE]

MarkRead == /\ nb.open /\ nb.list # Null
            /\ \E id \in DOMAIN nb.list : ~nb.list[id] /\ BellActs(Ask(nb, "read", id))
MarkAll == /\ nb.open /\ nb.badge \notin {Null, 0}
           /\ BellActs(Ask(nb, "all", Null))

\* Another window of the same user: its mutations are not followed by a refresh here.
MarkElsewhere ==
    \/ \E id \in DOMAIN nb.read : ~nb.read[id] /\ BellActs(Ask(nb, "read_elsewhere", id))
    \/ BellActs(Ask(nb, "all_elsewhere", Null))

Answered(m) ==
    /\ m.step = "answered"
    /\ LET s == [nb EXCEPT !.net = @ \ {m}]
       IN nb' = CASE m.do \in {"read", "all"} -> Refresh(s)
                  [] m.do = "count" /\ ~m.dropped -> [s EXCEPT !.badge = m.got]
                  [] m.do = "list" /\ ~m.dropped -> [s EXCEPT !.list = m.seen]
                  [] OTHER -> s

-------------------------------------------------------------------------------
(* The service *)

\* A mutant: a number is kept for longer than anyone waits.
CachedForLong(n) == [n |-> n, left |-> NbTtl + 3]

CachedCount(n) == [n |-> n, left |-> NbTtl]

Goes(m, step, s) == nb' = [s EXCEPT !.net = (@ \ {m}) \cup {[m EXCEPT !.step = step]}]
Gets(m, got, s) == nb' = [s EXCEPT !.net = (@ \ {m}) \cup {[m EXCEPT !.step = "answered", !.got = got]}]

CountUnread(m) ==
    /\ m.do = "count"
    /\ \/ m.step = "sent" /\ ~nb.inApp /\ Gets(m, 0, nb)
       \/ m.step = "sent" /\ nb.inApp /\ nb.cache # Null /\ Gets(m, nb.cache.n, nb)
       \/ m.step = "sent" /\ nb.inApp /\ nb.cache = Null /\ Goes(m, "missed", nb)
       \/ m.step = "missed" /\ nb' = [nb EXCEPT !.net = (@ \ {m}) \cup
                                         {[m EXCEPT !.step = "counted", !.got = Unread(nb)]}]
       \/ m.step = "counted" /\ Gets(m, m.got, [nb EXCEPT !.cache = CachedCount(m.got)])

ListNotifications(m) ==
    /\ m.do = "list" /\ m.step = "sent"
    /\ nb' = [nb EXCEPT !.net = (@ \ {m}) \cup {[m EXCEPT !.step = "answered",
                                                  !.seen = IF nb.inApp THEN nb.read ELSE <<>>]}]

\* The transaction first, then the cache.
MarkNotificationRead(m) ==
    /\ m.do \in {"read", "read_elsewhere"}
    /\ \/ m.step = "sent" /\ Goes(m, "committed", [nb EXCEPT !.read[m.id] = TRUE, !.calm = 0])
       \/ m.step = "committed" /\ Goes(m, "answered", [nb EXCEPT !.cache = Null])

MarkAllRead(m) ==
    /\ m.do \in {"all", "all_elsewhere"}
    /\ \/ m.step = "sent" /\ Goes(m, "committed", [nb EXCEPT !.read = [id \in DOMAIN @ |-> TRUE], !.calm = 0])
       \/ m.step = "committed" /\ Goes(m, "answered", [nb EXCEPT !.cache = CachedCount(0)])

\* The cache is not told of a new one.
CreateNotification ==
    /\ Cardinality(DOMAIN nb.read) < NbMost
    /\ BellActs([nb EXCEPT !.read = Append(@, FALSE), !.calm = 0])

InboxRequest(m) == \/ CountUnread(m) \/ ListNotifications(m) \/ MarkNotificationRead(m)
                   \/ MarkAllRead(m) \/ Answered(m)

-------------------------------------------------------------------------------
(* Time *)

Expire == nb.cache # Null /\ nb.cache.left = 0 /\ nb' = [nb EXCEPT !.cache = Null]

Older(c) == CASE c = Null -> Null
              [] c # Null /\ c.left = 0 -> Null
              [] OTHER -> [c EXCEPT !.left = @ - 1]

Interval ==
    /\ nb.net = {}
    /\ nb' = FetchOnce([nb EXCEPT !.calm = Min({@ + 1, NbTtl + 1}), !.cache = Older(@)], "count")

-------------------------------------------------------------------------------
NbInit == \E inApp \in BOOLEAN :
             nb = FetchOnce([read |-> <<FALSE>>, cache |-> Null, inApp |-> inApp, badge |-> Null,
                             list |-> Null, open |-> FALSE, net |-> {}, calm |-> 0, ops |-> NbOps], "count")

NbNext == \/ OpenBell \/ CloseBell \/ MarkRead \/ MarkAll \/ MarkElsewhere \/ CreateNotification
          \/ Expire \/ Interval \/ \E m \in nb.net : InboxRequest(m)

NbSpec == NbInit /\ [][NbNext]_nb

-------------------------------------------------------------------------------
(* Properties *)

\* Whatever counts, readings and new notifications overlapped, and whichever stale number
\* that left in the cache, three intervals after the last change the badge shows how many
\* are unread (unread_count, mark_notification_read, mark_all_read).
BadgeCatchesUp ==
    (nb # Closed /\ nb.net = {} /\ nb.calm = NbTtl + 1)
       => nb.badge = IF nb.inApp THEN Unread(nb) ELSE 0

===============================================================================
