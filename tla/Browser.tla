-------------------------------- MODULE Browser --------------------------------
(* What the browser shows is one of: a view of a database, a list or a board      *)
(* (RowViews), a table (TableGrid) or one in time (DateViews); the rows such a     *)
(* view loads (RowClient) and its columns (Columns); a document (DocumentEditing); *)
(* a site (SiteStudio); who else is there (Presence); the bell (UnreadCount); the  *)
(* shell around them, with its workspace (Workspaces).  Each has a state of its    *)
(* own while the others are Closed: no page reads another's state, and what they   *)
(* share, the server's data and the cache of queries, each of them models for the  *)
(* part it uses.                                                                   *)
EXTENDS RowViews, TableGrid, DateViews, RowClient, Columns, DocumentEditing, SiteStudio,
        Presence, UnreadCount, Workspaces

vars == <<rv, tg, dv, rc, cf, de, ss, co, nb, wk>>

Init == \/ RvInit /\ tg = Closed /\ dv = Closed /\ rc = Closed /\ cf = Closed
           /\ de = Closed /\ ss = Closed /\ co = Closed /\ nb = Closed /\ wk = Closed
        \/ TgInit /\ rv = Closed /\ dv = Closed /\ rc = Closed /\ cf = Closed
           /\ de = Closed /\ ss = Closed /\ co = Closed /\ nb = Closed /\ wk = Closed
        \/ DvInit /\ rv = Closed /\ tg = Closed /\ rc = Closed /\ cf = Closed
           /\ de = Closed /\ ss = Closed /\ co = Closed /\ nb = Closed /\ wk = Closed
        \/ RcInit /\ rv = Closed /\ tg = Closed /\ dv = Closed /\ cf = Closed
           /\ de = Closed /\ ss = Closed /\ co = Closed /\ nb = Closed /\ wk = Closed
        \/ CfInit /\ rv = Closed /\ tg = Closed /\ dv = Closed /\ rc = Closed
           /\ de = Closed /\ ss = Closed /\ co = Closed /\ nb = Closed /\ wk = Closed
        \/ DeInit /\ rv = Closed /\ tg = Closed /\ dv = Closed /\ rc = Closed
           /\ cf = Closed /\ ss = Closed /\ co = Closed /\ nb = Closed /\ wk = Closed
        \/ SsInit /\ rv = Closed /\ tg = Closed /\ dv = Closed /\ rc = Closed
           /\ cf = Closed /\ de = Closed /\ co = Closed /\ nb = Closed /\ wk = Closed
        \/ CoInit /\ rv = Closed /\ tg = Closed /\ dv = Closed /\ rc = Closed
           /\ cf = Closed /\ de = Closed /\ ss = Closed /\ nb = Closed /\ wk = Closed
        \/ NbInit /\ rv = Closed /\ tg = Closed /\ dv = Closed /\ rc = Closed
           /\ cf = Closed /\ de = Closed /\ ss = Closed /\ co = Closed /\ wk = Closed
        \/ WkInit /\ rv = Closed /\ tg = Closed /\ dv = Closed /\ rc = Closed
           /\ cf = Closed /\ de = Closed /\ ss = Closed /\ co = Closed /\ nb = Closed

Next == \/ rv # Closed /\ RvNext /\ UNCHANGED <<tg, dv, rc, cf, de, ss, co, nb, wk>>
        \/ tg # Closed /\ TgNext /\ UNCHANGED <<rv, dv, rc, cf, de, ss, co, nb, wk>>
        \/ dv # Closed /\ DvNext /\ UNCHANGED <<rv, tg, rc, cf, de, ss, co, nb, wk>>
        \/ rc # Closed /\ RcNext /\ UNCHANGED <<rv, tg, dv, cf, de, ss, co, nb, wk>>
        \/ cf # Closed /\ CfNext /\ UNCHANGED <<rv, tg, dv, rc, de, ss, co, nb, wk>>
        \/ de # Closed /\ DeNext /\ UNCHANGED <<rv, tg, dv, rc, cf, ss, co, nb, wk>>
        \/ ss # Closed /\ SsNext /\ UNCHANGED <<rv, tg, dv, rc, cf, de, co, nb, wk>>
        \/ co # Closed /\ CoNext /\ UNCHANGED <<rv, tg, dv, rc, cf, de, ss, nb, wk>>
        \/ nb # Closed /\ NbNext /\ UNCHANGED <<rv, tg, dv, rc, cf, de, ss, co, wk>>
        \/ wk # Closed /\ WkNext /\ UNCHANGED <<rv, tg, dv, rc, cf, de, ss, co, nb>>

Spec == Init /\ [][Next]_vars

===============================================================================
