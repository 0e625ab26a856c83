------------------------------- MODULE Workspaces -------------------------------
(* Which workspace a browser tab works in: the token and the workspace id kept in *)
(* local storage, the workspace AppShell shows, the queries it keys by it, and what *)
(* get_current_workspace makes of a request's header.                              *)
(*                                                                                 *)
(* Three kinds of queries stand for all: <<"workspaces">>, the memberships;        *)
(* <<"spaces", w>>, what is keyed by a workspace; <<"databases">>, what is keyed by  *)
(* none (SiteManager, the dashboard's designer).  The data of an answer is the     *)
(* workspace it comes from.                                                        *)
EXTENDS Screen, Naturals, Sequences, SequencesExt, FiniteSets

CONSTANTS
    WkUsers,     \* who logs in with this browser
    WkOf,        \* user -> their workspaces, the oldest first
    WkOps        \* bound on what they do

ASSUME WkAssumption ==
    /\ DOMAIN WkOf = WkUsers /\ WkOps \in Nat /\ Null \notin WkUsers /\ Closed # Null
    /\ \A u \in WkUsers : /\ WkOf[u] \in Seq(Range(WkOf[u])) /\ WkOf[u] # <<>>
                          /\ Null \notin Range(WkOf[u]) /\ Closed \notin Range(WkOf[u])

VARIABLE wk

Memberships == <<"workspaces">>
Spaces(w) == <<"spaces", w>>
Databases == <<"databases">>

-------------------------------------------------------------------------------
(* What is on the page, and its queries *)

\* The workspace chosen when the shell was mounted or since, else the first one.
Selected(s) ==
    IF s.active # Null THEN s.active
    ELSE IF Memberships \in DOMAIN s.cache THEN Head(s.cache[Memberships]) ELSE Null

Queries(s) ==
    IF s.page = "login" THEN {}
    ELSE {Memberships} \cup (IF Selected(s) = Null THEN {} ELSE {Spaces(Selected(s))})
          \cup (IF s.page = "home" THEN {Spaces(s.home)} \ {Spaces(Closed)} ELSE {Databases})

Fetched(s) == {f.key : f \in {f \in s.fetches : ~f.dropped}}
Fetch(key) == [key |-> key, step |-> "importing", dropped |-> FALSE, tried |-> FALSE,
                 user |-> Null, header |-> Null]

\* A query on the page without data is fetched; one that failed when it is mounted again.
RenderedShell(s) ==
    [s EXCEPT !.fetches = @ \cup {Fetch(key) : key \in
                                    Queries(s) \ (DOMAIN s.cache \cup Fetched(s) \cup s.failed)}]

\* Each page mounts a shell of its own, and the overview with it.
Visit(s, page) ==
    RenderedShell([s EXCEPT !.page = page, !.active = s.stored, !.home = s.stored, !.failed = {}])

InShell(s) == wk' = [s EXCEPT !.ops = @ - 1]

-------------------------------------------------------------------------------
(* apiFetch *)

\* The storage is read once auth.ts is there.
Send(f) ==
    /\ f.step = "importing"
    /\ wk' = [wk EXCEPT !.fetches = (@ \ {f}) \cup
                {[f EXCEPT !.step = "sent", !.user = wk.token, !.header = wk.stored]}]

\* Without a header there must be one workspace only; it must be one of the user's.
Workspace(f) ==
    IF f.header # Null THEN f.header
    ELSE IF Len(WkOf[f.user]) = 1 THEN Head(WkOf[f.user]) ELSE Null
Denied(f) ==
    IF f.user = Null THEN TRUE
    ELSE f.key # Memberships /\ Workspace(f) \notin Range(WkOf[f.user])

Stored(s, key, data) ==
    [s EXCEPT !.cache = [k \in DOMAIN @ \cup {key} |-> IF k = key THEN data ELSE @[k]]]

\* Memberships choose the first workspace if there is no choice, also when nobody waits
\* for them any more; an answer that was dropped is kept by no query.
Arrives(f) ==
    /\ f.step = "sent" /\ ~Denied(f)
    /\ LET data == IF f.key = Memberships THEN WkOf[f.user] ELSE Workspace(f)
           chosen == [wk EXCEPT !.fetches = @ \ {f},
                                !.stored = IF f.key = Memberships /\ @ = Null THEN Head(data) ELSE @]
       IN wk' = IF f.dropped THEN chosen ELSE RenderedShell(Stored(chosen, f.key, data))

\* Tried once more, but for the memberships: there 401 ends the session.
Fails(f) ==
    /\ f.step = "sent" /\ Denied(f)
    /\ LET rest == [wk EXCEPT !.fetches = @ \ {f}]
       IN wk' = CASE f.dropped -> rest
                  [] ~f.dropped /\ f.key = Memberships -> [rest EXCEPT !.token = Null, !.page = "login"]
                  [] ~f.dropped /\ f.key # Memberships /\ ~f.tried ->
                       [rest EXCEPT !.fetches = @ \cup {[Fetch(f.key) EXCEPT !.tried = TRUE]}]
                  [] OTHER -> [rest EXCEPT !.failed = @ \cup {f.key}]

-------------------------------------------------------------------------------
(* The user *)

\* Logging in and out leaves the workspace and every query as they are.
LogIn(u) == wk.page = "login" /\ InShell(Visit([wk EXCEPT !.token = u, !.users = @ \cup {u}], "home"))
LogOut == wk.page # "login" /\ InShell([wk EXCEPT !.token = Null, !.page = "login"])

\* A mutant: the queries are invalidated instead.
AllInvalidated(s) ==
    [s EXCEPT !.fetches = @ \cup {Fetch(key) : key \in (Queries(s) \cap DOMAIN s.cache) \ Fetched(s)}]

Cleared(s) ==
    [s EXCEPT !.cache = <<>>, !.failed = {},
              !.fetches = {[f EXCEPT !.dropped = TRUE] : f \in s.fetches}]

\* The overview, when it is the page already, may not be rendered again: then it keeps
\* showing what it had, and asks for nothing.
ChangeWorkspace(w) ==
    /\ wk.page # "login" /\ Memberships \in DOMAIN wk.cache /\ w \in Range(wk.cache[Memberships])
    /\ LET chosen == [wk EXCEPT !.stored = w, !.active = w]
       IN \/ InShell(Visit(Cleared(chosen), "home"))
          \/ wk.page = "home" /\ InShell(RenderedShell([Cleared(chosen) EXCEPT !.home = Closed]))

Navigate(page) == wk.page \notin {"login", page} /\ InShell(Visit(wk, page))

\* What is old is fetched again when it is mounted, or the window is back in focus.
Refetch(key) ==
    /\ key \in (Queries(wk) \cap DOMAIN wk.cache) \ Fetched(wk)
    /\ InShell([wk EXCEPT !.fetches = @ \cup {Fetch(key)}])

WorkspaceUser == \/ \E u \in WkUsers : LogIn(u)
        \/ LogOut
        \/ \E u \in WkUsers : \E w \in Range(WkOf[u]) : ChangeWorkspace(w)
        \/ \E page \in {"home", "site"} : Navigate(page)
        \/ \E key \in DOMAIN wk.cache : Refetch(key)

-------------------------------------------------------------------------------
WkInit == wk = [token |-> Null, stored |-> Null, page |-> "login", active |-> Null, home |-> Null,
                cache |-> <<>>, fetches |-> {}, failed |-> {}, users |-> {}, ops |-> WkOps]

WkNext == (wk.ops > 0 /\ WorkspaceUser) \/ \E f \in wk.fetches : Send(f) \/ Arrives(f) \/ Fails(f)

WkSpec == WkInit /\ [][WkNext]_wk

-------------------------------------------------------------------------------
(* Properties *)

\* In one tab, and as long as one user uses the browser, the data kept for a workspace is
\* that workspace's, and what is kept without one is the chosen one's: whenever the user
\* switches, and whichever answers are then on their way (changeWorkspace, apiFetch).  A
\* second user finds the first one's choice and data.
CacheOfItsWorkspace ==
    (wk # Closed /\ Cardinality(wk.users) = 1) =>
    \A key \in DOMAIN wk.cache :
      /\ (key = Databases /\ wk.stored # Null) => wk.cache[key] = wk.stored
      /\ \A u \in wk.users : \A w \in Range(WkOf[u]) : key = Spaces(w) => wk.cache[key] = w

===============================================================================
