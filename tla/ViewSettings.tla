----------------------------- MODULE ViewSettings -----------------------------
(* The views of one database and their settings, as the browser keeps them:    *)
(* DatabaseView (which view is shown), ViewShell (its settings and their        *)
(* debounced save), ViewsBar and SettingsSidebar (creating, ordering, renaming, *)
(* deleting views; presets).  Sessions are open browser tabs; the server side   *)
(* is what PATCH, POST, DELETE and GET /views do to the rows they touch.        *)
(*                                                                              *)
(* Abstractions: the four settings a preset captures (filter, sorts, group,     *)
(* hideEmpty) are one value of Looks, all the others one number naming their    *)
(* last change; names are left out.  A request and the handling of its answer   *)
(* are one step, taken at any time and in any order; Lost covers an answer that  *)
(* never comes.                                                                  *)
EXTENDS Naturals, Sequences, FiniteSets, SequencesExt

CONSTANTS
    Sessions,     \* browser tabs
    Views,        \* ids a view can get
    Opened,       \* the views of the database at first, in the order of their tabs
    Presets,      \* ids a preset can get
    Looks,        \* combinations of filter, sorts, group and hideEmpty
    Plain,        \* the look without any of them
    NoPreset, NoView, NoConfig,
    MaxOps        \* bound on what the users do

ASSUME OpenedAssumption == Opened \in Seq(Views) /\ IsInjective(Opened) /\ Opened # <<>>
ASSUME PlainAssumption == Plain \in Looks
ASSUME NoneAssumption == NoPreset \notin Presets /\ NoView \notin Views
ASSUME OpsAssumption == MaxOps \in Nat

VARIABLES
    live,         \* the views that exist
    minted,       \* the views that ever existed: ids are not used twice
    order,        \* their order column
    stored,       \* their config column
    sess,         \* what each session holds
    net,          \* requests on their way
    ops,          \* what the users may still do
    lineage       \* views whose settings a view was created from, itself included

vars == <<live, minted, order, stored, sess, net, ops, lineage>>

-------------------------------------------------------------------------------
(* Settings *)

Default == [look |-> Plain, rest |-> 0, presets |-> <<>>, active |-> NoPreset, from |-> {}]

\* An empty config, {}, leaves every setting at its default.
Hydrated(c) == IF c = NoConfig THEN Default ELSE c

\* What "Reset" returns to and "Save" compares with: the active preset, or nothing.
Baseline(c) == IF c.active \in DOMAIN c.presets THEN c.presets[c.active] ELSE Plain
Dirty(c) == c.look # Baseline(c)

WithPreset(c, p, look) ==
    [c EXCEPT !.presets = [q \in DOMAIN @ \cup {p} |-> IF q = p THEN look ELSE @[q]]]
\* A mutant: the deleted preset stays active.
WithoutPresetOnly(c, p) == [c EXCEPT !.presets = [q \in DOMAIN @ \ {p} |-> @[q]]]

WithoutPreset(c, p) ==
    [c EXCEPT !.presets = [q \in DOMAIN @ \ {p} |-> @[q]],
              !.active = IF @ = p THEN NoPreset ELSE @]

-------------------------------------------------------------------------------
(* Sessions *)

Ids(q) == [i \in DOMAIN q |-> q[i].id]

\* The view a session shows: the selected one if the list has it, else the first.
Active(cache, chosen) ==
    IF cache = <<>> THEN NoView
    ELSE IF \E i \in DOMAIN cache : cache[i].id = chosen THEN chosen ELSE cache[1].id

ConfigOf(cache, v) == cache[CHOOSE i \in DOMAIN cache : cache[i].id = v].cfg

\* A mutant: without the key, the settings and the timer of the last view live on.
RenderedWithoutKey(S) == [S EXCEPT !.shown = Active(S.cache, S.chosen)]

\* ViewShell is keyed by the view: another view is another mount, which takes its
\* settings from the cached list and forgets a save that had not started.
Rendered(S) ==
    LET v == Active(S.cache, S.chosen) IN
    IF v = S.shown THEN S
    ELSE [S EXCEPT !.shown = v,
                   !.local = Hydrated(IF v = NoView THEN NoConfig ELSE ConfigOf(S.cache, v)),
                   !.timer = FALSE, !.touched = FALSE, !.clean = TRUE]

Opening == [cache |-> <<>>, fetch |-> "asked", answer |-> <<>>, chosen |-> NoView, sent |-> 0,
            shown |-> NoView, local |-> Default, timer |-> FALSE,
            touched |-> FALSE, clean |-> TRUE]

\* Every change of a setting restarts the 600 ms timer of the save.
Changed(S, c) == [S EXCEPT !.local = [c EXCEPT !.from = @ \cup {S.shown}],
                           !.timer = TRUE, !.touched = TRUE]

Invalidated(S) == [S EXCEPT !.fetch = "asked", !.answer = <<>>]

\* A user's operation on the page of an open session.
Acts(s) == ops > 0 /\ ops' = ops - 1 /\ sess[s].shown # NoView

Changes(s, c) ==
    /\ sess' = [sess EXCEPT ![s] = Changed(@, c)]
    /\ UNCHANGED <<live, minted, order, stored, net, lineage>>

Sends(s, m) == net' = net \cup {m} /\ UNCHANGED <<live, minted, order, stored, lineage>>

-------------------------------------------------------------------------------
(* The toolbar: filter, sort and group, presets, reset *)

EditLook(s) ==
    \E look \in Looks \ {sess[s].local.look} :
        Acts(s) /\ Changes(s, [sess[s].local EXCEPT !.look = look])

ApplyPreset(s) ==
    \E p \in DOMAIN sess[s].local.presets \cup {NoPreset} :
        LET c == [sess[s].local EXCEPT !.active = p] IN
        Acts(s) /\ Changes(s, [c EXCEPT !.look = Baseline(c)])

\* "Save" with a preset active overwrites it, without one it asks for a name.
SavePreset(s) ==
    LET c == sess[s].local IN
    /\ Dirty(c) /\ c.active # NoPreset
    /\ Acts(s) /\ Changes(s, WithPreset(c, c.active, c.look))

CreatePreset(s) ==
    LET c == sess[s].local
        taken == UNION {DOMAIN d.presets : d \in {Hydrated(stored[v]) : v \in Views}
                                                  \cup {sess[t].local : t \in Sessions}}
    IN \E p \in Presets \ taken :
        /\ Dirty(c) /\ c.active = NoPreset
        /\ Acts(s) /\ Changes(s, [WithPreset(c, p, c.look) EXCEPT !.active = p])

Reset(s) ==
    LET c == sess[s].local IN
    Dirty(c) /\ Acts(s) /\ Changes(s, [c EXCEPT !.look = Baseline(c)])

Toolbar(s) ==
    EditLook(s) \/ ApplyPreset(s) \/ SavePreset(s) \/ CreatePreset(s) \/ Reset(s)

(* The sidebar: the remaining settings and the list of presets *)

\* A mutant: a setting missing from the list the effect of the save depends on.
EditRestUnwatched(s) ==
    /\ Acts(s)
    /\ sess' = [sess EXCEPT ![s].local.rest = 1 + MaxOps - ops, ![s].touched = TRUE]
    /\ UNCHANGED <<live, minted, order, stored, net, lineage>>

\* Visibility, board and timeline fields, rows per page, the name of a preset: one change,
\* with a new number.
EditRest(s) == Acts(s) /\ Changes(s, [sess[s].local EXCEPT !.rest = 1 + MaxOps - ops])

\* The list marks a preset active without applying it.
StarPreset(s) ==
    \E p \in DOMAIN sess[s].local.presets :
        Acts(s) /\ Changes(s, [sess[s].local EXCEPT !.active = p])

DeletePreset(s) ==
    \E p \in DOMAIN sess[s].local.presets :
        Acts(s) /\ Changes(s, WithoutPreset(sess[s].local, p))

PresetsPage(s) == StarPreset(s) \/ DeletePreset(s)

-------------------------------------------------------------------------------
(* The debounced save *)

TimerFires(s) ==
    LET n == 1 + Max({m.nth : m \in {k \in net : k.op = "save" /\ k.s = s}} \cup {0}) IN
    /\ sess[s].timer
    /\ sess' = [sess EXCEPT ![s].timer = FALSE, ![s].clean = TRUE, ![s].sent = n]
    /\ Sends(s, [op |-> "save", s |-> s, view |-> sess[s].shown,
                 cfg |-> sess[s].local, nth |-> n])
    /\ UNCHANGED ops

\* Once m is stored, does t still have its newest save of the view to come, or is it m?
StillNewest(t, m) ==
    \E n \in net : n.op = "save" /\ n.s = t /\ n.view = m.view /\ n.nth = sess[t].sent

\* A mutant: the answer is put back into the settings, which saves them again.
SaveArrivesRearming(m) ==
    /\ m.op = "save" /\ m.view \in live
    /\ stored' = [stored EXCEPT ![m.view] = m.cfg]
    /\ net' = net \ {m}
    /\ sess' = [sess EXCEPT ![m.s] = IF @.shown = m.view THEN Changed(@, m.cfg) ELSE @]
    /\ UNCHANGED <<live, minted, order, ops, lineage>>

\* PATCH /views/{id} with the whole config; nothing is done with the answer.
SaveArrives(m) ==
    /\ m.op = "save" /\ m.view \in live
    /\ stored' = [stored EXCEPT ![m.view] = m.cfg]
    /\ net' = net \ {m}
    /\ sess' = [t \in Sessions |->
                  IF sess[t].shown = m.view /\ ~StillNewest(t, m)
                  THEN [sess[t] EXCEPT !.clean = FALSE] ELSE sess[t]]
    /\ UNCHANGED <<live, minted, order, ops, lineage>>

-------------------------------------------------------------------------------
(* The list of views *)

SwitchView(s) ==
    \E v \in Views :
        /\ v \in Range(Ids(sess[s].cache)) /\ Acts(s)
        /\ sess' = [sess EXCEPT ![s] = Rendered([@ EXCEPT !.chosen = v])]
        /\ UNCHANGED <<live, minted, order, stored, net, lineage>>

\* POST /views, of an empty view or of a copy of the cached config of another.
AddView(s) ==
    /\ Acts(s)
    /\ Sends(s, [op |-> "add", s |-> s, view |-> NoView, cfg |-> NoConfig])
    /\ UNCHANGED sess

DuplicateView(s) ==
    \E v \in Views :
        /\ v \in Range(Ids(sess[s].cache)) /\ Acts(s)
        /\ Sends(s, [op |-> "add", s |-> s, view |-> v, cfg |-> ConfigOf(sess[s].cache, v)])
        /\ UNCHANGED sess

\* The last view of the list cannot be deleted; a shown one gives way to another first.
DeleteView(s) ==
    LET ids == Ids(sess[s].cache) IN
    \E v \in Views :
        /\ v \in Range(ids) /\ Len(ids) > 1 /\ Acts(s)
        /\ Sends(s, [op |-> "delete", s |-> s, view |-> v])
        /\ sess' = IF v = sess[s].shown
                   THEN [sess EXCEPT ![s] = Rendered([@ EXCEPT !.chosen =
                                                IF ids[1] = v THEN ids[2] ELSE ids[1]])]
                   ELSE sess

RenameView(s) ==
    \E v \in Views :
        /\ v \in Range(Ids(sess[s].cache)) /\ Acts(s)
        /\ Sends(s, [op |-> "rename", s |-> s, view |-> v]) /\ UNCHANGED sess

\* Lists of views have each view once: indexOf, and the list without a view.
Place(q, a) == CHOOSE k \in DOMAIN q : q[k] = a
Without(q, a) == RemoveAt(q, Place(q, a))

\* A mutant: the place is looked up before the view is taken out.
DroppedAtOldPlace(q, a, b) == InsertAt(Without(q, a), Place(q, b), a)

\* The list with a removed and put back in front of b, as a drop of a on b does.
Dropped(q, a, b) == LET r == Without(q, a) IN InsertAt(r, Place(r, b), a)

\* One PATCH of the order per view.  The tab bar waits for all of them and then
\* refetches; the sidebar refetches after each.
Reorders(s, q, waits, a, b) ==
    /\ Acts(s) /\ UNCHANGED sess
    /\ Sends(s, [op |-> "order", s |-> s, ids |-> q, left |-> DOMAIN q, waits |-> waits,
                 good |-> TRUE, alone |-> \A m \in net : m.op \in {"save", "rename"},
                 was |-> Ids(sess[s].cache), a |-> a, b |-> b])

MoveView(s) ==
    LET ids == Ids(sess[s].cache) IN
    \E a, b \in Range(ids), waits \in BOOLEAN :
        a # b /\ Reorders(s, Dropped(ids, a, b), waits, a, b)

SetDefaultView(s) ==
    LET ids == Ids(sess[s].cache) IN
    \E a \in Range(ids) : Reorders(s, <<a>> \o Without(ids, a), FALSE, a, NoView)

\* The tab is closed and opened again.
Reload(s) ==
    /\ ops > 0 /\ ops' = ops - 1
    /\ sess' = [sess EXCEPT ![s] = [Opening EXCEPT !.sent = sess[s].sent]]
    /\ UNCHANGED <<live, minted, order, stored, net, lineage>>

TabBar(s) == SwitchView(s) \/ AddView(s) \/ RenameView(s) \/ MoveView(s)

LayoutPage(s) == DuplicateView(s) \/ DeleteView(s) \/ SetDefaultView(s)

-------------------------------------------------------------------------------
(* The server's answers *)

Others(m) == {IF n.op = "order" /\ n # m THEN [n EXCEPT !.alone = FALSE] ELSE n : n \in net \ {m}}

Fresh == CHOOSE v \in Views \ minted : TRUE

Inserted(v, n, cfg, kin) ==
    /\ live' = live \cup {v} /\ minted' = minted \cup {v}
    /\ order' = [order EXCEPT ![v] = n]
    /\ stored' = [stored EXCEPT ![v] = cfg]
    /\ lineage' = [lineage EXCEPT ![v] = {v} \cup kin]

NextOrder == Max({order[v] + 1 : v \in live} \cup {0})

\* The new view is selected at once, before the refetched list has it.
AddArrives(m) ==
    /\ m.op = "add" /\ minted # Views
    /\ Inserted(Fresh, NextOrder, m.cfg, IF m.view = NoView THEN {} ELSE lineage[m.view])
    /\ net' = Others(m)
    /\ sess' = [sess EXCEPT ![m.s] = Rendered([Invalidated(@) EXCEPT !.chosen = Fresh])]
    /\ UNCHANGED ops

DeleteArrives(m) ==
    /\ m.op = "delete" /\ m.view \in live
    /\ live' = live \ {m.view}
    /\ net' = Others(m)
    /\ sess' = [sess EXCEPT ![m.s] = Invalidated(@)]
    /\ UNCHANGED <<minted, order, stored, ops, lineage>>

RenameArrives(m) ==
    /\ m.op = "rename" /\ m.view \in live
    /\ net' = net \ {m} /\ sess' = [sess EXCEPT ![m.s] = Invalidated(@)]
    /\ UNCHANGED <<live, minted, order, stored, ops, lineage>>

OrderArrives(m) ==
    /\ m.op = "order"
    /\ \E i \in m.left :
        LET rest == [m EXCEPT !.left = @ \ {i}] IN
        /\ m.ids[i] \in live
        /\ order' = [order EXCEPT ![m.ids[i]] = i - 1]
        /\ net' = Others(m) \cup {rest}
        /\ sess' = IF m.waits THEN sess ELSE [sess EXCEPT ![m.s] = Invalidated(@)]
    /\ UNCHANGED <<live, minted, stored, ops, lineage>>

OrderSettled(m) ==
    /\ m.op = "order" /\ m.left = {}
    /\ net' = net \ {m}
    /\ sess' = IF m.waits /\ m.good THEN [sess EXCEPT ![m.s] = Invalidated(@)] ELSE sess
    /\ UNCHANGED <<live, minted, order, stored, ops, lineage>>

\* A request fails, or finds its view deleted; no handler of a failure does anything.
Lost(m) ==
    /\ \/ /\ m.op = "order"
          /\ \E i \in m.left :
                net' = (net \ {m}) \cup {[m EXCEPT !.left = @ \ {i}, !.good = FALSE]}
          /\ UNCHANGED sess
       \/ /\ m.op # "order" /\ net' = net \ {m}
          /\ sess' = IF m.op = "save" /\ m.nth = sess[m.s].sent
                     THEN [sess EXCEPT ![m.s].clean = FALSE] ELSE sess
    /\ UNCHANGED <<live, minted, order, stored, ops, lineage>>

\* The views in the order of their order column, ties anyhow.
Lists == {q \in [1..Cardinality(live) -> live] :
            IsInjective(q) /\ \A i, j \in DOMAIN q : i < j => order[q[i]] <= order[q[j]]}

Answer(q, cfg) == [i \in DOMAIN q |-> [id |-> q[i], cfg |-> cfg[q[i]]]]

\* GET /views; a database without views is given one.
ListViews(s) ==
    /\ sess[s].fetch = "asked"
    /\ IF live # {}
       THEN /\ \E q \in Lists : sess' = [sess EXCEPT ![s].fetch = "answered",
                                                     ![s].answer = Answer(q, stored)]
            /\ UNCHANGED <<live, minted, order, stored, lineage>>
       ELSE /\ minted # Views
            /\ Inserted(Fresh, 0, NoConfig, {})
            /\ sess' = [sess EXCEPT ![s].fetch = "answered",
                                    ![s].answer = Answer(<<Fresh>>, stored')]
    /\ UNCHANGED <<net, ops>>

ListArrives(s) ==
    /\ sess[s].fetch = "answered"
    /\ sess' = [sess EXCEPT ![s] = Rendered([@ EXCEPT !.cache = sess[s].answer,
                                                      !.fetch = "idle", !.answer = <<>>])]
    /\ UNCHANGED <<live, minted, order, stored, net, ops, lineage>>

ListFails(s) ==
    /\ sess[s].fetch = "asked"
    /\ sess' = [sess EXCEPT ![s].fetch = "idle"]
    /\ UNCHANGED <<live, minted, order, stored, net, ops, lineage>>

\* The user comes back to the window, with a list older than the stale time.
Refocus(s) ==
    /\ sess[s].fetch = "idle" /\ ops > 0 /\ ops' = ops - 1
    /\ sess' = [sess EXCEPT ![s] = Invalidated(@)]
    /\ UNCHANGED <<live, minted, order, stored, net, lineage>>

-------------------------------------------------------------------------------
\* A view somebody used before, with a preset applied.
LeftWith(p, look) == [WithPreset(Default, p, look) EXCEPT !.look = look, !.active = p]

Init ==
    /\ live = Range(Opened) /\ minted = Range(Opened)
    /\ order = [v \in Views |-> IF v \in live THEN Place(Opened, v) - 1 ELSE 0]
    /\ \E p \in Presets, look \in Looks \ {Plain} :
          stored = [v \in Views |-> IF v = Opened[1] THEN LeftWith(p, look) ELSE NoConfig]
    /\ sess = [s \in Sessions |-> Opening]
    /\ net = {} /\ ops = MaxOps
    /\ lineage = [v \in Views |-> {v}]

User(s) == Toolbar(s) \/ EditRest(s) \/ PresetsPage(s) \/ TabBar(s) \/ LayoutPage(s) \/ Reload(s)

Delivered(m) == SaveArrives(m) \/ AddArrives(m) \/ DeleteArrives(m) \/ RenameArrives(m)
                  \/ OrderArrives(m) \/ OrderSettled(m)

Next ==
    \/ \E s \in Sessions : \/ User(s) \/ TimerFires(s)
                           \/ ListViews(s) \/ ListArrives(s) \/ ListFails(s) \/ Refocus(s)
    \/ \E m \in net : Delivered(m) \/ Lost(m)

Spec == Init /\ [][Next]_vars

\* Timers fire and every request is answered or fails.
FairSpec == /\ Spec
            /\ \A s \in Sessions : WF_vars(TimerFires(s))
            /\ WF_vars(\E m \in net : Delivered(m) \/ Lost(m))

-------------------------------------------------------------------------------
(* Properties *)

Configs == [look : Looks, rest : 0..MaxOps, presets : UNION {[P -> Looks] : P \in SUBSET Presets},
            active : Presets \cup {NoPreset}, from : SUBSET Views]

\* Each part of the state keeps its shape: settings are whole records, the shown view
\* is what the cached list and the selection give (DatabaseView's render).
TypeOK ==
    /\ live \subseteq minted /\ minted \subseteq Views
    /\ order \in [Views -> Nat] /\ ops \in 0..MaxOps
    /\ \A v \in Views : stored[v] \in Configs \cup {NoConfig}
    /\ \A s \in Sessions : /\ sess[s].local \in Configs
                           /\ sess[s].shown = Active(sess[s].cache, sess[s].chosen)
                           /\ sess[s].fetch \in {"idle", "asked", "answered"}
                           /\ sess[s].timer => sess[s].touched

\* The preset a stored or shown config calls active is one of its presets, through
\* deletions, copies, stale caches and whole-config saves that overtake each other.
ActivePresetExists ==
    \A c \in {Hydrated(stored[v]) : v \in Views} \cup {sess[s].local : s \in Sessions}
             \cup {m.cfg : m \in {n \in net : n.op = "save"}} :
        c.active # NoPreset => c.active \in DOMAIN c.presets

\* The debounced save never carries the settings of one view into another: what is
\* stored for a view was set in it, or in the views it was copied from.
SettingsStayInTheirView ==
    \A v \in live : Hydrated(stored[v]).from \subseteq lineage[v]

\* Once a session that changed the settings of the view it shows has no save left to
\* start or to arrive, the server has them; unless its last save failed, an older one
\* came in after it, another session saved over it, or the view is gone.
QuietMeansStored ==
    \A s \in Sessions :
        LET S == sess[s] IN
        (/\ S.touched /\ S.clean /\ ~S.timer /\ S.shown \in live
         /\ ~\E m \in net : m.op = "save" /\ m.s = s /\ m.view = S.shown)
            => stored[S.shown] = S.local

\* When all the PATCHes of a drag went through and no other change of the list
\* overlapped them, the server's list has the tab right before the one it was dropped
\* on (or first, for a new default) and the others as they were.
DroppedBeforeTarget ==
    \A m \in net : (m.op = "order" /\ m.left = {} /\ m.good /\ m.alone /\ Range(m.ids) = live) =>
        \A q \in Lists :
            /\ Without(q, m.a) = Without(m.was, m.a)
            /\ \E i \in DOMAIN q : /\ q[i] = m.a
                                   /\ IF m.b = NoView THEN i = 1
                                      ELSE i < Len(q) /\ q[i + 1] = m.b

\* "No views-query invalidation -> no save -> refetch loop": when the users stop, so do the
\* saves, however often the list is refetched.
NoSaveLoop == <>[](net = {} /\ \A s \in Sessions : ~sess[s].timer)

\* "Persisted per-view config (everything except ephemeral UI like collapse)": a view that
\* was just opened shows the settings stored for it, once no request is on its way.
ReopenedAsStored ==
    \A s \in Sessions :
        LET S == sess[s] IN
        (S.shown \in live /\ ~S.touched /\ S.fetch = "idle" /\ net = {})
            => S.local = Hydrated(stored[S.shown])

===============================================================================
