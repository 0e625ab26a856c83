------------------------------- MODULE SiteStudio -------------------------------
(* The page that manages one site (SiteManager, WebDesigner, DesignImporter): the *)
(* lists it fetches and keeps, the requests its buttons send and what they do in   *)
(* api/sites.py, the canvas the active page is drawn on.                           *)
(*                                                                                 *)
(* A page's content is the number of the request that stored it.  How a build is    *)
(* made is SiteDeployments'; here are the writes of its row that lists can show.     *)
EXTENDS Screen, Naturals, Sequences, SequencesExt, FiniteSets

CONSTANTS
    SsPaths,       \* paths a page can have; the first page's is one
    SsHome,        \* that path
    SsHosts,       \* hostnames users add
    SsKeys,        \* keys of bindings users add
    SsPending,     \* bound on requests under way
    SsBuilds,      \* bound on builds
    SsAttempts,    \* bound on the attempts at a build its job is granted
    SsOps          \* bound on what the user does

ASSUME SsAssumption == SsHome \in SsPaths /\ SsAttempts \in Nat /\ SsBuilds \in Nat

VARIABLE ss

Lists == {"site", "pages", "bindings", "domains", "builds"}
Mutations == {"publish", "updateSite", "createPage", "updatePage", "importDesign", "buildSite",
              "promote", "createDomain", "updateDomain", "deleteDomain", "createBinding", "deleteBinding"}
Environments == {"production", "preview"}

\* The cache has an entry for the lists that have arrived.
InCache(s, q) == q \in DOMAIN s.cache
HasList(q) == InCache(ss, q)
\* What the page shows of a list that has not arrived: nothing.
Pages(s) == IF InCache(s, "pages") THEN s.cache.pages ELSE <<>>
Domains == IF HasList("domains") THEN ss.cache.domains ELSE {}
Bindings(s) == IF InCache(s, "bindings") THEN s.cache.bindings ELSE {}
Builds == IF HasList("builds") THEN ss.cache.builds ELSE <<>>

-------------------------------------------------------------------------------
(* The canvas *)

\* The page chosen, else the first one.
ActivePage(s) ==
    LET chosen == {p \in Range(Pages(s)) : p.id = s.active}
    IN IF chosen = {} THEN Head(Pages(s)) ELSE CHOOSE p \in chosen : TRUE

\* A mutant: the canvas stays while it is the same page's.
CanvasOfPage(s) == <<ActivePage(s).id>>

\* A canvas is one of a page as it is in the list, with the list of bindings: when either
\* changes, it goes, and what was drawn on it and not saved goes with it.
CanvasOf(s) == <<ActivePage(s), Bindings(s)>>

\* The page is rendered once the site is there.  While the bindings have not arrived each
\* rendering has an empty list of its own.
RenderedStudio(s) ==
    IF ~InCache(s, "site") \/ Pages(s) = <<>> THEN s
    ELSE IF s.canvas # Null /\ s.canvas.of = CanvasOf(s) /\ s.canvas.listed THEN s
    ELSE [s EXCEPT !.canvas = [of |-> CanvasOf(s), listed |-> InCache(s, "bindings"),
                               ready |-> FALSE, base |-> Null]]

\* The editor is imported first; it loads the page's source.
CanvasMounts ==
    /\ ss.canvas # Null /\ ~ss.canvas.ready
    /\ ss' = [ss EXCEPT !.canvas.ready = TRUE, !.canvas.base = ActivePage(ss).src]

-------------------------------------------------------------------------------
(* Lists *)

\* The fetch of a list: none, asked for, or answered with what the server had.
NoAnswer(step) == [step |-> step, list |-> Null]
AskFor(s, q) == [s EXCEPT !.fetch[q] = NoAnswer("asked")]
OnItsWay(s, q) == s.fetch[q].step # "none"

\* A mutant: a fetch under way is thought to be good enough.
ListInvalidatedIdle(s, q) ==
    IF OnItsWay(s, q) THEN [s EXCEPT !.early = @ \/ ~InCache(s, q)] ELSE AskFor(s, q)

\* What is invalidated is fetched again, also when an older fetch is under way; but a list
\* that has never arrived waits for the fetch it has.
ListInvalidated(s, q) ==
    IF ~InCache(s, q) /\ OnItsWay(s, q) THEN [s EXCEPT !.early = TRUE] ELSE AskFor(s, q)

ServeList(q) ==
    /\ ss.fetch[q].step = "asked"
    /\ ss' = [ss EXCEPT !.fetch[q] = [step |-> "answered", list |-> ss.at[q]]]

ListArrives(q) ==
    /\ ss.fetch[q].step = "answered"
    /\ LET cache == [l \in DOMAIN ss.cache \cup {q} |-> IF l = q THEN ss.fetch[q].list ELSE ss.cache[l]]
       IN ss' = RenderedStudio([ss EXCEPT !.cache = cache, !.fetch[q] = NoAnswer("none")])

\* A build that is being built counts as "queued" with those that wait: the page polls for
\* both alike.
Unfinished(builds) == \E i \in DOMAIN builds : builds[i].status = "queued"

\* Every two seconds while a build is not finished.
PollBuilds == Unfinished(Builds) /\ ~OnItsWay(ss, "builds") /\ ss' = AskFor(ss, "builds")

-------------------------------------------------------------------------------
(* What the user does *)

Did(s) == ss' = RenderedStudio([s EXCEPT !.ops = @ - 1])

Call(do, on, with) ==
    /\ Cardinality(ss.net) < SsPending
    /\ Did([ss EXCEPT !.sent = @ + 1, !.last[do] = ss.sent + 1,
                      !.net = @ \cup {[nth |-> ss.sent + 1, do |-> do, on |-> on, with |-> with,
                                       step |-> "sent"]}])

\* A mutation is pending as long as its last call is.
IsPending(do) == \E m \in ss.net : m.do = do /\ m.nth = ss.last[do]

\* The header.
Publish == HasList("site") /\ ~IsPending("publish")
             /\ Call("publish", "site", [published |-> ~ss.cache.site.published])
RenameSite == HasList("site") /\ Call("updateSite", "site", [name |-> 1 - ss.cache.site.name])

\* The pages.  The path's input takes Enter while a page is being created.
CreatePage == HasList("site") /\ \E p \in SsPaths : Call("createPage", "pages", [path |-> p])

UpdatePage(id, change) == Call("updatePage", "pages", [id |-> id, change |-> change])
EditPage ==
    /\ ss.canvas # Null
    /\ \E p \in Range(Pages(ss)) :
         \/ UpdatePage(p.id, [title |-> 1 - p.title])
         \/ \E path \in SsPaths \ {p.path} : UpdatePage(p.id, [path |-> path])
         \/ UpdatePage(p.id, [published |-> ~p.published])

ChoosePage ==
    /\ ss.canvas # Null
    /\ \E p \in Range(Pages(ss)) : p.id # ss.active /\ Did([ss EXCEPT !.active = p.id])

\* Into the page that is active now.
ImportDesign ==
    /\ ss.canvas # Null /\ ~IsPending("importDesign")
    /\ Call("importDesign", "pages", [id |-> ActivePage(ss).id])

\* Without an editor Save does nothing.
SaveProject ==
    /\ ss.canvas # Null /\ ss.canvas.ready /\ ~IsPending("updatePage")
    /\ UpdatePage(ActivePage(ss).id, [src |-> ss.sent + 1])

\* The aside.
BuildSite ==
    /\ ~IsPending("buildSite") /\ \E p \in Range(Pages(ss)) : p.published
    /\ Len(ss.at.builds) < SsBuilds
    /\ \E env \in Environments : Call("buildSite", "builds", [env |-> env])

\* The last four of an environment.
Offered(env) == {Builds[i] : i \in {i \in DOMAIN Builds :
                   Builds[i].env = env /\ Cardinality({j \in 1..i : Builds[j].env = env}) <= 4}}
Promote ==
    /\ ~IsPending("promote")
    /\ \E env \in Environments : \E b \in Offered(env) :
          b.status = "ready" /\ ~b.active /\ Call("promote", "builds", [version |-> b.version])

\* The first domain is to be the primary one; a list that has not arrived has none.
CreateDomain ==
    /\ HasList("site")
    /\ \E host \in SsHosts, env \in Environments :
          Call("createDomain", "domains", [host |-> host, env |-> env, verified |-> FALSE,
                                           primary |-> Domains = {}])
EditDomain ==
    \E d \in Domains :
      \/ ~d.verified /\ Call("updateDomain", "domains", [host |-> d.host, change |-> [verified |-> TRUE]])
      \/ ~d.primary /\ Call("updateDomain", "domains", [host |-> d.host, change |-> [primary |-> TRUE]])
      \/ Call("deleteDomain", "domains", [host |-> d.host])

\* The page offered is the first one, when the list was there in time, or none at all.
CreateBinding ==
    /\ HasList("site") /\ ~IsPending("createBinding")
    /\ \E key \in SsKeys, page \in {Null} \cup {p.id : p \in Range(Pages(ss))} :
          Call("createBinding", "bindings", [key |-> key, page |-> page])
DeleteBinding == \E b \in Bindings(ss) : Call("deleteBinding", "bindings", [key |-> b.key])

\* Back in the window, a list that is old is fetched again.
RefetchList == \E q \in Lists : HasList(q) /\ ~OnItsWay(ss, q) /\ Did(AskFor(ss, q))

SiteUser == \/ Publish \/ RenameSite \/ CreatePage \/ EditPage \/ ChoosePage \/ ImportDesign \/ SaveProject
        \/ BuildSite \/ Promote \/ CreateDomain \/ EditDomain \/ CreateBinding \/ DeleteBinding \/ RefetchList

-------------------------------------------------------------------------------
(* The server: what becomes of a list, or that the request is refused *)

NotDone == {}

\* A PATCH sets the fields it has.
With(item, change) == [f \in DOMAIN item |-> IF f \in DOMAIN change THEN change[f] ELSE item[f]]

Patched(pages, w) ==
    LET new == [i \in DOMAIN pages |-> IF pages[i].id = w.id THEN With(pages[i], w.change) ELSE pages[i]]
    IN IF \E i, j \in DOMAIN new : i # j /\ new[i].path = new[j].path THEN NotDone ELSE {new}

Created(pages, m) ==
    IF \E p \in Range(pages) : p.path = m.with.path THEN NotDone
    ELSE {Append(pages, [id |-> m.nth, path |-> m.with.path, title |-> 0, published |-> FALSE, src |-> 0])}

\* One primary domain for an environment: the others of it are so no more.
Unseated(domains, d) ==
    {IF d.primary /\ e.env = d.env THEN [e EXCEPT !.primary = FALSE] ELSE e : e \in domains}

DomainCreated(domains, w) ==
    IF \E d \in domains : d.host = w.host THEN NotDone ELSE {Unseated(domains, w) \cup {w}}
DomainUpdated(domains, w) ==
    {Unseated(domains \ {d}, With(d, w.change)) \cup {With(d, w.change)} :
        d \in {e \in domains : e.host = w.host}}

Activated(builds, v) ==
    LET env == (CHOOSE b \in Range(builds) : b.version = v).env
    IN [i \in DOMAIN builds |-> IF builds[i].env = env THEN [builds[i] EXCEPT !.active = builds[i].version = v]
                                ELSE builds[i]]

\* Only one that is ready, by now.
Promoted(builds, v) ==
    IF \E b \in Range(builds) : b.version = v /\ b.status = "ready" THEN {Activated(builds, v)} ELSE NotDone

BindingCreated(bindings, w) ==
    IF \E b \in bindings : b.key = w.key THEN NotDone ELSE {bindings \cup {w}}

\* The values of a request's list after it.
After(m) ==
    LET at == ss.at[m.on] w == m.with
    IN CASE m.do \in {"publish", "updateSite"} -> {With(at, w)}
         [] m.do = "createPage" -> Created(at, m)
         [] m.do = "updatePage" -> Patched(at, w)
         [] m.do = "importDesign" -> Patched(at, [id |-> w.id, change |-> [src |-> m.nth]])
         [] m.do = "buildSite" -> {<<[version |-> Len(at) + 1, env |-> w.env, status |-> "queued",
                                      active |-> FALSE, written |-> 0]>> \o at}
         [] m.do = "promote" -> Promoted(at, w.version)
         [] m.do = "createDomain" -> DomainCreated(at, w)
         [] m.do = "updateDomain" -> DomainUpdated(at, w)
         [] m.do = "deleteDomain" -> {{d \in at : d.host # w.host}}
         [] m.do = "createBinding" -> BindingCreated(at, w)
         [] m.do = "deleteBinding" -> {{b \in at : b.key # w.key}}

Handle(m) ==
    /\ m.step = "sent"
    /\ \/ \E new \in After(m) :
            ss' = [ss EXCEPT !.at[m.on] = new, !.net = (@ \ {m}) \cup {[m EXCEPT !.step = "done"]}]
       \/ After(m) = NotDone
            /\ ss' = [ss EXCEPT !.net = (@ \ {m}) \cup {[m EXCEPT !.step = "refused"]}]

Settled(m) == [ss EXCEPT !.net = @ \ {m}, !.last[m.do] = IF @ = m.nth THEN 0 ELSE @]

\* After an import its page is the active one, wherever the user went.
SiteAnswered(m) ==
    /\ m.step = "done"
    /\ LET got == [Settled(m) EXCEPT !.active = IF m.do = "importDesign" THEN m.with.id ELSE @]
       IN ss' = RenderedStudio(ListInvalidated(got, m.on))

AnsweredWithError(m) == m.step = "refused" /\ ss' = RenderedStudio(Settled(m))

-------------------------------------------------------------------------------
(* The workers.  A build's job has attempts left, attempts that are under way, more than *)
(* one when a lease ran out, and its artifact is stored or not.  A worker that dies, and   *)
(* one that is refused an artifact stored already, writes no more: its step never comes.   *)

\* A worker's write of a build's row.
Wrote(builds, i, status) == [builds EXCEPT ![i].status = status, ![i].written = @ + 1]

\* An attempt begins, whatever came of the earlier ones: there is a build to wait for.
WorkerTakes(i) ==
    LET v == ss.at.builds[i].version
    IN /\ ss.jobs[v].left > 0
       /\ ss' = [ss EXCEPT !.jobs[v] = [@ EXCEPT !.left = @ - 1, !.begun = @ + 1],
                           !.at.builds = IF @[i].status = "queued" THEN @ ELSE Wrote(@, i, "queued")]

\* An error is written over whatever another attempt wrote; the queue runs the job again
\* while attempts are left.
WorkerFails(i) ==
    LET v == ss.at.builds[i].version
    IN /\ ss.jobs[v].begun > 0
       /\ ss' = [ss EXCEPT !.jobs[v].begun = @ - 1, !.at.builds = Wrote(@, i, "failed")]

\* A build that is ready is activated.  Unless the worker dies before it completes the job,
\* no attempt follows.
WorkerFinishes(i) ==
    LET v == ss.at.builds[i].version
    IN /\ ss.jobs[v].begun > 0 /\ ~ss.jobs[v].stored
       /\ ss' = [ss EXCEPT !.jobs[v] = [@ EXCEPT !.begun = @ - 1, !.stored = TRUE],
                           !.at.builds = Activated(Wrote(@, i, "ready"), v)]

Worker == \E i \in DOMAIN ss.at.builds : WorkerTakes(i) \/ WorkerFails(i) \/ WorkerFinishes(i)

-------------------------------------------------------------------------------
FirstPage == [id |-> 0, path |-> SsHome, title |-> 0, published |-> TRUE, src |-> 0]
FirstDomain == [host |-> "first", env |-> "production", verified |-> TRUE, primary |-> TRUE]
FirstBuild == [version |-> 1, env |-> "production", status |-> "ready", active |-> TRUE, written |-> 0]

\* The first build's job is over; the others' are there once their builds are.
FirstJobs == [v \in 1..SsBuilds |-> [left |-> IF v = 1 THEN 0 ELSE SsAttempts, begun |-> 0, stored |-> v = 1]]

\* Every list has arrived but one, which may be on its way; the site has a domain, or none
\* if that one is the list of domains.
SsInit ==
    \E late \in Lists : \E domains \in {{FirstDomain}} \cup {d \in {{}} : late = "domains"} :
      LET at == [site |-> [name |-> 0, published |-> FALSE], pages |-> <<FirstPage>>, bindings |-> {},
                 domains |-> domains, builds |-> <<FirstBuild>>]
      IN \E step \in {"none", "asked"} :
           ss = RenderedStudio([at |-> at,
                          cache |-> [q \in {q \in Lists : step = "none" \/ q # late} |-> at[q]],
                          fetch |-> [q \in Lists |-> NoAnswer(IF q = late THEN step ELSE "none")],
                          net |-> {}, sent |-> 0, last |-> [do \in Mutations |-> 0], active |-> Null,
                          canvas |-> Null, jobs |-> FirstJobs, early |-> FALSE, ops |-> SsOps])

SsNext == \/ ss.ops > 0 /\ SiteUser
          \/ CanvasMounts \/ PollBuilds \/ Worker
          \/ \E q \in Lists : ServeList(q) \/ ListArrives(q)
          \/ \E m \in ss.net : Handle(m) \/ SiteAnswered(m) \/ AnsweredWithError(m)

SsSpec == SsInit /\ [][SsNext]_ss

-------------------------------------------------------------------------------
(* Properties *)

\* With nothing under way and no build to wait for, the lists on the page are the server's,
\* in whichever order requests, fetches and workers took their turns; only of builds that
\* are finished there it may not know that one of their environment was run again since.
\* And the canvas has the source the server has of its page, so that Save never puts back
\* what an import or a save replaced: unless a request was answered before its list first
\* arrived (the mutations' onSuccess, refetchInterval, WebDesigner's effect, execute_job).
QuietStudioIsTrue ==
    (ss # Closed /\ ss.net = {} /\ ~ss.early /\ ~Unfinished(Builds) /\ \A q \in Lists : ~OnItsWay(ss, q))
       => /\ \A q \in Lists \ {"builds"} : HasList(q) /\ ss.cache[q] = ss.at[q]
          /\ DOMAIN Builds = DOMAIN ss.at.builds
          /\ \A i \in DOMAIN Builds : \/ Builds[i] = ss.at.builds[i]
                                     \/ \E j \in DOMAIN Builds : /\ Builds[j].env = Builds[i].env
                                                                /\ Builds[j].written < ss.at.builds[j].written
          /\ ss.canvas.ready => \E p \in Range(ss.at.pages) :
                                   p.id = ActivePage(ss).id /\ p.src = ss.canvas.base

===============================================================================
