# A TLA+ model of the VHB Super App

The VHB Super App is a modular monolith: a FastAPI backend on PostgreSQL, with
Redis for sessions and caches, an S3-compatible store for assets, Google Drive
for attached files, worker processes fed from a PostgreSQL queue, and a Next.js
frontend. This directory holds TLA+ modules for its core logic, the TLC runs
that check them on small instances, and TLAPS proofs of the properties that
matter most. All paths below are relative to `src/`.

## 1. Inventory

Every request and every worker iteration has an SQLAlchemy session of its own
(`backend/app/db/session.py`, `expire_on_commit=False`), at PostgreSQL's default
isolation, read committed. A flush writes the attributes whose value differs
from the one loaded, `WHERE id = ...`, with no version check. Only two queries
lock what they read: `claim_next_job` and `publish_next_outbox_event`. So nearly
every handler is *read, await, write over whatever is there now*, and that is
where most of the hazards come from.

| Component | State | Operations | Talks to | What is hard | What makes it correct |
|---|---|---|---|---|---|
| Job queue (`services/jobs.py`, `api/jobs.py`, `worker.py`) | `jobs` rows | enqueue, claim, complete, fail, cancel, retry | handlers, every enqueuing API | leases that run out under a live worker, stale writes, crashes, unique keys | one holder at a time, attempts within budget, outcomes recorded, pending work picked up |
| Sites: builds and deployments (`api/sites.py`, `services/site_build.py`) | `site_deployments`, artifact assets and objects | create, build, promote, serve | queue, storage, assets | three commits per request, repeated builds, promotions racing builds | one active deployment per environment, and that one served, with its artifact |
| Sites: pages, bindings, domains, public runtime | `site_pages`, `site_data_bindings`, `site_domains` | CRUD, render | engine, deployments | primary domain switching, uniqueness | one primary domain per site and environment |
| Outbox and audit (`services/events.py`) | `outbox_events`, `audit_events` | record, publish | every business transaction, queue | several publishers, crashes, head-of-line blocking | each event published, once |
| Notifications (`services/notifications.py`, `api/notifications.py`, `services/email.py`) | `notifications`, preferences, Redis count | create, mark read, count, e-mail | outbox, queue, SMTP, cache | at-least-once mail, cache filled from an old read | bounded mails, truthful `emailed_at`, counts that recover |
| Assets (`api/assets.py`, `services/storage.py`) | `assets` rows, objects | presign, complete, verify, delete | queue, storage | two stores without a transaction | usable only when stored and verified |
| Documents (`api/documents.py`) | `documents` rows | CRUD, versioned save | authorization | version check without a lock | no save is lost |
| Collaboration (`services/collaboration.py`, `api/collaboration.py`) | rooms in memory | join, leave, broadcast | documents, sites | sends outside the lock, reconnecting tabs | presence agrees with the sockets |
| Authorization (`services/authorization.py`, `api/resource_grants.py`, `api/workspaces.py`) | members, grants | require, grant, revoke, role change | every API | decisions on rows that change | owner access, no grant outliving its resource |
| Resource tree (`api/resources.py`) | spaces, folders | create, move, delete | documents, sites, databases | concurrent moves | folders form a forest |
| Database engine (`api/engine.py`, `services/engine.py`) | databases, fields, rows, views | CRUD, relations, rollups | drive files, transfers | max + 1 sequences, whole-map cell writes, mirrored relations | sequence numbers unique, relations symmetric |
| Transfers (`api/transfers.py`, `services/spreadsheets.py`) | rows, assets | import, export jobs | queue, engine | re-execution | an import happens once |
| Drive files (`api/drive_files.py`) | rows, cells, Drive objects | upload, download, delete | Google Drive | compensation, two stores | no cell names a file that is gone |
| Auth and sessions (`api/auth.py`, `services/sessions.py`, `services/cache.py`) | users, Redis sessions, counters | login, logout, link | Redis, Google | revocation, sliding windows | a revoked session stays revoked |
| Views of a database (`frontend/.../table/view-shell.tsx`, `database-view.tsx`, `views-bar.tsx`, `settings-sidebar.tsx`, `api/views.py`) | cached list of views, settings shown, debounce timer | choose, create, order, copy, delete, change settings, presets | query cache, views API | saves of whole settings against refetches, switches and other tabs | settings stay in their view and are stored in the end |
| List, gallery, board (`lib/view.ts`, `lib/search.ts`, `list-view.tsx`, `gallery-view.tsx`, `board-view.tsx`) | rows, filter tree, sorts, group, pages shown | filter, sort, group, search, drag, add, delete | rows API | empty values, ties, cards that leave the page | an operator and its opposite split the rows; sorting is stable; cards land where they are put |
| Table grid (`table-view.tsx`, `cell-editor.tsx`) | highlight, edited cell, draft, selection | keys, mouse, typing, copying | rows | indexes kept while rows move | text lands in its cell, keys follow the highlight |
| Gantt, calendar, date cells (`gantt-view.tsx`, `gantt-scale.ts`, `calendar-view.tsx`) | window, drag, draft, dates | draw, drag, drop, pick | rows | inclusive ends, snapping, inverted ranges | ranges in order, bars inside the window and where they were drawn |
| Rows a table has loaded (`table-view.tsx`, `providers.tsx`, `api/engine.py`) | cached pages | load more, create, bulk, duplicate, delete, move | rows API | pages, refetches and cache edits overlap | a quiet table is complete and in order |
| Columns (`column-menu.tsx`, `field-config.tsx`, `formula-editor.tsx`, `table-view.tsx`, `api/engine.py`) | cached list, menu, options being edited | insert, drag, resize, configure, delete, sub-items | fields API | whole options sent from old copies, list read at the click | inserted columns stand beside their target |
| Site studio (`site-manager.tsx`, `web-designer.tsx`, `api/sites.py`) | lists of pages, bindings, builds, domains; canvas | create, edit, import, build, promote | sites API, queue | canvas built from a cached page, polling | a quiet studio shows the server's state |
| Shell (`app-shell.tsx`, `client.ts`, `deps/workspace.py`) | token and workspace id in storage, query cache | log in, switch, log out | every API | answers of the workspace just left | no workspace's data under another's key |
| Dashboards, other forms, migrations, containers | layouts, widgets | CRUD, rendering | API | none of this kind | not modelled |

`PROJECT.json` lists each component with its status, and, under `hazards`,
every place known to be hard to test, with the properties that watch it.

## 2. Modules

| Module | Models | Source |
|---|---|---|
| `LeasedWork` | what the queue promises a handler: one holder per job, a bounded number of takes, holds that may end unnoticed | abstract |
| `JobQueue` | the jobs table, the worker loop, the jobs API | `services/jobs.py`, `worker.py`, `api/jobs.py`, `models/job.py` |
| `JobQueueProofs` | the proofs about `JobQueue`, including that it implements `LeasedWork` | |
| `SiteDeployments` | one site's deployments over `LeasedWork` | `api/sites.py`, `services/site_build.py`, `api/assets.py` |
| `NotificationDelivery` | outbox, publisher and e-mail handler over `LeasedWork` | `services/events.py`, `services/notifications.py`, `services/email.py`, `worker.py` |
| `ViewSettings` | the views of a database in several tabs | `view-shell.tsx`, `database-view.tsx`, `views-bar.tsx`, `settings-sidebar.tsx`, `api/views.py` |
| `Screen` | values the browser's modules share | |
| `Arrays` | `filter`, the stable `sort`, and objects with a key more | `lib/view.ts`, `board-view.tsx` |
| `RowViews` | list, gallery and board | `lib/view.ts`, `lib/search.ts`, `list-view.tsx`, `gallery-view.tsx`, `board-view.tsx` |
| `TableGrid` | the grid of a table and its cell editors | `table-view.tsx`, `cell-editor.tsx` |
| `DateViews` | bars, calendar, date picker | `gantt-view.tsx`, `gantt-scale.ts`, `calendar-view.tsx`, `cell-editor.tsx` |
| `RowClient` | the pages of rows a table keeps | `table-view.tsx`, `api/engine.py` |
| `Columns` | the columns and what changes them | `column-menu.tsx`, `field-config.tsx`, `formula-editor.tsx`, `table-view.tsx`, `api/engine.py` |
| `DocumentEditing` | one document in several tabs | `block-document-editor.tsx`, `document-client.tsx`, `api/documents.py` |
| `SiteStudio` | the page that manages a site | `site-manager.tsx`, `web-designer.tsx`, `api/sites.py` |
| `Presence` | who else is there | `services/collaboration.py`, `api/collaboration.py`, `lib/collaboration.ts` |
| `UnreadCount` | the bell and the cached count | `notification-bell.tsx`, `services/notifications.py`, `api/notifications.py` |
| `Workspaces` | the workspace a tab works in | `app-shell.tsx`, `client.ts`, `deps/workspace.py` |
| `Browser` | one tab's screen: one of the ten modules above | |
| `MC*` | the finite data and symmetry sets for TLC | |
| `SiteDeploymentsProofs`, `NotificationDeliveryProofs`, `ViewSettingsProofs` | the proofs about those modules | |
| `ScreenProofs` | the proofs about `DocumentEditing`, `RowClient`, `DateViews`, `SiteStudio`, `Columns` and `TableGrid`, and about the filter operators of `RowViews` | |
| `ShellProofs` | the proofs about `Workspaces`, `UnreadCount` and `Presence` | |
| `BrowserProofs` | that those properties hold of `Browser`, and the other proofs about `RowViews` | |
| `BoundedSets` | lemmas the proofs share: sets of numbers, sequences, orders, what filtering and sorting return | |

The queue is modelled twice on purpose. `JobQueue` has the rows, the stale
copies, the leases and the clock. `LeasedWork` is what is left for a handler to
rely on. The refinement between them is checked (`ImplementsPromise`) and proved
(`QueueImplementsPromise`), and the handlers' modules instantiate `LeasedWork`:
a handler therefore meets every behaviour the queue can show it, and more (a
hold may end at any time, and a completed job may be taken again while it has
attempts left).

### JobQueue

`job` is the table. A worker process is `worker[w]`: `idle` before
`claim_next_job`, `claimed` between its commit and `db.refresh`, `executing`
until `complete_job` or `fail_job` commits, `down` after a crash. `copy` is the
`Job` object its session holds. An API request is `request[r]`, between the load
and the commit. `Flush(row, loaded, attr)` is the UPDATE of a flush: a column is
written if and only if its attribute differs from the loaded one. `Claim`,
`Complete`, `Fail`, `RetryLoad`/`RetryCommit`, `CancelLoad`/`CancelCommit`,
`EnqueueLookup`/`EnqueueInsert` are the functions of those names; `Crash`,
`Restart` and `RequestLost` are the processes dying.

Time is relative. `run_after` counts the ticks until a job is due. Once it is
due only its place in the `ORDER BY` matters and is kept as a rank.
`lock_age` counts ticks since `locked_at`, up to one past the lease. `Tick` advances
all of them.

Two history variables say what the code itself does not record. `overtaken`
has the workers whose lease ran out, or whose row somebody else wrote, while
they were executing. `replied` has what `enqueue_job` answered per key.

### SiteDeployments

`deployment` maps the ids in the table to rows. A request moves through
`create`/`enqueue` (`create_site_deployment` commits in between), `promote`/`activate`
(`promote_site_deployment` reads the row, then the active rows, then commits), or
`delete` (`delete_asset` removes the object, then the row). A worker's session
moves through `loaded`, `building`, `stored`, `inserted`, `ended` along
`build_site_deployment`. Listing the active rows flushes `asset_id` and
`status`, so an `inserted` row is locked until the commit. Mutual waits that
PostgreSQL resolves by failing one transaction appear as `Crash`.
`InsertRefused` is the second execution of a finished build: `object_key` is
unique, the flush fails, and since the code never rolls back, `execute_job`'s and
`fail_job`'s commits fail as well and the exception leaves `main()`.

`outdated` has the sessions whose row, or list of active rows, somebody changed
before they committed; `raced` has the environments whose last activation was
by such a session.

### NotificationDelivery

`outbox` is the unpublished events in the order of `created_at` (an event may be
inserted before the end, since `created_at` is the start of its transaction).
`worker[w]` follows `main()`: `poll` (run_once), `outbox`
(publish_next_outbox_event), with `locked` and `decided` inside the publisher's
transaction and `emailing`, `sent`, `ended` inside the handler. `sent` counts what
SMTP accepted.

### ViewSettings

`live`, `order`, `stored` are the rows of `views`. `sess[s]` is a tab: the cached list,
the view chosen and shown, `local` (what `ViewShell` holds in state), the debounce
`timer`. The four settings a preset captures are one value of `Looks`; all others are
one number that names their last change. A save in `net` carries the whole settings.
`lineage` says which views a view was copied from, so that `SettingsStayInTheirView`
can tell a copy from a leak.

### The browser's modules

Each has one variable, a record, that is `Closed` while another screen is shown;
`Browser` is the disjunction of their specifications over the ten variables. The
screens do not read each other's state. What they have in common, the server's
rows and the query cache, each models for the part it uses.

`RowViews`, `TableGrid` and `DateViews` are about what is computed and shown: requests
are answered at once there. `RowViews` has the operators of `lib/view.ts` as
functions of small data (a text is a sequence of letters, a choice a number with a
label); they take the view as a parameter, so that its rows before and after a step can be
compared. `TableGrid` takes the order and grouping of the rows as an *arrangement* that
may change at any time. `DateViews` counts time in the snap steps of the finest
period, with months of one length; an all-day range ends on its last day, which is
drawn whole, and most of its properties turn on that.

`RowClient`, `Columns`, `DocumentEditing`, `SiteStudio`, `UnreadCount`, `Presence` and
`Workspaces` are about what overlaps. A request is a record in `net` that goes through
`sent`, handled, `answered`; a fetch is `Asked`, then the answer, then installed in
the cache. React Query's rules are kept: invalidating a query that is mounted fetches
it again and drops the fetch under way, a request answered before a list is there
invalidates nothing, refetching pages goes page by page. A cache is a function on the
queries that have arrived. A client's list in `Presence` is kept as how often each
session is on it: the order of the names is layout, a name listed twice is not. In `UnreadCount`, in `DocumentEditing`
and in `Presence` the handlers' awaits split a handler into steps (joining a room takes
the slot and the snapshot under the lock and sends the snapshot after it, in `Join` and
`Greet`). In `RowClient` a creation reads the highest number in one step (`ReadTop`) and
inserts in another, since nothing keeps another creation out in between: two in flight get
the same `order` and `seq`, and a query sorts rows that tie in any way, each page anew
(`AtPlace`, `Slices`). Its other handlers, and the field handlers of `Columns`, are one step
each. `SiteStudio` has of a build what lists can show: its job's attempts left, those under
way (two when a lease ran out), whether its artifact is stored, and every status a worker
writes; an attempt that failed is followed by the next one, as `fail_job` requeues it. A
canvas is one of a page and the list of bindings: the `useMemo` of
`site-manager.tsx:355` gives a new array whenever either changes.

History fields record what the code does not, and what a property excepts: `torn`
(`RowClient`: an answer the cache could not follow; `Presence`: a session with two
sockets, or a send that failed), `undone` (`Presence`: the sessions a socket was told of
before its snapshot, which has them otherwise), `written` (`SiteStudio`: how often workers
wrote a build's row), `early` (`SiteStudio`: a request was answered before its
list arrived), `overlap` (`DocumentEditing`: two saves between check and commit), `seen`
(the texts an editor started from or wrote).

## 3. Runs

| Run | Instance | Shows |
|---|---|---|
| `queue_safety` | 1 job, 2 workers, 1 request, 1 key, lease 1 tick, 2 attempts | types; `HolderOwnsRow`, `SoleExecutor`: reclaiming never evicts a live lease; `StartsWithinBudget`: no stale write forgets an attempt; `OutcomeRecorded`; `ImplementsPromise` |
| `queue_liveness` | 2 jobs, 1 worker, 1 request, lease 0 | `PendingIsPickedUp` |
| `queue_keys` | 2 jobs, 2 requests, 1 key, no worker | `OneJobPerKey` |
| `queue_stuck` | 1 job, 1 worker, 1 attempt | **violation**: `EveryJobSettles` |
| `sites_activation` | 2 deployments, 2 environments, 1 worker, 1 request, 1 attempt per grant | `OneActive`, `ActivationTakesEffect`, `EnvironmentsIndependent`, `ServedHasArtifact` |
| `sites_twin_builds` | 1 deployment, 2 workers, 1 request, 2 attempts | the same build executed by two workers at once |
| `sites_rollback` | 2 deployments, 1 environment, 1 worker, 1 request | **violation**: `PromotionTakesEffect` |
| `delivery` | an event with an e-mail and one without, 2 workers, 2 attempts, up to 4 granted | `PublishedOnce`, `EmailBudget`, `EmailedWasSent`, `EventsArePublished` |
| `view_settings` | 3 view ids (2 at first), 2 tabs, 1 preset, 2 looks, 2 changes | `SettingsStayInTheirView`, `QuietMeansStored`, `ActivePresetExists`, `DroppedBeforeTarget`, `NoSaveLoop` |
| `view_reopened` | 1 tab, 3 changes | **violation**: `ReopenedAsStored` |
| `browser` | one screen at a time, see below | `OppositesSplit`, `SortingKeepsTies`, `DroppedCardLands`, `NewCardInSight` (`RowViews`); `TypedStaysInCell`, `KeysFollowHighlight`, `SelectionSpansRows` (`TableGrid`); `RangesInOrder`, `WindowHoldsBars`, `BarStaysWhereDrawn`, `EventLandsOnDay` (`DateViews`); `QuietTableIsComplete` (`RowClient`); `InsertedBeside` (`Columns`); `NothingReplacedUnseen` (`DocumentEditing`); `QuietStudioIsTrue` (`SiteStudio`); `EveryoneListed` (`Presence`); `BadgeCatchesUp` (`UnreadCount`); `CacheOfItsWorkspace` (`Workspaces`) |
| `document_autosave` | 1 tab, 1 editor, no losses | **violation**: `AutosaveStoresText` |

Why the bounds are enough. Jobs do not interact except through the `ORDER BY`, so
safety needs one job (and the proofs cover any number), while starvation needs
two. Two workers are what it takes for one to outlive its lease; a third meets the
same row in the same two roles. A lease of one tick has a tick inside it and one
that ends it. Two attempts distinguish the first, a retry, and the last. Two
deployments are what a promotion can confuse; the worker's build and the request's
promotion run concurrently, and manual retries repeat both without end. Two
publishers and two events give every order of locking, skipping and dying.
`Attempts`, `MaxGranted`, `Lease`, `BackoffCap` and `Budgets` are the only numeric
bounds of these modules; the last three are the code's own.

In the browser's modules `...Ops` bounds what the user does and `...Pending` the requests
under way; when its operations are used up a user leaves the page alone, while
answers, the fetches they set off and the server's handlers still run to the end, so
that the "quiet" states the properties speak of are reached. Two or three
operations are what it takes for one to overlap the effect of another; the page size
(2), the board's page (1 card) and the most ticks of a window (20) are small enough for
"Load more", for cards beyond the page, and for cut-off ticks to happen. Three editors
and two tabs let a document be left, opened again from the cache, and written elsewhere.
`CoOps` (3) counts the sockets opened and the events sent: three sockets of two sessions let
one session come back while the other joins, two sockets leave an event to be said. `RcPending`
(2) is what two creations with one number take, and three rows on pages of two put the tie
across the end of a page. `SsBuilds` (2) is the build there is at first and one more,
`SsAttempts` (2, the code has 3) one that fails and the one that follows. When the studio
opens, every list has arrived but one, which is on its way or not even asked for.
The run has 2,706,768 states or so and takes three minutes.
`NbTtl` (2) is the 30 seconds of the cached number in intervals of 15. `TgOps` and `DvOps` are 4:
clicking a cell, typing, moving a row, and leaving the cell are four things.

Every property has a seeded fault beside the operator it changes (`FlushAllColumns`,
`LeaseExpiredEarly`, `ActivatedBeside`, ...), and TLC finds the property violated
with it.

### What three properties leave open

`QuietTableIsComplete` says which rows can stand in each place of a table that has been loaded
to its end. Rows created at once share their number, and where a page ends between two
such rows the table can show one of them twice and the other not at all: `rowsQ` asks for each
page with a query of its own, and `ORDER BY order, seq` does not tell them apart. A row that
ties with no other is there once. `models/field.py:95` says a row number is never reused; it is,
when the last row was deleted or two creations overlap, and the model does as the code does.

`QuietStudioIsTrue` excepts finished builds of an environment of which a worker wrote a
build again after the list was fetched. The page polls while a build is queued or building
(`site-manager.tsx:234`), and `execute_job` writes `failed` before `fail_job` requeues the job.
So a list fetched between two attempts shows `failed` and is not fetched again, while the next attempt
makes the build ready and active.

`EveryoneListed` excepts, for each window, the sessions it was told of before its own snapshot
and not since: `join` sends the snapshot after the lock is given up, so a `joined` or `left` of
another socket can be sent first, and the older snapshot then replaces the list
(`collaboration.ts:64`).

### What the four violations say

`queue_stuck`. `claim_next_job` takes over an expired lease only while
`attempts < max_attempts` (`services/jobs.py:63`). A worker that dies during the last
attempt leaves the row `running`: no worker selects it, `fail_job` never runs,
and retry refuses it. Only a user who thinks of cancelling it can end it. ADR 0003
promises explicit state and a worker lease, and the tests take for granted that
an exhausted job is `failed`.

`sites_rollback`. A user promotes the deployment that is active already (to hold
it, or because a build is under way). Between the request's reads and its commit a
build finishes and activates the new version. The promotion then assigns `True`
to a flag it loaded as `True`, which writes nothing, and clears rows that are
clear. The answer is 200 and visitors get the new version. With a promotion
of an inactive row both end up active, and the higher version is served.

`view_reopened`. A tab changes a view, the debounced save is sent and stored, the user looks at
another view and comes back. `saveView` (`view-shell.tsx:183`) puts its answer nowhere, so
`ViewShell` starts from the settings in the cached list, the old ones. The next change
sends them whole, over the new ones. `view-shell.tsx:51` calls these settings
persisted.

`document_autosave`. The user writes, a save is sent, and the user goes on writing before it is answered. The second
save carries the version of the answer before both, is refused with 409, and the editor
shows an error; nothing sends the text again until the next key. ADR 0005 says that
BlockNote autosaves after a short debounce.

## 4. Fairness

`JobQueue`: weak fairness of `Tick` and of a worker's own steps (handlers return or
raise, and a supervisor restarts a dead process: ADR 0003 names the standalone
worker process, `main.py` runs it in process only in development), and strong
fairness of `Claim`, since a process that keeps crashing could otherwise always do
so just before it claims. Users and crashes owe nothing: a job may be cancelled and
retried for ever, and `PendingIsPickedUp` still gives the other job its turn, because a
retry moves a job to the back of the order.

`NotificationDelivery`: weak fairness of each process's steps. `EventsArePublished`
assumes that the processes stop dying at some point; without that a process may
die at every lock it takes.

`ViewSettings`: weak fairness of timers and of requests being answered, none of users.
`NoSaveLoop` is the claim of a comment in `view-shell.tsx`: once the users stop, so do
the saves.

`SiteDeployments` and the modules of `Browser` have no liveness property: that what is
asked for is answered at all is up to the network. Their "quiet" properties say what
holds when it has been.

## 5. Proofs

The runs check small instances. The theorems below hold for every value of the
constants that the modules' ASSUMEs allow, and rest on nothing else: every step is
checked by `tlapm`. `PROJECT.json` lists them.

None of the properties is inductive alone: each proof has an invariant that is, with the
three facts `Init => IInv`, `IInv /\ [Next]_vars => IInv'` and `IInv => Property`.
TLC checked each invariant on the instances of the runs before it was proved. There is
one lemma per action (`...Sound`, `...Steps`) and under it one step per part of the
invariant that the action can disturb.

### The queue and what it carries

`JobQueueProofs`: `TypeCorrect`, `Invariant`, `HolderOwnsRowHolds`, `Exclusive` (`SoleExecutor`),
`BudgetRespected`, `OutcomesAreRecorded`, `KeysAreUnique` (`OneJobPerKey`), `QueueImplementsPromise`.
Assumed: finitely many jobs, null values that are no members, positive budgets.
`QueueInv` adds to the types that attempts stay within the budget
(`WithinBudget`), that a session's job is in the table (`SessionsHoldRows`), and
`HolderOwnsRow`. The last is the heart of it: while a worker is not in `overtaken` its
claim is still in the row *and the copy it will write back equals the row*, so its
flush cannot undo anything. Two such workers would both be `locked_by`, which
gives `Exclusive`. A worker that *is* overtaken can write anything its copy allows, and
the budget survives because no handler but the claim and retry changes `attempts`, so no
flush writes that column. `KeysAreUnique` needs an invariant of its own, that a reply
names a job that still has the key it was asked for: flushes of overtaken sessions do
not write `idempotency_key` either.

`NotificationDeliveryProofs`: `TypeCorrect`, `InvariantHolds`, `EventsPublishedOnce`, `MailsWithinBudget`,
`EmailedTellsTruth`, `UsesThePromise`. Assumed: `MaxGranted >= Attempts`, a bound of the
model. Added to the properties: an event is locked by one publisher
(`OnePublisher`), a preference is read for an event about to be published (`WantedIsDecided`),
a job exists only for a published event (`JobIsPublished`), a mail is sent only for a job
(`EmailHasJob`). The budget counts what was sent against the attempts taken, with a
handler between its send and its commit counted on the side that is ahead.

`SiteDeploymentsProofs`: `TypeCorrect`, `Invariant`, `OneDeploymentActive`, `ArtifactIsStored`, `ActivationDecides`
(`ActivationTakesEffect`), `IndependentEnvironments`, `UsesTheQueue`. Added: what a session
has read and nobody has changed since is still true (`ReadsStillTrue`), a session clears rows of
its own environment only (`SeenInEnvironment`), a row with an asset, and a build past its
upload, has an artifact in storage or one that `delete_asset` took (`ArtifactsStored`), and the
table is finite with bounded versions, so that a highest one exists.

`UsesThePromise` and `UsesTheQueue` show that what these two do to their jobs is a behaviour of
`LeasedWork`; `QueueImplementsPromise` shows that `JobQueue` is one. So nothing is assumed of the
queue by its handlers that the queue is not proved to give.

### Views

`ViewSettingsProofs`: `TypeCorrect`, `Invariant`, `PresetsExist`, `SettingsStay`, `QuietIsStored`, `DropsLand`. Assumed:
the list opened first names each view once and is not empty. `ViewInv` says of every copy
of the settings, in the table, in a cached list, shown in a tab, in a debounce timer or
under way, that it is whole and at home in its view (`ViewsAtHome`), and of every tab that its
newest save is stored, still under way, failed or overtaken (`SavedOrSaving`). `DropsLand` is
proved from what each PATCH of a drag writes: with all of them through and nothing in between
the orders are `0 .. n - 1` along the list the user made, and two lists that are both
sorted by such orders are the same (`OnlyList`).

### The browser

What is proved of a screen is lifted to `Browser` in `BrowserProofs`: a closed screen does
nothing, and no other screen's step touches its state. Those theorems are about the
definitions that the run `browser` checks.

| Theorem of `BrowserProofs` | Invariant | Why the property alone is not inductive |
|---|---|---|
| `BrowserKeepsWorkspacesApart` | `WkInv` | answers arrive after a switch: a query that was not dropped was sent with the stored workspace, or with none while none was stored, when the server takes the first one. Claimed while one person uses the browser; `users` has who did |
| `BrowserBadgeIsRight` | `NbInv` | a wrong number in the cache lives at most as long as it is since the last change (`cache.left + calm <= NbTtl`), a count begun before the change is wrong only in its interval, and a badge that is not right has a count under way |
| `BrowserListsEveryone` | `CoInv` | messages and snapshots are sent outside the lock: for each window and session, reading the inbox, and the snapshot still to be sent, will make the list what the room is, or a handler is still to tell (`Owed`), or the session is one of those `undone`; what a handler has yet to send as its snapshot is kept beside the inbox for that; a slot belongs to the one socket of its session that is in the room, and who leaves has closed |
| `BrowserReplacesNothingUnseen` | `DeInv` | versions only grow, and whoever holds the stored version, in a cache, an answer, an editor or a save, has seen the stored text |
| `BrowserTableIsComplete` | `RcInv` | what is kept, and what is fetched so far, are consecutive pages of one size, each a slice of some way the rows as they are can be sorted, once no request is under way; that rows have numbers of their own is no part of it, since creations in flight may share them |
| `BrowserRangesInOrder`, `BrowserWindowHoldsBars`, `BrowserBarStaysWhereDrawn`, `BrowserEventLandsOnDay` | `DvInv`, `DvHeld` | ranges are in order in the cells, in the draft of the picker and in the bar held; the ends of a range both have a time or neither has; the bar or event held is still the one pressed |
| `BrowserInsertedBeside` | `CfInv` | columns have numbers of their own, and every list of them, shown, fetched or sent, has each at most once; a column that is created for an insertion is not in the list of its click. With the last premise of the property the reordering then writes every column's place, so nothing that moved columns meanwhile matters |
| `BrowserTypedStaysInCell`, `BrowserKeysFollowHighlight`, `BrowserSelectionSpansRows` | `TgInv` | what is in the input is the cell's value, or was typed into this cell (`DraftBelongs`), which every step keeps because it ends in the same rendering (`GridStep`); in rows that are neither sorted nor filtered the anchor is where the row clicked first stands, and what is selected spans from there (`SpanSound`). The keys need only that what is left of a list of different ones is a list of different ones (`KeptIs`) |
| `BrowserOppositesSplit` | none | of an operator and its opposite exactly one holds of a cell, whatever the cell, the labels and the text are (`OneOfOpposites`), so it holds of every state of the view |
| `BrowserSortingKeepsTies` | `RvInv` | what is shown is computed from the rows, so these must be different ones (with a row twice "where it stood" has no answer), the cells of the kind their column is of, and the sort rules rules; the properties say nothing of that. The rule chosen from the menu comes first, so of two rows its column tells apart the right one is ahead, and rows it does not tell apart are compared by the rules that were there before: the order of the menu is finer than theirs (`TiesKept`) |
| `BrowserDroppedCardLands` | `RvInv` | the same, and that a card being dragged is a row of the view: the cells that `Placement` writes are, by their text, what the column and the swimlane ask for, and no other cell of the card changes (`DroppedLands`) |
| `BrowserNewCardInSight` | `RvInv` | the same, and that the pages shown are numbers: the page that `addCard` sets shows as many cards as there are rows, the new one included, and a column has no more of them (`NewCardShown`) |
| `BrowserStudioIsTrue` | `SsInv` | a list that no answer is going to invalidate is the server's, whether it is kept or about to arrive; or, of builds, it has one to wait for, or is behind: it has the same builds in the same order, none with more writes than the table, and where an environment differs a build of it was written since (`Fresh`, `Behind`). For this every write of a worker must be counted (`WritesBuilds`), and a promotion, which is not, has an answer on its way; the canvas is the one of the page as the list has it |

Assumed: `WkAssumption` (each person is in a workspace at least), `NbAssumption`,
`DeAssumption`, `RcAssumption` (page size, first rows and bulk are positive), `DvAssumption` (positive
lengths of time; initial cells in order, with a time on both ends or on neither, as the
date picker writes them), `SsAssumption` (the first page's path is a path), `CfAssumption` (there is a first column), `TgAssumption`
(rows, columns and every arrangement are lists that name each once), `RvAssumption` (the same of the
rows and columns of a view; the cells of a table are of the kinds its columns have, labels are
texts, a page holds a row at least). `Presence` needs none.

Four arguments recur. *Numbers by rule*: `Max`, `Min` and the highest order in use are
CHOOSEs; that one exists follows from well-foundedness of `<` (`WFMin`, in `BoundedSets`), and
that two of them are equal from equal conditions (`SameByRule`, `SameSteps`). *Shapes*: a
record is `s \in [f : {s.f}, ...]` and a function `[q \in D |-> f[q]]` where only its being one
matters, so that an invariant speaks of the fields it is about. *Only the last message
counts*: what a list will say once an inbox is read depends on the last message
about a session (`ToldLast`, `ReadFirst`), so no induction over inboxes is needed. *Induction as
a least counterexample*: filtering and sorting are recursive functions on the length of what is done
(`Arrays`), and what they return for every list is shown by taking the least length at which it would
fail (`HasLeast`): what is left of a list of different ones is one (`KeptIs`), and sorting by a weak
order returns the same elements, in that order, those it does not tell apart as they stood (`SortedIs`).
That weak orders applied one after the other, as the sort rules are, make a weak order is `ByFirstOrders`.

### Only model-checked

- Liveness under fairness, which is out of the prover's reach: `PendingIsPickedUp`, `EventsArePublished`, `NoSaveLoop`.
- The four violations of section 3, by their nature.

`SiteDeployments`, `NotificationDelivery` and `ViewSettings` state a `TypeOK` that the runs do not list; it is
there for the proofs.

## 6. Not modelled

Payloads, HTML, SQL text, wording, token formats and metrics. In
`JobQueue`: `result` (written together with the status) and the tie-break on
`created_at` among equally due jobs (any of them may be chosen). In
`SiteDeployments`: deletion of a whole site, page and binding edits during a
build (they change what is rendered, not the control), and the `published`
flag of the site. In `NotificationDelivery`: the lazily created preference row, deleted
users, and a job whose key was already taken by somebody who enqueued the same key
by hand.

In the browser: layout, styles, colours, wording, and what a library draws (BlockNote, GrapesJS,
React Query's own retries). `RowViews` leaves out dates and relations as filter values;
`TableGrid` what file, formula and relation cells do; `DateViews` time zones and months of
different lengths; `Columns` which options a type has; `RowClient` cells (`TableGrid` has them)
and filters the server evaluates; `Workspaces` the sidebar's folders and dialogs.

Not modelled at all: authorization and grants, the resource tree, imports and exports,
drive files, sessions, dashboards, relations and rollups, the formula interpreter, the
client types generated from the API, migrations and scripts.

## 7. What is left

Every safety property the runs check is proved; what is left are models, in order of what they would add:

1. `LeasedWork` with completed jobs and workers that lost their hold, so that handlers can
   rely on a job not being taken again after an undisturbed success; e-mails sent once
   when nothing was disturbed.
2. Cell merges of `update_row`, mirrored relations, import and export handlers over `LeasedWork`.
3. Moves that close a cycle of folders, grants against role changes and deletions.
4. Drive files: upload with compensation and deletion over two stores.
5. Sessions: revocation and rate limiting.
