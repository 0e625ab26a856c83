--------------------------- MODULE SiteDeployments ---------------------------
(***************************************************************************)
(* Builds, activation and rollback of one site: the site_deployments rows  *)
(* (models/site.py), the requests that create, promote and unpublish them  *)
(* (api/sites.py, api/assets.py) and the site.build handler                *)
(* (services/site_build.py) that a worker runs.                            *)
(*                                                                         *)
(* The job queue appears as its promise, LeasedWork: one job per           *)
(* deployment (the key site-build:<id>), taken by one holder at a time,    *)
(* at most Attempts times per grant.  A handler does not notice that it    *)
(* lost the hold, so two workers may build the same deployment.            *)
(*                                                                         *)
(* As in JobQueue, a session works on the row it loaded and writes at      *)
(* commit the columns it changed; a row written and not yet committed is   *)
(* locked.                                                                 *)
(***************************************************************************)
EXTENDS Integers, FiniteSets

CONSTANTS
    Deployments,    \* deployment ids the site may come to have
    Environments,   \* production, preview
    Workers,
    Requests,       \* concurrent API requests
    NoWorker,
    NoDeployment,
    Attempts        \* max_attempts of a site.build job

ASSUME SiteAssumption ==
    /\ NoDeployment \notin Deployments
    /\ NoWorker \notin Workers
    /\ Workers \cap Requests = {}
    /\ Environments # {}
    /\ Attempts \in Nat \ {0}

VARIABLES
    deployment,     \* the site_deployments rows of the site
    object,         \* deployments whose artifact is in object storage
    session,        \* per worker: how far its build is, and the row it loaded
    request,        \* per API request: likewise
    holder, left,   \* the job queue, see LeasedWork
    outdated,       \* history: sessions whose reads another commit changed
    doomed,         \* history: deployments whose object was deleted
    raced           \* history: environments last activated by an outdated session

queue == <<holder, left>>
vars == <<deployment, object, session, request, queue, outdated, doomed, raced>>

Queue == INSTANCE LeasedWork WITH Jobs <- Deployments, Budgets <- {Attempts}

-----------------------------------------------------------------------------
(* Rows and sessions.                                                      *)

SiteDeploymentStatus == {"queued", "building", "ready", "failed"}

SiteDeployment == [status: SiteDeploymentStatus,
                   environment: Environments,
                   version: Nat,
                   created: Nat,            \* order of created_at
                   active: BOOLEAN,
                   asset: BOOLEAN,          \* its artifact has an assets row
                   job: BOOLEAN]            \* its site.build job is enqueued

Session == [pc: {"idle", "loaded", "building", "stored", "inserted", "ended"},
            d: Deployments \cup {NoDeployment},
            status: SiteDeploymentStatus,   \* the loaded row's
            active: BOOLEAN,                \* likewise
            seen: SUBSET Deployments]       \* active rows found, itself included

Handler == [op: {"none", "create", "enqueue", "promote", "activate", "delete"},
            d: Deployments \cup {NoDeployment},
            active: BOOLEAN,
            seen: SUBSET Deployments,
            version: Nat]

NoSession == [pc |-> "idle", d |-> NoDeployment, status |-> "queued",
              active |-> FALSE, seen |-> {}]
NoRequest == [op |-> "none", d |-> NoDeployment, active |-> FALSE, seen |-> {},
              version |-> 0]

Existing == DOMAIN deployment
In(e) == {d \in Existing : deployment[d].environment = e}
Active(e) == {d \in In(e) : deployment[d].active}

(* Seeded fault: the rows of the other environments are not left out.      *)
ListedEverywhere(d) == {x \in Existing : deployment[x].active}

(* The rows a session about to activate d finds active.                    *)
Listed(d) == Active(deployment[d].environment)

(* The UPDATE of a row is held until its session commits.                  *)
Locked(D) == \E w \in Workers : session[w].pc = "inserted" /\ session[w].d \in D

(* Sessions whose picture the step spoils: it changes the row they loaded, *)
(* or what is active in an environment whose active rows they listed.      *)
ListChanges(d) == \E e \in Environments : d \in In(e) /\ Active(e)' # Active(e)
RowChanges(d) == deployment'[d] # deployment[d]

Spoiled ==
    {w \in Workers : \/ session[w].pc \notin {"idle", "ended"} /\ RowChanges(session[w].d)
                     \/ session[w].pc = "inserted" /\ ListChanges(session[w].d)}
    \cup
    {r \in Requests : \/ request[r].op \in {"promote", "activate"} /\ RowChanges(request[r].d)
                      \/ request[r].op = "activate" /\ ListChanges(request[r].d)}

(* Session s writes, and goes on, or is over.                              *)
Writes(s) == outdated' = outdated \cup (Spoiled \ {s})
WritesLast(s) == outdated' = (outdated \cup Spoiled) \ {s}

-----------------------------------------------------------------------------
(* create_site_deployment: read the highest version, insert, enqueue, in   *)
(* three transactions (linking job_id is the third's only effect).         *)

next_site_deployment_version ==
    1 + (IF Existing = {} THEN 0
         ELSE CHOOSE v \in {deployment[d].version : d \in Existing} :
                \A d \in Existing : deployment[d].version <= v)

Queued(e, v) == [status |-> "queued", environment |-> e, version |-> v,
                 created |-> 1 + Cardinality(Existing),
                 active |-> FALSE, asset |-> FALSE, job |-> FALSE]

CreateRead(r) ==
    /\ request[r].op = "none"
    /\ request' = [request EXCEPT ![r] =
                     [NoRequest EXCEPT !.op = "create",
                                       !.version = next_site_deployment_version]]
    /\ UNCHANGED <<deployment, object, session, queue, outdated, doomed, raced>>

CreateInsert(r, d, e) ==
    /\ request[r].op = "create"
    /\ d \notin Existing
    /\ deployment' = [x \in Existing \cup {d} |->
                        IF x = d THEN Queued(e, request[r].version) ELSE deployment[x]]
    /\ request' = [request EXCEPT ![r] = [NoRequest EXCEPT !.op = "enqueue", !.d = d]]
    /\ UNCHANGED <<object, session, queue, outdated, doomed, raced>>

CreateEnqueue(r) ==
    /\ request[r].op = "enqueue"
    /\ Queue!Grant(request[r].d, Attempts)
    /\ deployment' = [deployment EXCEPT ![request[r].d].job = TRUE]
    /\ request' = [request EXCEPT ![r] = NoRequest]
    /\ UNCHANGED <<object, session, outdated, doomed, raced>>

(* POST /jobs/{id}/retry on the deployment's job.                          *)
RetryBuild(d) ==
    /\ deployment[d].job
    /\ Queue!Grant(d, Attempts)
    /\ UNCHANGED <<deployment, object, session, request, outdated, doomed, raced>>

-----------------------------------------------------------------------------
(* Activation: every other active row of the environment that the session  *)
(* saw is cleared; its own flag is set, which writes the column only if    *)
(* the row was loaded with the flag clear.                                 *)

(* Seeded fault: the rows active so far are left alone.                    *)
ActivatedBeside(d, seen, loadedActive, row) ==
    [deployment EXCEPT ![d] = [row EXCEPT !.active = TRUE]]

(* Seeded fault: the flag is set first, then the rows found are cleared.   *)
ActivatedThenCleared(d, seen, loadedActive, row) ==
    [x \in Existing |->
        LET new == IF x = d THEN row ELSE deployment[x]
        IN  [new EXCEPT !.active = x \notin seen /\ (x = d \/ @)]]

Activated(d, seen, loadedActive, row) ==
    [x \in Existing |->
        IF x = d THEN [row EXCEPT !.active = IF loadedActive THEN @ ELSE TRUE]
        ELSE IF x \in seen THEN [deployment[x] EXCEPT !.active = FALSE]
        ELSE deployment[x]]

Judge(s, d) ==
    LET e == {deployment[d].environment}
    IN  raced' = IF s \in outdated THEN raced \cup e ELSE raced \ e

(* promote_site_deployment: load and check, list the active rows, commit.  *)
PromoteLoad(r, d) ==
    /\ request[r].op = "none"
    /\ deployment[d].status = "ready"
    /\ deployment[d].asset
    /\ request' = [request EXCEPT ![r] =
                     [NoRequest EXCEPT !.op = "promote", !.d = d,
                                       !.active = deployment[d].active]]
    /\ UNCHANGED <<deployment, object, session, queue, outdated, doomed, raced>>

PromoteSelect(r) ==
    /\ request[r].op = "promote"
    /\ request' = [request EXCEPT ![r] =
                     [@ EXCEPT !.op = "activate", !.seen = Listed(request[r].d)]]
    /\ UNCHANGED <<deployment, object, session, queue, outdated, doomed, raced>>

PromoteCommit(r) ==
    /\ request[r].op = "activate"
    /\ LET d == request[r].d
           seen == request[r].seen
       IN  /\ ~Locked((seen \ {d}) \cup (IF request[r].active THEN {} ELSE {d}))
           /\ deployment' = Activated(d, seen, request[r].active, deployment[d])
           /\ WritesLast(r)
           /\ Judge(r, d)
    /\ request' = [request EXCEPT ![r] = NoRequest]
    /\ UNCHANGED <<object, session, queue, doomed>>

(* delete_asset on an artifact: the object first, then the row, whose      *)
(* foreign key leaves asset_id NULL.                                       *)
DeleteObject(r, d) ==
    /\ request[r].op = "none"
    /\ deployment[d].asset
    /\ \A q \in Requests : request[q].op = "delete" => request[q].d # d
    /\ object' = object \ {d}
    /\ doomed' = doomed \cup {d}
    /\ request' = [request EXCEPT ![r] = [NoRequest EXCEPT !.op = "delete", !.d = d]]
    /\ UNCHANGED <<deployment, session, queue, outdated, raced>>

DeleteRow(r) ==
    /\ request[r].op = "delete"
    /\ LET d == request[r].d
       IN  /\ deployment' = [deployment EXCEPT ![d].asset = FALSE]
           /\ WritesLast(r)
    /\ request' = [request EXCEPT ![r] = NoRequest]
    /\ UNCHANGED <<object, session, queue, doomed, raced>>

RequestLost(r) ==
    /\ request[r].op # "none"
    /\ request' = [request EXCEPT ![r] = NoRequest]
    /\ outdated' = outdated \ {r}
    /\ UNCHANGED <<deployment, object, session, queue, doomed, raced>>

-----------------------------------------------------------------------------
(* The worker: run_once claims the job, execute_job loads the row and      *)
(* calls build_site_deployment.                                            *)

At(w, pc) == session[w].pc = pc
Goes(w, pc) == session' = [session EXCEPT ![w].pc = pc]
Ends(w) == session' = [session EXCEPT ![w] = [NoSession EXCEPT !.pc = "ended",
                                                               !.d = session[w].d]]

StartBuild(w) ==
    /\ At(w, "idle")
    /\ \E d \in Existing :
         /\ Queue!Acquire(w, d)
         /\ session' = [session EXCEPT ![w] =
                          [NoSession EXCEPT !.pc = "loaded", !.d = d,
                                            !.status = deployment[d].status,
                                            !.active = deployment[d].active]]
    /\ UNCHANGED <<deployment, object, request, outdated, doomed, raced>>

(* status = building, written only if the row was loaded with another.     *)
(* The loaded status is not read again.                                    *)
BeginBuild(w) ==
    /\ At(w, "loaded")
    /\ LET d == session[w].d
       IN  IF session[w].status = "building"
             THEN UNCHANGED <<deployment, outdated>>
             ELSE /\ ~Locked({d})
                  /\ deployment' = [deployment EXCEPT ![d].status = "building"]
                  /\ Writes(w)
    /\ session' = [session EXCEPT ![w].pc = "building", ![w].status = "queued"]
    /\ UNCHANGED <<object, request, queue, doomed, raced>>

(* No page is published, or storage refuses the artifact: execute_job      *)
(* records the failure and raises.                                         *)
RaiseBuild(w) ==
    /\ At(w, "building")
    /\ ~Locked({session[w].d})
    /\ deployment' = [deployment EXCEPT ![session[w].d].status = "failed"]
    /\ WritesLast(w)
    /\ Ends(w)
    /\ UNCHANGED <<object, request, queue, doomed, raced>>

Upload(w) ==
    /\ At(w, "building")
    /\ object' = object \cup {session[w].d}
    /\ doomed' = doomed \ {session[w].d}
    /\ Goes(w, "stored")
    /\ UNCHANGED <<deployment, request, queue, outdated, raced>>

(* The artifact has its row already: object_key is unique, the flush       *)
(* fails, and so do the commits of execute_job and fail_job after it.  The *)
(* exception ends the worker process; the lease is left to run out.        *)
InsertRefused(w) ==
    /\ At(w, "stored")
    /\ deployment[session[w].d].asset
    /\ session' = [session EXCEPT ![w] = NoSession]
    /\ outdated' = outdated \ {w}
    /\ UNCHANGED <<deployment, object, request, queue, doomed, raced>>

(* Seeded fault: the artifact is stored only after the rows.               *)
InsertBeforeUpload(w) ==
    /\ At(w, "building")
    /\ ~deployment[session[w].d].asset
    /\ ~Locked({session[w].d})
    /\ session' = [session EXCEPT ![w] =
                     [@ EXCEPT !.pc = "inserted", !.seen = Listed(session[w].d)]]
    /\ UNCHANGED <<deployment, object, request, queue, outdated, doomed, raced>>

(* The assets row is flushed; listing the active rows flushes asset_id and *)
(* status too, so the row stays locked until CommitBuild.                  *)
Insert(w) ==
    /\ At(w, "stored")
    /\ ~deployment[session[w].d].asset
    /\ ~Locked({session[w].d})
    /\ session' = [session EXCEPT ![w] =
                     [@ EXCEPT !.pc = "inserted", !.seen = Listed(session[w].d)]]
    /\ UNCHANGED <<deployment, object, request, queue, outdated, doomed, raced>>

CommitBuild(w) ==
    /\ At(w, "inserted")
    /\ LET d == session[w].d
           seen == session[w].seen
           built == [deployment[d] EXCEPT !.status = "ready", !.asset = TRUE]
       IN  /\ ~Locked(seen \ {d})
           /\ deployment' = Activated(d, seen, session[w].active, built)
           /\ WritesLast(w)
           /\ Judge(w, d)
    /\ Ends(w)
    /\ UNCHANGED <<object, request, queue, doomed>>

(* complete_job or fail_job.                                               *)
Finish(w) ==
    /\ At(w, "ended")
    /\ Queue!Free({session[w].d})
    /\ session' = [session EXCEPT ![w] = NoSession]
    /\ UNCHANGED <<deployment, object, request, outdated, doomed, raced>>

(* The process dies; an open transaction is rolled back.                   *)
Crash(w) ==
    /\ ~At(w, "idle")
    /\ session' = [session EXCEPT ![w] = NoSession]
    /\ outdated' = outdated \ {w}
    /\ UNCHANGED <<deployment, object, request, queue, doomed, raced>>

LoseHold ==
    /\ \E d \in Deployments : holder[d] # NoWorker /\ Queue!Free({d})
    /\ UNCHANGED <<deployment, object, session, request, outdated, doomed, raced>>

-----------------------------------------------------------------------------

Init ==
    /\ deployment = [d \in {} |-> Queued(d, 0)]
    /\ object = {}
    /\ session = [w \in Workers |-> NoSession]
    /\ request = [r \in Requests |-> NoRequest]
    /\ Queue!Init
    /\ outdated = {}
    /\ doomed = {}
    /\ raced = {}

RequestStep(r) ==
    \/ CreateRead(r)
    \/ \E d \in Deployments, e \in Environments : CreateInsert(r, d, e)
    \/ CreateEnqueue(r)
    \/ \E d \in Existing : PromoteLoad(r, d) \/ DeleteObject(r, d)
    \/ PromoteSelect(r)
    \/ PromoteCommit(r)
    \/ DeleteRow(r)
    \/ RequestLost(r)

WorkerStep(w) ==
    \/ StartBuild(w)
    \/ BeginBuild(w)
    \/ RaiseBuild(w)
    \/ Upload(w)
    \/ InsertRefused(w)
    \/ Insert(w)
    \/ CommitBuild(w)
    \/ Finish(w)
    \/ Crash(w)

Next ==
    \/ \E r \in Requests : RequestStep(r)
    \/ \E w \in Workers : WorkerStep(w)
    \/ \E d \in Existing : RetryBuild(d)
    \/ LoseHold

Spec == Init /\ [][Next]_vars

-----------------------------------------------------------------------------
(* What visitors get: _active_ready_deployment.                            *)

Servable(e) == {d \in In(e) : deployment[d].status = "ready" /\ deployment[d].asset}

Newest(D) ==
    CHOOSE d \in D : \A x \in D \ {d} :
        \/ deployment[x].version < deployment[d].version
        \/ /\ deployment[x].version = deployment[d].version
           /\ deployment[x].created < deployment[d].created

(* Seeded fault: the active flag is not consulted.                         *)
ServedNewest(e) == IF Servable(e) # {} THEN Newest(Servable(e)) ELSE NoDeployment

Served(e) ==
    LET flagged == Servable(e) \cap Active(e)
    IN  IF flagged # {} THEN Newest(flagged)
        ELSE IF Servable(e) # {} THEN Newest(Servable(e))
        ELSE NoDeployment

-----------------------------------------------------------------------------

(* Every variable keeps its type, and a session past its start has a row.  *)
TypeOK ==
    /\ Existing \subseteq Deployments
    /\ deployment \in [Existing -> SiteDeployment]
    /\ object \subseteq Existing
    /\ session \in [Workers -> Session]
    /\ request \in [Requests -> Handler]
    /\ holder \in [Deployments -> Workers \cup {NoWorker}]
    /\ left \in [Deployments -> 0 .. Attempts]
    /\ outdated \subseteq Workers \cup Requests
    /\ doomed \subseteq Existing
    /\ raced \subseteq Environments
    /\ \A w \in Workers : session[w].pc # "idle" => session[w].d \in Existing
    /\ \A r \in Requests :
         request[r].op \notin {"none", "create"} => request[r].d \in Existing

(* One deployment per environment is active: unless the last activation    *)
(* was committed over another that its session had not seen, whatever      *)
(* builds were crashed, repeated or refused before and after.              *)
OneActive ==
    \A e \in Environments \ raced : Cardinality(Active(e)) <= 1

(* A promotion or a finished build whose reads are still true when it      *)
(* commits decides what visitors get: its deployment is the only active    *)
(* one and the one served, older versions included.                        *)
Activates(s, d) ==
    \/ s \in Requests /\ request[s].d = d /\ PromoteCommit(s)
    \/ s \in Workers /\ session[s].d = d /\ CommitBuild(s)

ActivationTakesEffect ==
    [][\A s \in Workers \cup Requests, d \in Existing :
         (s \notin outdated /\ Activates(s, d))
            => LET e == deployment[d].environment
               IN  Active(e)' = {d} /\ Served(e)' = d]_vars

(* Production and preview are independent: no step changes what is active  *)
(* in two environments.                                                    *)
EnvironmentsIndependent ==
    [][\A x, y \in Environments : Active(x)' # Active(x) /\ Active(y)' # Active(y)
                                    => x = y]_vars

(* What visitors are given is in object storage, unless it was deleted     *)
(* there through the assets API: a crashed, failed or repeated build never *)
(* exposes a deployment whose artifact was not uploaded.                   *)
ServedHasArtifact ==
    \A e \in Environments :
        LET d == Served(e)
        IN  d # NoDeployment => d \in object \cup doomed

(* What ADR 0015 says of promote, and the tests check one request at a     *)
(* time: promoting a deployment, ready still, switches the site to it.     *)
PromotionTakesEffect ==
    [][\A r \in Requests, d \in Existing :
         (request[r].d = d /\ PromoteCommit(r) /\ d \in Servable(deployment[d].environment))
            => Served(deployment[d].environment)' = d]_vars

=============================================================================
