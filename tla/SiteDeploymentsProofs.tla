------------------------ MODULE SiteDeploymentsProofs ------------------------
(***************************************************************************)
(* Theorems about the deployments of a site, for any number of             *)
(* deployments, environments, workers and concurrent requests.             *)
(***************************************************************************)
EXTENDS SiteDeployments, BoundedSets, FiniteSetTheorems, TLAPS

-----------------------------------------------------------------------------
(* The inductive invariant.                                                *)

FiniteTable == IsFiniteSet(Existing)

(* created tells the rows apart, so that visitors are never given one of   *)
(* two that are equally new.                                               *)
CreatedInOrder ==
    /\ \A x \in Existing : deployment[x].created <= Cardinality(Existing)
    /\ \A x, y \in Existing : deployment[x].created = deployment[y].created => x = y

VersionsBounded == \E n \in Nat : \A d \in Existing : deployment[d].version <= n

(* A session clears rows of its own environment only.                      *)
SeenInEnvironment ==
    /\ \A w \in Workers :
         At(w, "inserted") => session[w].seen \subseteq In(deployment[session[w].d].environment)
    /\ \A r \in Requests :
         request[r].op = "activate"
            => request[r].seen \subseteq In(deployment[request[r].d].environment)

(* What a session read and no other commit has changed is still true.      *)
WorkerReads(w) ==
    (w \notin outdated /\ session[w].pc \notin {"idle", "ended"}) =>
        /\ session[w].active = deployment[session[w].d].active
        /\ At(w, "inserted") => session[w].seen = Listed(session[w].d)

RequestReads(r) ==
    (r \notin outdated /\ request[r].op \in {"promote", "activate"}) =>
        /\ request[r].active = deployment[request[r].d].active
        /\ deployment[request[r].d].status = "ready"
        /\ deployment[request[r].d].asset
        /\ request[r].op = "activate" => request[r].seen = Listed(request[r].d)

ReadsStillTrue ==
    /\ \A w \in Workers : WorkerReads(w)
    /\ \A r \in Requests : RequestReads(r)

(* A build reaches its rows only with its artifact uploaded.               *)
ArtifactsStored ==
    /\ \A d \in Existing : deployment[d].asset => d \in object \cup doomed
    /\ \A w \in Workers : At(w, "stored") \/ At(w, "inserted")
                             => session[w].d \in object \cup doomed

SiteInv ==
    /\ TypeOK
    /\ FiniteTable
    /\ CreatedInOrder
    /\ VersionsBounded
    /\ SeenInEnvironment
    /\ ReadsStillTrue
    /\ ArtifactsStored
    /\ OneActive

-----------------------------------------------------------------------------
(* Types.                                                                  *)

LEMMA IdleTypes ==
    /\ NoSession \in Session /\ NoSession.pc = "idle"
    /\ NoRequest \in Handler /\ NoRequest.op = "none"
  BY DEF NoSession, NoRequest, Session, Handler, SiteDeploymentStatus

LEMMA NextVersion ==
    ASSUME TypeOK, VersionsBounded
    PROVE  next_site_deployment_version \in Nat
<1> DEFINE V == {deployment[d].version : d \in Existing}
<1>1. CASE Existing = {}
  BY <1>1 DEF next_site_deployment_version
<1>2. CASE Existing # {}
  <2>1. V \in SUBSET Nat /\ V # {}
    BY <1>2 DEF TypeOK, SiteDeployment
  <2>2. PICK n \in Nat : \A d \in Existing : deployment[d].version <= n
    BY DEF VersionsBounded
  <2>3. \A v \in V : v <= n
    BY <2>2
  <2>4. \A d \in Existing : deployment[d].version \in V
    OBVIOUS
  <2> DEFINE highest == CHOOSE v \in V : \A d \in Existing : deployment[d].version <= v
  <2>5. next_site_deployment_version = 1 + highest
    BY <1>2 DEF next_site_deployment_version
  <2> HIDE DEF V
  <2>6. \E v \in V : \A x \in V : x <= v
    BY <2>1, <2>3, HasGreatest
  <2>7. \E v \in V : \A d \in Existing : deployment[d].version <= v
    BY <2>4, <2>6
  <2>8. highest \in V
    BY <2>7
  <2> HIDE DEF highest
  <2>9. QED
    BY <2>1, <2>5, <2>8
<1>3. QED
  BY <1>1, <1>2

LEMMA ListedType ==
    ASSUME TypeOK, NEW d
    PROVE  Listed(d) \subseteq Existing /\ Listed(d) \subseteq Deployments
  BY DEF Listed, Active, In, TypeOK

LEMMA OutdatedType ==
    ASSUME TypeOK
    PROVE  Spoiled \subseteq Workers \cup Requests
  BY DEF Spoiled

LEMMA TypeInit == Init => TypeOK
<1> SUFFICES ASSUME Init PROVE TypeOK
  OBVIOUS
<1>1. Existing = {}
  BY DEF Init, Existing
<1>2. deployment \in [Existing -> SiteDeployment]
  BY DEF Init, Existing
<1>3. /\ holder \in [Deployments -> Workers \cup {NoWorker}]
      /\ left \in [Deployments -> 0 .. Attempts]
  BY SiteAssumption DEF Init, Queue!Init
<1>4. QED
  BY <1>1, <1>2, <1>3, IdleTypes DEF Init, TypeOK

(* The rows a step leaves in the table keep their identity.                *)
SameRow(x) ==
    /\ deployment'[x].environment = deployment[x].environment
    /\ deployment'[x].version = deployment[x].version
    /\ deployment'[x].created = deployment[x].created

TableKept ==
    /\ Existing' = Existing
    /\ deployment' \in [Existing -> SiteDeployment]
    /\ \A x \in Existing : SameRow(x)

FlagsKept == \A x \in Existing : deployment'[x].active = deployment[x].active

(* What an activation does: the flags of d and of the rows seen.           *)
Activation(d, seen, loadedActive) ==
    /\ deployment'[d].active = IF loadedActive THEN deployment[d].active ELSE TRUE
    /\ \A x \in Existing \ {d} :
          /\ deployment'[x].active = IF x \in seen THEN FALSE ELSE deployment[x].active
          /\ deployment'[x].status = deployment[x].status
          /\ deployment'[x].asset = deployment[x].asset

LEMMA ActivatedEffect ==
    ASSUME TypeOK, NEW d \in Existing, NEW seen, NEW loadedActive, NEW row \in SiteDeployment,
           row.environment = deployment[d].environment,
           row.version = deployment[d].version,
           row.created = deployment[d].created,
           row.active = deployment[d].active,
           deployment' = Activated(d, seen, loadedActive, row)
    PROVE  /\ TableKept
           /\ Activation(d, seen, loadedActive)
           /\ deployment'[d].status = row.status
           /\ deployment'[d].asset = row.asset
<1> DEFINE new(x) == IF x = d THEN [row EXCEPT !.active = IF loadedActive THEN @ ELSE TRUE]
                     ELSE IF x \in seen THEN [deployment[x] EXCEPT !.active = FALSE]
                     ELSE deployment[x]
<1>1. Existing' = Existing /\ \A x \in Existing : deployment'[x] = new(x)
  BY DEF Activated, Existing
<1>2. /\ new(d) \in SiteDeployment
      /\ new(d).environment = row.environment /\ new(d).version = row.version
      /\ new(d).created = row.created /\ new(d).status = row.status /\ new(d).asset = row.asset
      /\ new(d).active = IF loadedActive THEN row.active ELSE TRUE
  BY DEF SiteDeployment
<1>3. ASSUME NEW x \in Existing \ {d}
      PROVE  /\ new(x) \in SiteDeployment
             /\ new(x).environment = deployment[x].environment
             /\ new(x).version = deployment[x].version
             /\ new(x).created = deployment[x].created
             /\ new(x).status = deployment[x].status /\ new(x).asset = deployment[x].asset
             /\ new(x).active = IF x \in seen THEN FALSE ELSE deployment[x].active
  BY DEF TypeOK, SiteDeployment
<1>4. deployment' = [x \in Existing |-> new(x)]
  BY DEF Activated
<1> HIDE DEF new
<1>5. \A x \in Existing : new(x) \in SiteDeployment
  BY <1>2, <1>3
<1>6. deployment' \in [Existing -> SiteDeployment]
  BY <1>4, <1>5
<1>7. QED
  BY <1>1, <1>2, <1>3, <1>6, ZenonT(40) DEF TableKept, SameRow, Activation

(* One column of one row: its status, its artifact or its job.             *)
LEMMA ColumnEffect ==
    ASSUME TypeOK, NEW d \in Existing,
           \/ \E status \in SiteDeploymentStatus :
                 deployment' = [deployment EXCEPT ![d].status = status]
           \/ deployment' = [deployment EXCEPT ![d].asset = FALSE]
           \/ deployment' = [deployment EXCEPT ![d].job = TRUE]
    PROVE  /\ TableKept
           /\ FlagsKept
           /\ \A x \in Existing : deployment'[x].asset => deployment[x].asset
           /\ \A x \in Existing \ {d} : deployment'[x] = deployment[x]
<1>1. PICK row : /\ deployment' = [deployment EXCEPT ![d] = row]
                 /\ row \in SiteDeployment
                 /\ row.environment = deployment[d].environment
                 /\ row.version = deployment[d].version
                 /\ row.created = deployment[d].created
                 /\ row.active = deployment[d].active
                 /\ row.asset => deployment[d].asset
  <2>1. deployment[d] \in SiteDeployment
    BY DEF TypeOK
  <2>2. CASE \E status \in SiteDeploymentStatus :
               deployment' = [deployment EXCEPT ![d].status = status]
    <3>1. PICK status \in SiteDeploymentStatus :
            deployment' = [deployment EXCEPT ![d] = [deployment[d] EXCEPT !.status = status]]
      BY <2>2
    <3>2. QED
      BY <2>1, <3>1 DEF SiteDeployment
  <2>3. CASE deployment' = [deployment EXCEPT ![d].asset = FALSE]
    <3>1. deployment' = [deployment EXCEPT ![d] = [deployment[d] EXCEPT !.asset = FALSE]]
      BY <2>3
    <3>2. QED
      BY <2>1, <3>1 DEF SiteDeployment
  <2>4. CASE deployment' = [deployment EXCEPT ![d].job = TRUE]
    <3>1. deployment' = [deployment EXCEPT ![d] = [deployment[d] EXCEPT !.job = TRUE]]
      BY <2>4
    <3>2. QED
      BY <2>1, <3>1 DEF SiteDeployment
  <2>5. QED
    BY <2>2, <2>3, <2>4
<1>2. DOMAIN deployment' = DOMAIN deployment
  BY <1>1
<1>3. deployment' \in [Existing -> SiteDeployment]
  BY <1>1 DEF TypeOK
<1>4. QED
  BY <1>1, <1>2, <1>3 DEF TableKept, FlagsKept, SameRow, Existing

(* What each step that changes the rows leaves of them.                    *)
LEMMA EnqueueEffect ==
    ASSUME TypeOK, NEW r \in Requests, CreateEnqueue(r)
    PROVE  /\ request[r].d \in Existing /\ TableKept /\ FlagsKept
           /\ \A x \in Existing : /\ deployment'[x].asset = deployment[x].asset
                                 /\ deployment'[x].status = deployment[x].status
<1>1. request[r].d \in Existing /\ deployment' = [deployment EXCEPT ![request[r].d].job = TRUE]
  BY DEF CreateEnqueue, TypeOK
<1>2. TableKept /\ FlagsKept
  BY <1>1, ColumnEffect
<1>3. deployment[request[r].d] \in SiteDeployment
  BY <1>1 DEF TypeOK
<1> DEFINE row == [deployment[request[r].d] EXCEPT !.job = TRUE]
<1>4. row.asset = deployment[request[r].d].asset /\ row.status = deployment[request[r].d].status
  BY <1>3 DEF SiteDeployment
<1>5. deployment' = [deployment EXCEPT ![request[r].d] = row]
  BY <1>1
<1> HIDE DEF row
<1>6. QED
  BY <1>1, <1>2, <1>4, <1>5 DEF TypeOK

LEMMA DeleteRowEffect ==
    ASSUME TypeOK, NEW r \in Requests, DeleteRow(r)
    PROVE  /\ request[r].d \in Existing /\ TableKept /\ FlagsKept
           /\ \A x \in Existing : deployment'[x].asset => deployment[x].asset
<1>1. request[r].d \in Existing /\ deployment' = [deployment EXCEPT ![request[r].d].asset = FALSE]
  BY DEF DeleteRow, TypeOK
<1>2. QED
  BY <1>1, ColumnEffect

LEMMA BuildEffect ==
    ASSUME TypeOK, NEW w \in Workers, BeginBuild(w) \/ RaiseBuild(w)
    PROVE  /\ session[w].d \in Existing /\ TableKept /\ FlagsKept
           /\ \A x \in Existing : deployment'[x].asset => deployment[x].asset
<1>1. session[w].d \in Existing
  BY DEF BeginBuild, RaiseBuild, TypeOK, At
<1>2. \/ UNCHANGED deployment
      \/ deployment' = [deployment EXCEPT ![session[w].d].status = "building"]
      \/ deployment' = [deployment EXCEPT ![session[w].d].status = "failed"]
  BY DEF BeginBuild, RaiseBuild
<1>3. CASE UNCHANGED deployment
  BY <1>1, <1>3 DEF TableKept, FlagsKept, SameRow, TypeOK, Existing
<1>4. CASE \E status \in SiteDeploymentStatus :
             deployment' = [deployment EXCEPT ![session[w].d].status = status]
  BY <1>1, <1>4, ColumnEffect
<1>5. QED
  BY <1>2, <1>3, <1>4 DEF SiteDeploymentStatus

LEMMA PromoteEffect ==
    ASSUME TypeOK, NEW r \in Requests, PromoteCommit(r)
    PROVE  LET d == request[r].d
           IN  /\ d \in Existing /\ TableKept
               /\ Activation(d, request[r].seen, request[r].active)
               /\ deployment'[d].status = deployment[d].status
               /\ deployment'[d].asset = deployment[d].asset
<1>1. request[r].d \in Existing
  BY DEF PromoteCommit, TypeOK
<1>2. deployment[request[r].d] \in SiteDeployment
  BY <1>1 DEF TypeOK
<1>3. deployment' = Activated(request[r].d, request[r].seen, request[r].active,
                              deployment[request[r].d])
  BY DEF PromoteCommit
<1>4. QED
  BY <1>1, <1>2, <1>3, ActivatedEffect

LEMMA CommitEffect ==
    ASSUME TypeOK, NEW w \in Workers, CommitBuild(w)
    PROVE  LET d == session[w].d
           IN  /\ d \in Existing /\ TableKept
               /\ Activation(d, session[w].seen, session[w].active)
               /\ deployment'[d].status = "ready"
               /\ deployment'[d].asset
<1> DEFINE d == session[w].d
           built == [deployment[d] EXCEPT !.status = "ready", !.asset = TRUE]
<1>1. d \in Existing
  BY DEF CommitBuild, TypeOK, At
<1>2. deployment[d] \in SiteDeployment
  BY <1>1 DEF TypeOK
<1>3. deployment' = Activated(d, session[w].seen, session[w].active, built)
  BY DEF CommitBuild
<1> HIDE DEF d
<1>4. /\ built \in SiteDeployment /\ built.status = "ready" /\ built.asset
      /\ built.environment = deployment[d].environment /\ built.version = deployment[d].version
      /\ built.created = deployment[d].created /\ built.active = deployment[d].active
  BY <1>2 DEF SiteDeployment, SiteDeploymentStatus
<1> HIDE DEF built
<1>5. QED
  BY <1>1, <1>3, <1>4, ActivatedEffect DEF d

-----------------------------------------------------------------------------
(* How requests and workers move.                                          *)

LEMMA RequestMoves ==
    ASSUME TypeOK, VersionsBounded, NEW r \in Requests, RequestStep(r)
    PROVE  /\ request' \in [Requests -> Handler]
           /\ \A q \in Requests \ {r} : request'[q] = request[q]
           /\ request'[r].op \in {"none", "create"} \/ request'[r].d \in Existing'
           /\ UNCHANGED session
<1> USE IdleTypes
<1>1. PICK q : /\ request' = [request EXCEPT ![r] = q] /\ q \in Handler
               /\ q.op \in {"none", "create"} \/ q.d \in Existing'
  <2>1. CASE CreateRead(r)
    <3> DEFINE q == [NoRequest EXCEPT !.op = "create", !.version = next_site_deployment_version]
    <3>1. request' = [request EXCEPT ![r] = q]
      BY <2>1 DEF CreateRead
    <3>2. q \in Handler /\ q.op = "create"
      BY NextVersion DEF NoRequest, Handler
    <3>3. QED
      BY <3>1, <3>2
  <2>2. ASSUME NEW d \in Deployments, NEW e \in Environments, CreateInsert(r, d, e)
        PROVE  \E q : /\ request' = [request EXCEPT ![r] = q] /\ q \in Handler
                      /\ q.op \in {"none", "create"} \/ q.d \in Existing'
    <3> DEFINE q == [NoRequest EXCEPT !.op = "enqueue", !.d = d]
    <3>1. request' = [request EXCEPT ![r] = q] /\ d \in Existing'
      BY <2>2 DEF CreateInsert, Existing
    <3>2. q \in Handler /\ q.d = d
      BY DEF NoRequest, Handler
    <3>3. QED
      BY <3>1, <3>2
  <2>3. CASE CreateEnqueue(r) \/ PromoteCommit(r) \/ DeleteRow(r) \/ RequestLost(r)
    BY <2>3 DEF CreateEnqueue, PromoteCommit, DeleteRow, RequestLost
  <2>4. ASSUME NEW d \in Existing, PromoteLoad(r, d)
        PROVE  \E q : /\ request' = [request EXCEPT ![r] = q] /\ q \in Handler
                      /\ q.op \in {"none", "create"} \/ q.d \in Existing'
    <3> DEFINE q == [NoRequest EXCEPT !.op = "promote", !.d = d, !.active = deployment[d].active]
    <3>1. request' = [request EXCEPT ![r] = q] /\ d \in Existing'
      BY <2>4 DEF PromoteLoad, Existing
    <3>2. q \in Handler /\ q.d = d
      BY DEF NoRequest, Handler, TypeOK, SiteDeployment
    <3>3. QED
      BY <3>1, <3>2
  <2>5. ASSUME NEW d \in Existing, DeleteObject(r, d)
        PROVE  \E q : /\ request' = [request EXCEPT ![r] = q] /\ q \in Handler
                      /\ q.op \in {"none", "create"} \/ q.d \in Existing'
    <3> DEFINE q == [NoRequest EXCEPT !.op = "delete", !.d = d]
    <3>1. request' = [request EXCEPT ![r] = q] /\ d \in Existing'
      BY <2>5 DEF DeleteObject, Existing
    <3>2. q \in Handler /\ q.d = d
      BY DEF NoRequest, Handler, TypeOK
    <3>3. QED
      BY <3>1, <3>2
  <2>6. CASE PromoteSelect(r)
    <3> DEFINE q == [request[r] EXCEPT !.op = "activate", !.seen = Listed(request[r].d)]
    <3>1. request' = [request EXCEPT ![r] = q]
      BY <2>6 DEF PromoteSelect
    <3>2. request[r] \in Handler /\ request[r].d \in Existing /\ Existing' = Existing
      BY <2>6 DEF PromoteSelect, TypeOK, Existing
    <3>3. q \in Handler /\ q.d = request[r].d
      BY <3>2, ListedType DEF Handler
    <3> HIDE DEF q
    <3>4. QED
      BY <3>1, <3>2, <3>3
  <2>7. QED
    BY <2>1, <2>2, <2>3, <2>4, <2>5, <2>6 DEF RequestStep
<1>2. UNCHANGED session
  BY DEF RequestStep, CreateRead, CreateInsert, CreateEnqueue, PromoteLoad, DeleteObject,
         PromoteSelect, PromoteCommit, DeleteRow, RequestLost
<1>3. QED
  BY <1>1, <1>2 DEF TypeOK

-----------------------------------------------------------------------------
(* What a step must do to keep the invariant: the session that moves, s,   *)
(* keeps to it, and the others are told if what they read changes.         *)

WorkerUnspoiled(w) ==
    (w \notin outdated') =>
        /\ w \notin outdated
        /\ session[w].pc \notin {"idle", "ended"} =>
              deployment'[session[w].d].active = deployment[session[w].d].active
        /\ At(w, "inserted") => \A e \in Environments : session[w].d \in In(e) => Active(e)' = Active(e)

RequestUnspoiled(r) ==
    (r \notin outdated') =>
        /\ r \notin outdated
        /\ request[r].op \in {"promote", "activate"} =>
              /\ deployment'[request[r].d].active = deployment[request[r].d].active
              /\ deployment'[request[r].d].status = deployment[request[r].d].status
              /\ deployment'[request[r].d].asset = deployment[request[r].d].asset
        /\ request[r].op = "activate" =>
              \A e \in Environments : request[r].d \in In(e) => Active(e)' = Active(e)

LEMMA InKept ==
    ASSUME TableKept
    PROVE  \A e : In(e)' = In(e)
  BY DEF TableKept, SameRow, In

LEMMA ActiveKept ==
    ASSUME TableKept, FlagsKept
    PROVE  \A e : Active(e)' = Active(e)
  BY InKept DEF FlagsKept, Active, In

LEMMA InEnvironment ==
    ASSUME TypeOK, NEW d \in Existing
    PROVE  deployment[d].environment \in Environments /\ d \in In(deployment[d].environment)
  BY DEF TypeOK, SiteDeployment, In

LEMMA WorkerReadsKept ==
    ASSUME TypeOK, NEW w \in Workers, WorkerReads(w), TableKept,
           session'[w] = session[w], WorkerUnspoiled(w)
    PROVE  WorkerReads(w)'
<1> SUFFICES ASSUME w \notin outdated', session[w].pc \notin {"idle", "ended"}
             PROVE  /\ session[w].active = deployment'[session[w].d].active
                    /\ At(w, "inserted") => session[w].seen = Listed(session[w].d)'
  BY DEF WorkerReads, At, Listed
<1>1. session[w].d \in Existing
  BY DEF TypeOK
<1>2. /\ session[w].active = deployment[session[w].d].active
      /\ At(w, "inserted") => session[w].seen = Listed(session[w].d)
      /\ deployment'[session[w].d].active = deployment[session[w].d].active
  BY DEF WorkerReads, WorkerUnspoiled
<1> DEFINE e == deployment[session[w].d].environment
<1>3. e \in Environments /\ session[w].d \in In(e) /\ deployment'[session[w].d].environment = e
  BY <1>1, InEnvironment DEF TableKept, SameRow
<1>4. At(w, "inserted") => Active(e)' = Active(e)
  BY <1>3 DEF WorkerUnspoiled
<1>5. QED
  BY <1>2, <1>3, <1>4 DEF Listed, At

LEMMA RequestReadsKept ==
    ASSUME TypeOK, NEW r \in Requests, RequestReads(r), TableKept,
           request'[r] = request[r], RequestUnspoiled(r)
    PROVE  RequestReads(r)'
<1> SUFFICES ASSUME r \notin outdated', request[r].op \in {"promote", "activate"}
             PROVE  /\ request[r].active = deployment'[request[r].d].active
                    /\ deployment'[request[r].d].status = "ready"
                    /\ deployment'[request[r].d].asset
                    /\ request[r].op = "activate" => request[r].seen = Listed(request[r].d)'
  BY DEF RequestReads, Listed
<1>1. request[r].d \in Existing
  BY DEF TypeOK
<1>2. /\ request[r].active = deployment'[request[r].d].active
      /\ deployment'[request[r].d].status = "ready"
      /\ deployment'[request[r].d].asset
      /\ request[r].op = "activate" => request[r].seen = Listed(request[r].d)
  BY DEF RequestReads, RequestUnspoiled
<1> DEFINE e == deployment[request[r].d].environment
<1>3. e \in Environments /\ request[r].d \in In(e) /\ deployment'[request[r].d].environment = e
  BY <1>1, InEnvironment DEF TableKept, SameRow
<1>4. request[r].op = "activate" => Active(e)' = Active(e)
  BY <1>3 DEF RequestUnspoiled
<1>5. QED
  BY <1>2, <1>3, <1>4 DEF Listed

(* A step that adds no row.  s is who moves, if anybody does.              *)
LEMMA StepInv ==
    ASSUME SiteInv, TableKept, NEW s,
           session' \in [Workers -> Session],
           request' \in [Requests -> Handler],
           holder' \in [Deployments -> Workers \cup {NoWorker}],
           left' \in [Deployments -> 0 .. Attempts],
           outdated' \subseteq Workers \cup Requests,
           raced' \subseteq Environments,
           object' \subseteq Existing, doomed' \subseteq Existing,
           object \cup doomed \subseteq object' \cup doomed',
           \A x \in Existing : deployment'[x].asset => x \in object' \cup doomed',
           \A w \in Workers : w # s => session'[w] = session[w] /\ WorkerUnspoiled(w),
           \A r \in Requests : r # s => request'[r] = request[r] /\ RequestUnspoiled(r),
           s \in Workers =>
             /\ session'[s].pc = "idle" \/ session'[s].d \in Existing
             /\ session'[s].pc \in {"stored", "inserted"} => session'[s].d \in object' \cup doomed'
             /\ session'[s].pc = "inserted"
                  => session'[s].seen \subseteq In(deployment[session'[s].d].environment)
             /\ WorkerReads(s)',
           s \in Requests =>
             /\ request'[s].op \in {"none", "create"} \/ request'[s].d \in Existing
             /\ request'[s].op = "activate"
                  => request'[s].seen \subseteq In(deployment[request'[s].d].environment)
             /\ RequestReads(s)',
           OneActive'
    PROVE  SiteInv'
<1> USE DEF SiteInv
<1>1. Existing' = Existing /\ \A x \in Existing : SameRow(x)
  BY DEF TableKept
<1>2. TypeOK'
  <2>1. \A w \in Workers : session'[w].pc # "idle" => session'[w].d \in Existing
    BY DEF TypeOK
  <2>2. \A r \in Requests : request'[r].op \notin {"none", "create"} => request'[r].d \in Existing
    BY DEF TypeOK
  <2>3. QED
    BY <1>1, <2>1, <2>2 DEF TypeOK, TableKept
<1>3. FiniteTable' /\ CreatedInOrder' /\ VersionsBounded'
  BY <1>1 DEF FiniteTable, CreatedInOrder, VersionsBounded, SameRow
<1>4. SeenInEnvironment'
  <2>1. ASSUME NEW w \in Workers, session'[w].pc = "inserted"
        PROVE  session'[w].seen \subseteq In(deployment[session[w].d].environment)'
    <3>1. session'[w].d \in Existing
      BY <1>2, <1>1, <2>1 DEF TypeOK
    <3>2. session'[w].seen \subseteq In(deployment[session'[w].d].environment)
      BY <2>1 DEF SeenInEnvironment, At
    <3>3. deployment'[session'[w].d].environment = deployment[session'[w].d].environment
      BY <1>1, <3>1 DEF SameRow
    <3>4. QED
      BY <1>1, <3>2, <3>3 DEF In, SameRow
  <2>2. ASSUME NEW r \in Requests, request'[r].op = "activate"
        PROVE  request'[r].seen \subseteq In(deployment[request[r].d].environment)'
    <3>1. request'[r].d \in Existing
      BY <1>2, <1>1, <2>2 DEF TypeOK
    <3>2. request'[r].seen \subseteq In(deployment[request'[r].d].environment)
      BY <2>2 DEF SeenInEnvironment
    <3>3. deployment'[request'[r].d].environment = deployment[request'[r].d].environment
      BY <1>1, <3>1 DEF SameRow
    <3>4. QED
      BY <1>1, <3>2, <3>3 DEF In, SameRow
  <2>3. QED
    BY <2>1, <2>2 DEF SeenInEnvironment, At
<1>5. ReadsStillTrue'
  <2>1. \A w \in Workers : WorkerReads(w)'
    BY WorkerReadsKept DEF ReadsStillTrue
  <2>2. \A r \in Requests : RequestReads(r)'
    BY RequestReadsKept DEF ReadsStillTrue
  <2>3. QED
    BY <2>1, <2>2 DEF ReadsStillTrue
<1>6. ArtifactsStored'
  <2>1. \A w \in Workers : session'[w].pc \in {"stored", "inserted"}
                            => session'[w].d \in object' \cup doomed'
    BY DEF ArtifactsStored, At
  <2>2. QED
    BY <1>1, <2>1 DEF ArtifactsStored, At
<1>7. QED
  BY <1>2, <1>3, <1>4, <1>5, <1>6

LEMMA QuietTable ==
    ASSUME TypeOK, OneActive, UNCHANGED <<deployment, raced>>, NEW s, outdated \ {s} \subseteq outdated'
    PROVE  /\ TableKept /\ FlagsKept /\ OneActive'
           /\ \A w \in Workers : w # s => WorkerUnspoiled(w)
           /\ \A r \in Requests : r # s => RequestUnspoiled(r)
<1>1. TableKept /\ FlagsKept
  BY DEF TableKept, FlagsKept, SameRow, TypeOK, Existing
<1>2. \A e : Active(e)' = Active(e)
  BY <1>1, ActiveKept
<1>3. OneActive'
  BY <1>2 DEF OneActive
<1>4. QED
  BY <1>1, <1>2, <1>3 DEF WorkerUnspoiled, RequestUnspoiled

LEMMA FlagsKeptOneActive ==
    ASSUME OneActive, TableKept, FlagsKept, UNCHANGED raced
    PROVE  OneActive'
  BY ActiveKept DEF OneActive

(* Whoever is spoiled and not the writer is outdated from then on.         *)
LEMMA ToldOfWrite ==
    ASSUME TypeOK, NEW s, (outdated \cup Spoiled) \ {s} \subseteq outdated'
    PROVE  /\ \A w \in Workers : w # s => WorkerUnspoiled(w)
           /\ \A r \in Requests : r # s => RequestUnspoiled(r)
<1>1. ASSUME NEW w \in Workers, w # s, w \notin outdated'
      PROVE  WorkerUnspoiled(w)
  <2>1. w \notin outdated /\ w \notin Spoiled
    BY <1>1
  <2>2. /\ session[w].pc \notin {"idle", "ended"} => ~RowChanges(session[w].d)
        /\ session[w].pc = "inserted" => ~ListChanges(session[w].d)
    BY <2>1 DEF Spoiled
  <2>3. QED
    BY <2>1, <2>2 DEF WorkerUnspoiled, RowChanges, ListChanges, At
<1>2. ASSUME NEW r \in Requests, r # s, r \notin outdated'
      PROVE  RequestUnspoiled(r)
  <2>1. r \notin outdated /\ r \notin Spoiled
    BY <1>2
  <2>2. /\ request[r].op \in {"promote", "activate"} => ~RowChanges(request[r].d)
        /\ request[r].op = "activate" => ~ListChanges(request[r].d)
    BY <2>1 DEF Spoiled
  <2>3. QED
    BY <2>1, <2>2 DEF RequestUnspoiled, RowChanges, ListChanges
<1>3. QED
  BY <1>1, <1>2 DEF WorkerUnspoiled, RequestUnspoiled

-----------------------------------------------------------------------------
(* Requests.                                                               *)

LEMMA ReadingRequestInv ==
    ASSUME SiteInv, NEW r \in Requests, RequestStep(r),
           UNCHANGED <<deployment, session, queue, raced>>,
           outdated \ {r} \subseteq outdated', outdated' \subseteq outdated,
           object' \subseteq object, doomed' \subseteq Existing,
           object \cup doomed \subseteq object' \cup doomed',
           request'[r].op = "activate"
             => request'[r].seen \subseteq In(deployment[request'[r].d].environment),
           RequestReads(r)'
    PROVE  SiteInv'
<1> USE DEF SiteInv
<1>1. /\ TableKept /\ FlagsKept /\ OneActive'
      /\ \A w \in Workers : w # r => WorkerUnspoiled(w)
      /\ \A q \in Requests : q # r => RequestUnspoiled(q)
  BY QuietTable
<1>2. /\ request' \in [Requests -> Handler]
      /\ \A q \in Requests \ {r} : request'[q] = request[q]
      /\ request'[r].op \in {"none", "create"} \/ request'[r].d \in Existing
  BY RequestMoves DEF Existing
<1>3. r \notin Workers
  BY SiteAssumption
<1>4. /\ session' \in [Workers -> Session] /\ object' \subseteq Existing
      /\ holder' \in [Deployments -> Workers \cup {NoWorker}]
      /\ left' \in [Deployments -> 0 .. Attempts]
      /\ outdated' \subseteq Workers \cup Requests /\ raced' \subseteq Environments
  BY DEF TypeOK, queue
<1>5. \A x \in Existing : deployment'[x].asset => x \in object' \cup doomed'
  BY DEF ArtifactsStored
<1>6. QED
  BY <1>1, <1>2, <1>3, <1>4, <1>5, StepInv

LEMMA CreateReadInv ==
    ASSUME SiteInv, NEW r \in Requests, CreateRead(r)
    PROVE  SiteInv'
<1> USE DEF SiteInv
<1>1. request'[r].op = "create"
  BY IdleTypes DEF CreateRead, TypeOK, NoRequest
<1>2. RequestReads(r)'
  BY <1>1 DEF RequestReads
<1>3. RequestStep(r)
  BY DEF RequestStep
<1>4. QED
  BY <1>1, <1>2, <1>3, ReadingRequestInv DEF CreateRead, TypeOK

LEMMA RequestLostInv ==
    ASSUME SiteInv, NEW r \in Requests, RequestLost(r)
    PROVE  SiteInv'
<1> USE DEF SiteInv
<1>1. request'[r].op = "none"
  BY IdleTypes DEF RequestLost, TypeOK
<1>2. RequestReads(r)'
  BY <1>1 DEF RequestReads
<1>3. RequestStep(r)
  BY DEF RequestStep
<1>4. QED
  BY <1>1, <1>2, <1>3, ReadingRequestInv DEF RequestLost, TypeOK

LEMMA PromoteLoadInv ==
    ASSUME SiteInv, NEW r \in Requests, NEW d \in Existing, PromoteLoad(r, d)
    PROVE  SiteInv'
<1> USE DEF SiteInv
<1>1. /\ request'[r].op = "promote" /\ request'[r].d = d
      /\ request'[r].active = deployment[d].active
  BY DEF PromoteLoad, TypeOK, NoRequest
<1>2. RequestReads(r)'
  BY <1>1 DEF RequestReads, PromoteLoad
<1>3. RequestStep(r)
  BY DEF RequestStep
<1>4. QED
  BY <1>1, <1>2, <1>3, ReadingRequestInv DEF PromoteLoad, TypeOK

LEMMA PromoteSelectInv ==
    ASSUME SiteInv, NEW r \in Requests, PromoteSelect(r)
    PROVE  SiteInv'
<1> USE DEF SiteInv
<1> DEFINE q == [request[r] EXCEPT !.op = "activate", !.seen = Listed(request[r].d)]
<1>1. request' = [request EXCEPT ![r] = q] /\ request[r] \in Handler /\ request[r].op = "promote"
  BY DEF PromoteSelect, TypeOK
<1>2. /\ q.op = "activate" /\ q.d = request[r].d /\ q.active = request[r].active
      /\ q.seen = Listed(request[r].d)
  BY <1>1 DEF Handler
<1> HIDE DEF q
<1>3. request'[r] = q
  BY <1>1 DEF TypeOK
<1>4. UNCHANGED <<deployment, outdated>>
  BY DEF PromoteSelect
<1>5. RequestReads(r)'
  <2>1. r \notin outdated =>
          /\ q.active = deployment[q.d].active
          /\ deployment[q.d].status = "ready" /\ deployment[q.d].asset
    BY <1>1, <1>2 DEF ReadsStillTrue, RequestReads
  <2>3. q.seen = Active(deployment[q.d].environment)
    BY <1>2 DEF Listed
  <2>4. r \notin outdated' =>
          /\ request'[r].active = deployment'[request'[r].d].active
          /\ deployment'[request'[r].d].status = "ready" /\ deployment'[request'[r].d].asset
    BY <2>1, <1>3, <1>4
  <2>5. request'[r].seen = Listed(request[r].d)'
    BY <2>3, <1>3, <1>4 DEF Listed, Active, In, Existing
  <2>6. QED
    BY <2>4, <2>5 DEF RequestReads
<1>6. q.seen \subseteq In(deployment[q.d].environment)
  BY <1>2 DEF Listed, Active
<1>7. RequestStep(r)
  BY DEF RequestStep
<1>8. QED
  BY <1>3, <1>5, <1>6, <1>7, ReadingRequestInv DEF PromoteSelect, TypeOK

LEMMA DeleteObjectInv ==
    ASSUME SiteInv, NEW r \in Requests, NEW d \in Existing, DeleteObject(r, d)
    PROVE  SiteInv'
<1> USE DEF SiteInv
<1>1. request'[r].op = "delete"
  BY DEF DeleteObject, TypeOK, NoRequest
<1>2. RequestReads(r)'
  BY <1>1 DEF RequestReads
<1>3. RequestStep(r)
  BY DEF RequestStep
<1>4. QED
  BY <1>1, <1>2, <1>3, ReadingRequestInv DEF DeleteObject, TypeOK

LEMMA CreateEnqueueInv ==
    ASSUME SiteInv, NEW r \in Requests, CreateEnqueue(r)
    PROVE  SiteInv'
<1> USE DEF SiteInv
<1>1. /\ request[r].d \in Existing /\ TableKept /\ FlagsKept
      /\ \A x \in Existing : /\ deployment'[x].asset = deployment[x].asset
                            /\ deployment'[x].status = deployment[x].status
  BY EnqueueEffect
<1>2. /\ request' = [request EXCEPT ![r] = NoRequest]
      /\ UNCHANGED <<object, session, outdated, doomed, raced>>
  BY DEF CreateEnqueue
<1>3. request'[r].op = "none" /\ request' \in [Requests -> Handler]
  BY <1>2, IdleTypes DEF TypeOK
<1>4. /\ holder' \in [Deployments -> Workers \cup {NoWorker}]
      /\ left' \in [Deployments -> 0 .. Attempts]
  <2>1. /\ holder' = [holder EXCEPT ![request[r].d] = NoWorker]
        /\ left' = [left EXCEPT ![request[r].d] = Attempts]
    BY DEF CreateEnqueue, Queue!Grant
  <2>2. Attempts \in 0 .. Attempts
    BY SiteAssumption
  <2>3. QED
    BY <2>1, <2>2 DEF TypeOK
<1>5. \A w \in Workers : WorkerUnspoiled(w)
  BY <1>1, <1>2, ActiveKept DEF WorkerUnspoiled, TypeOK, FlagsKept
<1>6. \A q \in Requests : RequestUnspoiled(q)
  BY <1>1, <1>2, ActiveKept DEF RequestUnspoiled, TypeOK, FlagsKept
<1>7. OneActive'
  BY <1>1, <1>2, FlagsKeptOneActive
<1>8. RequestReads(r)'
  BY <1>3 DEF RequestReads
<1>9. r \notin Workers
  BY SiteAssumption
<1>10. /\ session' \in [Workers -> Session]
       /\ outdated' \subseteq Workers \cup Requests /\ raced' \subseteq Environments
       /\ object' \subseteq Existing /\ doomed' \subseteq Existing
       /\ \A x \in Existing : deployment'[x].asset => x \in object' \cup doomed'
       /\ \A q \in Requests : q # r => request'[q] = request[q]
  BY <1>1, <1>2 DEF TypeOK, ArtifactsStored
<1>11. QED
  BY <1>1, <1>2, <1>3, <1>4, <1>5, <1>6, <1>7, <1>8, <1>9, <1>10, StepInv

LEMMA DeleteRowInv ==
    ASSUME SiteInv, NEW r \in Requests, DeleteRow(r)
    PROVE  SiteInv'
<1> USE DEF SiteInv
<1>1. /\ TableKept /\ FlagsKept
      /\ \A x \in Existing : deployment'[x].asset => deployment[x].asset
  BY DeleteRowEffect
<1>2. /\ request' = [request EXCEPT ![r] = NoRequest]
      /\ outdated' = (outdated \cup Spoiled) \ {r}
      /\ UNCHANGED <<object, session, holder, left, doomed, raced>>
  BY DEF DeleteRow, WritesLast, queue
<1>3. request'[r].op = "none" /\ request' \in [Requests -> Handler]
  BY <1>2, IdleTypes DEF TypeOK
<1>4. /\ \A w \in Workers : w # r => WorkerUnspoiled(w)
      /\ \A q \in Requests : q # r => RequestUnspoiled(q)
  BY <1>2, ToldOfWrite
<1>5. OneActive'
  BY <1>1, <1>2, FlagsKeptOneActive
<1>6. RequestReads(r)'
  BY <1>3 DEF RequestReads
<1>7. r \notin Workers
  BY SiteAssumption
<1>8. /\ session' \in [Workers -> Session] /\ raced' \subseteq Environments
      /\ outdated' \subseteq Workers \cup Requests
      /\ holder' \in [Deployments -> Workers \cup {NoWorker}]
      /\ left' \in [Deployments -> 0 .. Attempts]
      /\ object' \subseteq Existing /\ doomed' \subseteq Existing
      /\ \A x \in Existing : deployment'[x].asset => x \in object' \cup doomed'
      /\ \A q \in Requests : q # r => request'[q] = request[q]
  BY <1>1, <1>2, OutdatedType DEF TypeOK, ArtifactsStored
<1>9. QED
  BY <1>1, <1>2, <1>3, <1>4, <1>5, <1>6, <1>7, <1>8, StepInv

(* An activation touches the flags of one environment, and if what its     *)
(* session read is true, d alone is active there afterwards.               *)
LEMMA ActivationResult ==
    ASSUME TypeOK, NEW d \in Existing, NEW seen, NEW loadedActive,
           seen \subseteq In(deployment[d].environment),
           TableKept, Activation(d, seen, loadedActive)
    PROVE  /\ \A e \in Environments \ {deployment[d].environment} : Active(e)' = Active(e)
           /\ (loadedActive = deployment[d].active /\ seen = Listed(d))
                => \A e \in Environments : d \in In(e) => Active(e)' = {d}
<1> DEFINE e == deployment[d].environment
<1>1. /\ Existing' = Existing
      /\ \A x \in Existing : deployment'[x].environment = deployment[x].environment
  BY DEF TableKept, SameRow
<1>2. /\ deployment'[d].active = IF loadedActive THEN deployment[d].active ELSE TRUE
      /\ \A x \in Existing \ {d} :
            deployment'[x].active = IF x \in seen THEN FALSE ELSE deployment[x].active
  BY DEF Activation
<1>3. \A x \in Existing : deployment[x].active \in BOOLEAN
  BY DEF TypeOK, SiteDeployment
<1>4. ASSUME NEW f \in Environments \ {e}
      PROVE  Active(f)' = Active(f)
  <2>1. \A x \in Existing : deployment[x].environment = f => deployment'[x].active = deployment[x].active
    BY <1>2, <1>4 DEF In
  <2>2. QED
    BY <1>1, <2>1 DEF Active, In
<1>5. ASSUME loadedActive = deployment[d].active, seen = Listed(d)
      PROVE  \A f \in Environments : d \in In(f) => Active(f)' = {d}
  <2>1. deployment'[d].active
    BY <1>2, <1>3, <1>5
  <2>2. \A x \in Existing \ {d} : deployment[x].environment = e => ~deployment'[x].active
    BY <1>2, <1>5 DEF Listed, Active, In
  <2>3. QED
    BY <1>1, <2>1, <2>2 DEF Active, In
<1>6. QED
  BY <1>4, <1>5

LEMMA ActivationOneActive ==
    ASSUME TypeOK, OneActive, NEW s, NEW d \in Existing, Judge(s, d),
           \A e \in Environments \ {deployment[d].environment} : Active(e)' = Active(e),
           s \notin outdated => \A e \in Environments : d \in In(e) => Active(e)' = {d}
    PROVE  OneActive' /\ raced' \subseteq Environments
<1> DEFINE e == deployment[d].environment
<1>1. e \in Environments
  BY InEnvironment
<1>2. /\ s \in outdated => raced' = raced \cup {e}
      /\ s \notin outdated => raced' = raced \ {e}
  BY DEF Judge
<1>3. ASSUME NEW f \in Environments \ raced'
      PROVE  Cardinality(Active(f)') <= 1
  <2>1. CASE f = e
    <3>1. Active(f)' = {d}
      BY <1>2, <1>3, <2>1, InEnvironment
    <3>2. Cardinality({d}) = 1
      BY FS_Singleton
    <3>3. QED
      BY <3>1, <3>2
  <2>2. CASE f # e
    <3>1. f \notin raced /\ Active(f)' = Active(f)
      BY <1>2, <1>3, <2>2
    <3>2. QED
      BY <3>1 DEF OneActive
  <2>3. QED
    BY <2>1, <2>2
<1>4. OneActive'
  BY <1>3 DEF OneActive
<1>5. QED
  BY <1>1, <1>2, <1>4 DEF TypeOK

LEMMA PromoteResult ==
    ASSUME SiteInv, NEW r \in Requests, PromoteCommit(r)
    PROVE  LET d == request[r].d
           IN  /\ d \in Existing /\ TableKept
               /\ \A e \in Environments \ {deployment[d].environment} : Active(e)' = Active(e)
               /\ r \notin outdated => /\ \A e \in Environments : d \in In(e) => Active(e)' = {d}
                                       /\ deployment'[d].status = "ready" /\ deployment'[d].asset
               /\ \A x \in Existing : deployment'[x].asset => deployment[x].asset
<1> USE DEF SiteInv
<1> DEFINE d == request[r].d
<1>1. /\ d \in Existing /\ TableKept /\ Activation(d, request[r].seen, request[r].active)
      /\ deployment'[d].status = deployment[d].status
      /\ deployment'[d].asset = deployment[d].asset
  BY PromoteEffect
<1>2. request[r].op = "activate"
  BY DEF PromoteCommit
<1>3. request[r].seen \subseteq In(deployment[d].environment)
  BY <1>2 DEF SeenInEnvironment
<1>4. r \notin outdated => /\ request[r].active = deployment[d].active
                          /\ request[r].seen = Listed(d)
                          /\ deployment[d].status = "ready" /\ deployment[d].asset
  BY <1>2 DEF ReadsStillTrue, RequestReads
<1>5. \A x \in Existing : deployment'[x].asset => deployment[x].asset
  BY <1>1 DEF Activation
<1> HIDE DEF d
<1>6. /\ \A e \in Environments \ {deployment[d].environment} : Active(e)' = Active(e)
      /\ (request[r].active = deployment[d].active /\ request[r].seen = Listed(d))
            => \A e \in Environments : d \in In(e) => Active(e)' = {d}
  BY <1>1, <1>3, ActivationResult
<1>7. QED
  BY <1>1, <1>4, <1>5, <1>6 DEF d

LEMMA PromoteCommitInv ==
    ASSUME SiteInv, NEW r \in Requests, PromoteCommit(r)
    PROVE  SiteInv'
<1> USE DEF SiteInv
<1> DEFINE d == request[r].d
<1>1. /\ d \in Existing /\ TableKept
      /\ \A e \in Environments \ {deployment[d].environment} : Active(e)' = Active(e)
      /\ r \notin outdated => \A e \in Environments : d \in In(e) => Active(e)' = {d}
      /\ \A x \in Existing : deployment'[x].asset => deployment[x].asset
  BY PromoteResult
<1>2. /\ request' = [request EXCEPT ![r] = NoRequest]
      /\ outdated' = (outdated \cup Spoiled) \ {r}
      /\ Judge(r, d)
      /\ UNCHANGED <<object, session, holder, left, doomed>>
  BY DEF PromoteCommit, WritesLast, queue
<1>3. request'[r].op = "none" /\ request' \in [Requests -> Handler]
  BY <1>2, IdleTypes DEF TypeOK
<1>4. /\ \A w \in Workers : w # r => WorkerUnspoiled(w)
      /\ \A q \in Requests : q # r => RequestUnspoiled(q)
  BY <1>2, ToldOfWrite
<1>5. OneActive' /\ raced' \subseteq Environments
  BY <1>1, <1>2, ActivationOneActive
<1>6. RequestReads(r)'
  BY <1>3 DEF RequestReads
<1>7. r \notin Workers
  BY SiteAssumption
<1>8. /\ session' \in [Workers -> Session]
      /\ outdated' \subseteq Workers \cup Requests
      /\ holder' \in [Deployments -> Workers \cup {NoWorker}]
      /\ left' \in [Deployments -> 0 .. Attempts]
      /\ object' \subseteq Existing /\ doomed' \subseteq Existing
      /\ \A x \in Existing : deployment'[x].asset => x \in object' \cup doomed'
      /\ \A q \in Requests : q # r => request'[q] = request[q]
  BY <1>1, <1>2, OutdatedType DEF TypeOK, ArtifactsStored
<1>9. QED
  BY <1>1, <1>2, <1>3, <1>4, <1>5, <1>6, <1>7, <1>8, StepInv

(* A new row is inactive and newer than all others.                        *)
LEMMA CreateInsertInv ==
    ASSUME SiteInv, NEW r \in Requests, NEW d \in Deployments, NEW e \in Environments,
           CreateInsert(r, d, e)
    PROVE  SiteInv'
<1> USE DEF SiteInv
<1> DEFINE q == Queued(e, request[r].version)
<1>1. /\ d \notin Existing
      /\ deployment' = [x \in Existing \cup {d} |-> IF x = d THEN q ELSE deployment[x]]
      /\ UNCHANGED <<object, session, holder, left, outdated, doomed, raced>>
  BY DEF CreateInsert, queue
<1>2. IsFiniteSet(Existing) /\ Cardinality(Existing) \in Nat
  BY FS_CardinalityType DEF FiniteTable
<1>3. /\ q \in SiteDeployment /\ ~q.active /\ ~q.asset
      /\ q.created = 1 + Cardinality(Existing) /\ q.version = request[r].version
      /\ q.version \in Nat
  <2>1. request[r].version \in Nat
    BY DEF TypeOK, Handler
  <2>2. 1 + Cardinality(Existing) \in Nat
    BY <1>2
  <2>3. QED
    BY <2>1, <2>2 DEF Queued, SiteDeployment, SiteDeploymentStatus
<1> HIDE DEF q
<1>4. /\ Existing' = Existing \cup {d}
      /\ deployment'[d] = q
      /\ \A x \in Existing : deployment'[x] = deployment[x] /\ x # d
  BY <1>1 DEF Existing
<1>5. FiniteTable' /\ Cardinality(Existing') = Cardinality(Existing) + 1
  BY <1>1, <1>2, <1>4, FS_AddElement DEF FiniteTable
<1>6. CreatedInOrder'
  <2>1. \A x \in Existing : deployment[x].created \in Nat /\ deployment[x].created <= Cardinality(Existing)
    BY DEF CreatedInOrder, TypeOK, SiteDeployment
  <2>2. ASSUME NEW x \in Existing'
        PROVE  deployment'[x].created <= Cardinality(Existing')
    BY <1>2, <1>3, <1>4, <1>5, <2>1
  <2>3. ASSUME NEW x \in Existing', NEW y \in Existing', deployment'[x].created = deployment'[y].created
        PROVE  x = y
    <3>1. CASE x \in Existing /\ y \in Existing
      BY <1>4, <2>3, <3>1 DEF CreatedInOrder
    <3>2. CASE x = d \/ y = d
      BY <1>2, <1>3, <1>4, <2>1, <2>3, <3>2
    <3>3. QED
      BY <1>4, <3>1, <3>2
  <2>4. QED
    BY <2>2, <2>3 DEF CreatedInOrder
<1>7. VersionsBounded'
  <2>1. PICK n \in Nat : \A x \in Existing : deployment[x].version <= n
    BY DEF VersionsBounded
  <2>2. \A x \in Existing : deployment[x].version \in Nat
    BY DEF TypeOK, SiteDeployment
  <2>3. CASE q.version <= n
    BY <1>4, <2>1, <2>3 DEF VersionsBounded
  <2>4. CASE n < q.version
    <3>1. \A x \in Existing' : deployment'[x].version <= q.version
      BY <1>3, <1>4, <2>1, <2>2, <2>4
    <3>2. QED
      BY <1>3, <3>1 DEF VersionsBounded
  <2>5. QED
    BY <1>3, <2>3, <2>4
<1>8. RequestStep(r)
  BY DEF RequestStep
<1>9. /\ request' \in [Requests -> Handler]
      /\ \A p \in Requests \ {r} : request'[p] = request[p]
      /\ request'[r].op = "enqueue" /\ request'[r].d = d
  BY <1>8, RequestMoves DEF CreateInsert, NoRequest, TypeOK
<1>10. TypeOK'
  <2>1. deployment' \in [Existing' -> SiteDeployment]
    BY <1>1, <1>3, <1>4 DEF TypeOK
  <2>2. \A p \in Requests : request'[p].op \notin {"none", "create"} => request'[p].d \in Existing'
    BY <1>4, <1>9 DEF TypeOK
  <2>3. QED
    BY <1>1, <1>4, <1>9, <2>1, <2>2 DEF TypeOK
<1>11. \A f : In(f) \subseteq In(f)' /\ Active(f)' = Active(f)
  BY <1>3, <1>4 DEF Active, In
<1>12. SeenInEnvironment'
  <2>1. ASSUME NEW w \in Workers, session'[w].pc = "inserted"
        PROVE  session'[w].seen \subseteq In(deployment[session[w].d].environment)'
    <3>1. /\ session'[w] = session[w] /\ session[w].d \in Existing
          /\ session[w].seen \subseteq In(deployment[session[w].d].environment)
      BY <1>1, <2>1 DEF TypeOK, SeenInEnvironment, At
    <3>2. QED
      BY <1>4, <3>1 DEF In
  <2>2. ASSUME NEW p \in Requests, request'[p].op = "activate"
        PROVE  request'[p].seen \subseteq In(deployment[request[p].d].environment)'
    <3>1. request'[p] = request[p] /\ request[p].op = "activate" /\ request[p].d \in Existing
      BY <1>9, <2>2 DEF TypeOK
    <3>2. request[p].seen \subseteq In(deployment[request[p].d].environment)
      BY <3>1 DEF SeenInEnvironment
    <3>3. QED
      BY <1>4, <3>1, <3>2 DEF In
  <2>3. QED
    BY <2>1, <2>2 DEF SeenInEnvironment, At
<1>13. ReadsStillTrue'
  <2>1. ASSUME NEW w \in Workers
        PROVE  WorkerReads(w)'
    <3>1. session'[w] = session[w] /\ (session[w].pc # "idle" => session[w].d \in Existing)
      BY <1>1 DEF TypeOK
    <3>2. session[w].d \in Existing => Listed(session[w].d)' = Listed(session[w].d)
      BY <1>4, <1>11, <3>1 DEF Listed
    <3>3. WorkerReads(w)
      BY DEF ReadsStillTrue
    <3>4. QED
      BY <1>1, <1>4, <3>1, <3>2, <3>3 DEF WorkerReads, At
  <2>2. ASSUME NEW p \in Requests
        PROVE  RequestReads(p)'
    <3>1. CASE p = r
      BY <1>9, <3>1 DEF RequestReads
    <3>2. CASE p # r
      <4>1. request'[p] = request[p] /\ (request[p].op \in {"promote", "activate"} => request[p].d \in Existing)
        BY <1>9, <3>2 DEF TypeOK
      <4>2. request[p].d \in Existing => Listed(request[p].d)' = Listed(request[p].d)
        BY <1>4, <1>11, <4>1 DEF Listed
      <4>3. RequestReads(p)
        BY DEF ReadsStillTrue
      <4>4. QED
        BY <1>1, <1>4, <4>1, <4>2, <4>3 DEF RequestReads
    <3>3. QED
      BY <3>1, <3>2
  <2>3. QED
    BY <2>1, <2>2 DEF ReadsStillTrue
<1>14. ArtifactsStored'
  BY <1>1, <1>3, <1>4 DEF ArtifactsStored, At
<1>15. OneActive'
  BY <1>1, <1>11 DEF OneActive
<1>16. QED
  BY <1>5, <1>6, <1>7, <1>10, <1>12, <1>13, <1>14, <1>15

-----------------------------------------------------------------------------
(* Workers.                                                                *)

(* Steps that write no row: the build goes on, or ends.                    *)
LEMMA QuietWorkerInv ==
    ASSUME SiteInv, NEW w \in Workers, NEW q \in Session,
           session' = [session EXCEPT ![w] = q],
           UNCHANGED <<deployment, request, raced>>,
           outdated \ {w} \subseteq outdated', outdated' \subseteq outdated,
           holder' \in [Deployments -> Workers \cup {NoWorker}],
           left' \in [Deployments -> 0 .. Attempts],
           object' \subseteq Existing, doomed' \subseteq Existing,
           object \cup doomed \subseteq object' \cup doomed',
           q.pc = "idle" \/ q.d \in Existing,
           q.pc \in {"stored", "inserted"} => q.d \in object' \cup doomed',
           (w \notin outdated' /\ q.pc \notin {"idle", "ended"})
             => q.active = deployment[q.d].active,
           q.pc = "inserted" => q.seen = Listed(q.d)
    PROVE  SiteInv'
<1> USE DEF SiteInv
<1>1. /\ TableKept /\ FlagsKept /\ OneActive'
      /\ \A v \in Workers : v # w => WorkerUnspoiled(v)
      /\ \A r \in Requests : r # w => RequestUnspoiled(r)
  BY QuietTable
<1>2. /\ session' \in [Workers -> Session]
      /\ session'[w] = q
      /\ \A v \in Workers \ {w} : session'[v] = session[v]
  BY DEF TypeOK
<1>3. w \notin Requests
  BY SiteAssumption
<1>4. /\ request' \in [Requests -> Handler]
      /\ outdated' \subseteq Workers \cup Requests /\ raced' \subseteq Environments
  BY DEF TypeOK
<1>5. \A x \in Existing : deployment'[x].asset => x \in object' \cup doomed'
  BY DEF ArtifactsStored
<1>6. q.pc = "inserted" => q.seen \subseteq In(deployment[q.d].environment)
  BY DEF Listed, Active
<1>7. WorkerReads(w)'
  <2>1. q.pc = "inserted" => q.seen = Listed(session[w].d)'
    BY <1>2 DEF Listed, Active, In, Existing
  <2>2. QED
    BY <1>2, <2>1 DEF WorkerReads, At
<1>8. QED
  BY <1>1, <1>2, <1>3, <1>4, <1>5, <1>6, <1>7, StepInv

LEMMA StartBuildInv ==
    ASSUME SiteInv, NEW w \in Workers, StartBuild(w)
    PROVE  SiteInv'
<1> USE DEF SiteInv
<1>1. PICK d \in Existing :
        /\ Queue!Acquire(w, d)
        /\ session' = [session EXCEPT ![w] =
                         [NoSession EXCEPT !.pc = "loaded", !.d = d,
                                           !.status = deployment[d].status,
                                           !.active = deployment[d].active]]
  BY DEF StartBuild
<1> DEFINE q == [NoSession EXCEPT !.pc = "loaded", !.d = d, !.status = deployment[d].status,
                                  !.active = deployment[d].active]
<1>2. d \in Deployments /\ deployment[d] \in SiteDeployment
  BY DEF TypeOK
<1>3. q \in Session /\ q.pc = "loaded" /\ q.d = d /\ q.active = deployment[d].active
  BY <1>2 DEF NoSession, Session, SiteDeployment
<1>4. session' = [session EXCEPT ![w] = q]
  BY <1>1
<1> HIDE DEF q
<1>5. /\ holder' \in [Deployments -> Workers \cup {NoWorker}]
      /\ left' \in [Deployments -> 0 .. Attempts]
  <2>1. /\ holder' = [holder EXCEPT ![d] = w]
        /\ left' = [left EXCEPT ![d] = left[d] - 1]
        /\ left[d] > 0
    BY <1>1 DEF Queue!Acquire
  <2>2. left[d] - 1 \in 0 .. Attempts
    BY <1>2, <2>1, SiteAssumption DEF TypeOK
  <2>3. QED
    BY <2>1, <2>2 DEF TypeOK
<1>6. UNCHANGED <<deployment, object, request, outdated, doomed, raced>>
  BY DEF StartBuild
<1>7. QED
  BY <1>3, <1>4, <1>5, <1>6, QuietWorkerInv DEF TypeOK

LEMMA UploadInv ==
    ASSUME SiteInv, NEW w \in Workers, Upload(w)
    PROVE  SiteInv'
<1> USE DEF SiteInv
<1> DEFINE q == [session[w] EXCEPT !.pc = "stored"]
<1>1. session[w] \in Session /\ session[w].pc = "building" /\ session[w].d \in Existing
  BY DEF TypeOK, Upload, At
<1>2. q \in Session /\ q.pc = "stored" /\ q.d = session[w].d /\ q.active = session[w].active
  BY <1>1 DEF Session
<1>3. session' = [session EXCEPT ![w] = q]
  BY DEF Upload, Goes
<1> HIDE DEF q
<1>4. /\ object' = object \cup {session[w].d} /\ doomed' = doomed \ {session[w].d}
      /\ UNCHANGED <<deployment, request, holder, left, outdated, raced>>
  BY DEF Upload, queue
<1>5. w \notin outdated => session[w].active = deployment[session[w].d].active
  BY <1>1 DEF ReadsStillTrue, WorkerReads
<1>6. /\ holder' \in [Deployments -> Workers \cup {NoWorker}]
      /\ left' \in [Deployments -> 0 .. Attempts]
      /\ object' \subseteq Existing /\ doomed' \subseteq Existing
  BY <1>1, <1>4 DEF TypeOK
<1>7. QED
  BY <1>1, <1>2, <1>3, <1>4, <1>5, <1>6, QuietWorkerInv

LEMMA InsertInv ==
    ASSUME SiteInv, NEW w \in Workers, Insert(w)
    PROVE  SiteInv'
<1> USE DEF SiteInv
<1> DEFINE q == [session[w] EXCEPT !.pc = "inserted", !.seen = Listed(session[w].d)]
<1>1. session[w] \in Session /\ session[w].pc = "stored" /\ session[w].d \in Existing
  BY DEF TypeOK, Insert, At
<1>2. /\ q \in Session /\ q.pc = "inserted" /\ q.d = session[w].d
      /\ q.active = session[w].active /\ q.seen = Listed(session[w].d)
  BY <1>1, ListedType DEF Session
<1>3. session' = [session EXCEPT ![w] = q]
  BY DEF Insert
<1> HIDE DEF q
<1>4. UNCHANGED <<deployment, object, request, holder, left, outdated, doomed, raced>>
  BY DEF Insert, queue
<1>5. w \notin outdated => session[w].active = deployment[session[w].d].active
  BY <1>1 DEF ReadsStillTrue, WorkerReads
<1>6. session[w].d \in object \cup doomed
  BY <1>1 DEF ArtifactsStored, At
<1>7. QED
  BY <1>1, <1>2, <1>3, <1>4, <1>5, <1>6, QuietWorkerInv DEF TypeOK

LEMMA LeavingInv ==
    ASSUME SiteInv, NEW w \in Workers, InsertRefused(w) \/ Finish(w) \/ Crash(w)
    PROVE  SiteInv'
<1> USE DEF SiteInv
<1>1. /\ session' = [session EXCEPT ![w] = NoSession]
      /\ UNCHANGED <<deployment, object, request, left, doomed, raced>>
      /\ outdated \ {w} \subseteq outdated' /\ outdated' \subseteq outdated
  BY DEF InsertRefused, Finish, Crash, queue, Queue!Free
<1>2. holder' \in [Deployments -> Workers \cup {NoWorker}]
  BY DEF InsertRefused, Finish, Crash, queue, Queue!Free, TypeOK
<1>3. QED
  BY <1>1, <1>2, IdleTypes, QuietWorkerInv DEF TypeOK

LEMMA EndsType ==
    ASSUME TypeOK, NEW w \in Workers, Ends(w)
    PROVE  /\ session' \in [Workers -> Session]
           /\ session'[w].pc = "ended" /\ session'[w].d = session[w].d
           /\ \A v \in Workers \ {w} : session'[v] = session[v]
<1> DEFINE q == [NoSession EXCEPT !.pc = "ended", !.d = session[w].d]
<1>1. session[w].d \in Deployments \cup {NoDeployment}
  BY DEF TypeOK, Session
<1>2. q \in Session /\ q.pc = "ended" /\ q.d = session[w].d
  BY <1>1 DEF NoSession, Session, SiteDeploymentStatus
<1>3. session' = [session EXCEPT ![w] = q]
  BY DEF Ends
<1> HIDE DEF q
<1>4. QED
  BY <1>2, <1>3 DEF TypeOK

(* A build that sets a status spoils what others read of its row, not what *)
(* it read itself.                                                         *)
LEMMA BuildInv ==
    ASSUME SiteInv, NEW w \in Workers, BeginBuild(w) \/ RaiseBuild(w)
    PROVE  SiteInv'
<1> USE DEF SiteInv
<1>1. /\ session[w].d \in Existing /\ TableKept /\ FlagsKept
      /\ \A x \in Existing : deployment'[x].asset => deployment[x].asset
  BY BuildEffect
<1>2. /\ session' \in [Workers -> Session]
      /\ session'[w].d = session[w].d
      /\ session'[w].pc = "ended" \/ (session'[w].pc = "building" /\ session'[w].active = session[w].active)
      /\ \A v \in Workers \ {w} : session'[v] = session[v]
  <2>1. CASE RaiseBuild(w)
    BY <2>1, EndsType DEF RaiseBuild
  <2>2. CASE BeginBuild(w)
    <3> DEFINE q == [session[w] EXCEPT !.pc = "building", !.status = "queued"]
    <3>1. q \in Session /\ q.pc = "building" /\ q.d = session[w].d /\ q.active = session[w].active
      BY DEF TypeOK, Session, SiteDeploymentStatus
    <3>2. session' = [session EXCEPT ![w] = q]
      BY <2>2 DEF BeginBuild
    <3> HIDE DEF q
    <3>3. QED
      BY <3>1, <3>2 DEF TypeOK
  <2>3. QED
    BY <2>1, <2>2
<1>3. UNCHANGED <<object, request, holder, left, doomed, raced>>
  BY DEF BeginBuild, RaiseBuild, queue
<1>4. outdated' \subseteq Workers \cup Requests
  BY OutdatedType DEF BeginBuild, RaiseBuild, Writes, WritesLast, TypeOK
<1>5. /\ \A v \in Workers : v # w => WorkerUnspoiled(v)
      /\ \A r \in Requests : r # w => RequestUnspoiled(r)
  <2>1. CASE UNCHANGED <<deployment, outdated>>
    BY <1>3, <2>1, QuietTable
  <2>2. CASE (outdated \cup Spoiled) \ {w} \subseteq outdated'
    BY <2>2, ToldOfWrite
  <2>3. QED
    BY <2>1, <2>2 DEF BeginBuild, RaiseBuild, Writes, WritesLast
<1>6. OneActive'
  BY <1>1, <1>3, FlagsKeptOneActive
<1>7. WorkerReads(w)'
  <2>1. CASE RaiseBuild(w)
    BY <2>1, EndsType DEF RaiseBuild, WorkerReads
  <2>2. CASE BeginBuild(w)
    <3>1. session[w].pc = "loaded" /\ outdated \subseteq outdated'
      BY <2>2 DEF BeginBuild, At, Writes
    <3>2. w \notin outdated => session[w].active = deployment[session[w].d].active
      BY <3>1 DEF ReadsStillTrue, WorkerReads
    <3>3. deployment'[session[w].d].active = deployment[session[w].d].active
      BY <1>1 DEF FlagsKept
    <3>4. QED
      BY <1>2, <3>1, <3>2, <3>3 DEF WorkerReads, At
  <2>3. QED
    BY <2>1, <2>2
<1>8. w \notin Requests
  BY SiteAssumption
<1>9. /\ request' \in [Requests -> Handler] /\ raced' \subseteq Environments
      /\ holder' \in [Deployments -> Workers \cup {NoWorker}]
      /\ left' \in [Deployments -> 0 .. Attempts]
      /\ object' \subseteq Existing /\ doomed' \subseteq Existing
      /\ \A x \in Existing : deployment'[x].asset => x \in object' \cup doomed'
  BY <1>1, <1>3 DEF TypeOK, ArtifactsStored
<1>10. QED
  BY <1>1, <1>2, <1>3, <1>4, <1>5, <1>6, <1>7, <1>8, <1>9, StepInv

LEMMA CommitResult ==
    ASSUME SiteInv, NEW w \in Workers, CommitBuild(w)
    PROVE  LET d == session[w].d
           IN  /\ d \in Existing /\ TableKept
               /\ \A e \in Environments \ {deployment[d].environment} : Active(e)' = Active(e)
               /\ w \notin outdated => \A e \in Environments : d \in In(e) => Active(e)' = {d}
               /\ deployment'[d].status = "ready" /\ deployment'[d].asset
               /\ \A x \in Existing : deployment'[x].asset => deployment[x].asset \/ x = d
<1> USE DEF SiteInv
<1> DEFINE d == session[w].d
<1>1. /\ d \in Existing /\ TableKept /\ Activation(d, session[w].seen, session[w].active)
      /\ deployment'[d].status = "ready"
      /\ deployment'[d].asset
  BY CommitEffect
<1>2. session[w].pc = "inserted"
  BY DEF CommitBuild, At
<1>3. session[w].seen \subseteq In(deployment[d].environment)
  BY <1>2 DEF SeenInEnvironment, At
<1>4. w \notin outdated => session[w].active = deployment[d].active /\ session[w].seen = Listed(d)
  BY <1>2 DEF ReadsStillTrue, WorkerReads, At
<1>5. \A x \in Existing : deployment'[x].asset => deployment[x].asset \/ x = d
  BY <1>1 DEF Activation
<1> HIDE DEF d
<1>6. /\ \A e \in Environments \ {deployment[d].environment} : Active(e)' = Active(e)
      /\ (session[w].active = deployment[d].active /\ session[w].seen = Listed(d))
            => \A e \in Environments : d \in In(e) => Active(e)' = {d}
  BY <1>1, <1>3, ActivationResult
<1>7. QED
  BY <1>1, <1>4, <1>5, <1>6 DEF d

LEMMA CommitBuildInv ==
    ASSUME SiteInv, NEW w \in Workers, CommitBuild(w)
    PROVE  SiteInv'
<1> USE DEF SiteInv
<1> DEFINE d == session[w].d
<1>1. /\ d \in Existing /\ TableKept
      /\ \A e \in Environments \ {deployment[d].environment} : Active(e)' = Active(e)
      /\ w \notin outdated => \A e \in Environments : d \in In(e) => Active(e)' = {d}
      /\ \A x \in Existing : deployment'[x].asset => deployment[x].asset \/ x = d
  BY CommitResult
<1>2. /\ Ends(w)
      /\ outdated' = (outdated \cup Spoiled) \ {w}
      /\ Judge(w, d)
      /\ UNCHANGED <<object, request, holder, left, doomed>>
      /\ session[w].pc = "inserted"
  BY DEF CommitBuild, WritesLast, queue, At
<1>3. /\ session' \in [Workers -> Session]
      /\ session'[w].pc = "ended" /\ session'[w].d = d
      /\ \A v \in Workers \ {w} : session'[v] = session[v]
  BY <1>2, EndsType
<1>4. /\ \A v \in Workers : v # w => WorkerUnspoiled(v)
      /\ \A r \in Requests : r # w => RequestUnspoiled(r)
  BY <1>2, ToldOfWrite
<1>5. OneActive' /\ raced' \subseteq Environments
  BY <1>1, <1>2, ActivationOneActive
<1>6. WorkerReads(w)'
  BY <1>3 DEF WorkerReads
<1>7. w \notin Requests
  BY SiteAssumption
<1>8. d \in object \cup doomed
  BY <1>2 DEF ArtifactsStored, At
<1>9. /\ request' \in [Requests -> Handler]
      /\ outdated' \subseteq Workers \cup Requests
      /\ holder' \in [Deployments -> Workers \cup {NoWorker}]
      /\ left' \in [Deployments -> 0 .. Attempts]
      /\ object' \subseteq Existing /\ doomed' \subseteq Existing
      /\ \A x \in Existing : deployment'[x].asset => x \in object' \cup doomed'
  BY <1>1, <1>2, <1>8, OutdatedType DEF TypeOK, ArtifactsStored
<1>10. QED
  BY <1>1, <1>2, <1>3, <1>4, <1>5, <1>6, <1>7, <1>9, StepInv

(* A retried job, a lost hold: the queue alone changes.                    *)
LEMMA QueueInv ==
    ASSUME SiteInv, LoseHold \/ \E d \in Existing : RetryBuild(d)
    PROVE  SiteInv'
<1> USE DEF SiteInv
<1>1. UNCHANGED <<deployment, object, session, request, outdated, doomed, raced>>
  BY DEF LoseHold, RetryBuild
<1>2. /\ holder' \in [Deployments -> Workers \cup {NoWorker}]
      /\ left' \in [Deployments -> 0 .. Attempts]
  <2>1. CASE LoseHold
    BY <2>1 DEF LoseHold, Queue!Free, TypeOK
  <2>2. CASE \E d \in Existing : RetryBuild(d)
    <3>1. PICK d \in Existing : RetryBuild(d)
      BY <2>2
    <3>2. holder' = [holder EXCEPT ![d] = NoWorker] /\ left' = [left EXCEPT ![d] = Attempts]
      BY <3>1 DEF RetryBuild, Queue!Grant
    <3>3. Attempts \in 0 .. Attempts
      BY SiteAssumption
    <3>4. QED
      BY <3>2, <3>3 DEF TypeOK
  <2>3. QED
    BY <2>1, <2>2
<1> DEFINE nobody == CHOOSE s : s \notin Workers \cup Requests
<1>3. nobody \notin Workers \cup Requests
  BY NoSetContainsEverything
<1> HIDE DEF nobody
<1>4. /\ TableKept /\ OneActive'
      /\ \A v \in Workers : v # nobody => WorkerUnspoiled(v)
      /\ \A r \in Requests : r # nobody => RequestUnspoiled(r)
  BY <1>1, QuietTable
<1>5. \A x \in Existing : deployment'[x].asset => x \in object' \cup doomed'
  BY <1>1 DEF ArtifactsStored
<1>6. QED
  BY <1>1, <1>2, <1>3, <1>4, <1>5, StepInv DEF TypeOK

LEMMA InvInit == Init => SiteInv
<1> SUFFICES ASSUME Init PROVE SiteInv
  OBVIOUS
<1>1. Existing = {}
  BY DEF Init, Existing
<1>2. FiniteTable
  BY <1>1, FS_EmptySet DEF FiniteTable
<1>3. CreatedInOrder /\ VersionsBounded
  BY <1>1 DEF CreatedInOrder, VersionsBounded
<1>4. SeenInEnvironment /\ ReadsStillTrue /\ ArtifactsStored
  BY <1>1, IdleTypes
     DEF Init, SeenInEnvironment, ReadsStillTrue, WorkerReads, RequestReads, ArtifactsStored, At
<1>5. \A e : Active(e) = {}
  BY <1>1 DEF Active, In
<1>6. OneActive
  BY <1>5, FS_EmptySet DEF OneActive
<1>7. QED
  BY <1>2, <1>3, <1>4, <1>6, TypeInit DEF SiteInv

LEMMA InvNext == SiteInv /\ [Next]_vars => SiteInv'
<1> SUFFICES ASSUME SiteInv, [Next]_vars PROVE SiteInv'
  OBVIOUS
<1>1. ASSUME NEW r \in Requests, RequestStep(r) PROVE SiteInv'
  <2>1. CASE CreateRead(r) \/ CreateEnqueue(r) \/ PromoteSelect(r) \/ PromoteCommit(r)
             \/ DeleteRow(r) \/ RequestLost(r)
    BY <2>1, CreateReadInv, CreateEnqueueInv, PromoteSelectInv, PromoteCommitInv, DeleteRowInv,
       RequestLostInv
  <2>2. CASE \E d \in Deployments, e \in Environments : CreateInsert(r, d, e)
    BY <2>2, CreateInsertInv
  <2>3. CASE \E d \in Existing : PromoteLoad(r, d) \/ DeleteObject(r, d)
    BY <2>3, PromoteLoadInv, DeleteObjectInv
  <2>4. QED
    BY <1>1, <2>1, <2>2, <2>3 DEF RequestStep
<1>2. ASSUME NEW w \in Workers, WorkerStep(w) PROVE SiteInv'
  BY <1>2, StartBuildInv, BuildInv, UploadInv, InsertInv, LeavingInv, CommitBuildInv DEF WorkerStep
<1>3. CASE UNCHANGED vars
  <2>1. UNCHANGED <<deployment, object, session, request, holder, left, outdated, doomed, raced>>
    BY <1>3 DEF vars, queue
  <2>2. QED
    BY <2>1 DEF SiteInv, TypeOK, Existing, FiniteTable, CreatedInOrder, VersionsBounded,
       SeenInEnvironment, ReadsStillTrue, WorkerReads, RequestReads, ArtifactsStored, OneActive,
       At, In, Listed, Active
<1>4. QED
  BY <1>1, <1>2, <1>3, QueueInv DEF Next

(* The table, the sessions and the history variables keep the inductive    *)
(* invariant above, whatever requests, builds and crashes interleave.      *)
THEOREM Invariant == Spec => []SiteInv
<1>1. QED
  BY InvInit, InvNext, PTL DEF Spec

(* Every variable keeps its type.                                          *)
THEOREM TypeCorrect == Spec => []TypeOK
<1>1. SiteInv => TypeOK
  BY DEF SiteInv
<1>2. QED
  BY <1>1, Invariant, PTL

(* One deployment per environment is active, unless the last activation    *)
(* was committed over another that its session had not seen                *)
(* (_activate_deployment of site_build.py, promote_site_deployment).       *)
THEOREM OneDeploymentActive == Spec => []OneActive
<1>1. SiteInv => OneActive
  BY DEF SiteInv
<1>2. QED
  BY <1>1, Invariant, PTL

-----------------------------------------------------------------------------
(* What visitors are given.                                                *)

(* The ORDER BY of _active_ready_deployment has a first row.               *)
LEMMA NewestIn ==
    ASSUME TypeOK, FiniteTable, CreatedInOrder, VersionsBounded,
           NEW D \in SUBSET Existing, D # {}
    PROVE  Newest(D) \in D
<1> DEFINE V == {deployment[x].version : x \in D}
           top(v) == {x \in D : deployment[x].version = v}
<1>1. \A x \in Existing : deployment[x].version \in Nat /\ deployment[x].created \in Nat
  BY DEF TypeOK, SiteDeployment
<1>2. PICK n \in Nat : \A x \in Existing : deployment[x].version <= n
  BY DEF VersionsBounded
<1>3. V \in SUBSET Nat /\ V # {} /\ \A v \in V : v <= n
  BY <1>1, <1>2
<1>4. PICK v \in V : \A u \in V : u <= v
  BY <1>2, <1>3, HasGreatest
<1>5. \A x \in D : deployment[x].version <= v
  BY <1>4
<1> DEFINE C == {deployment[x].created : x \in top(v)}
<1>6. Cardinality(Existing) \in Nat
  BY FS_CardinalityType DEF FiniteTable
<1>7. C \in SUBSET Nat /\ C # {} /\ \A c \in C : c <= Cardinality(Existing)
  BY <1>1, <1>4 DEF CreatedInOrder
<1>8. PICK c \in C : \A b \in C : b <= c
  BY <1>6, <1>7, HasGreatest
<1>9. PICK d \in top(v) : deployment[d].created = c
  BY <1>8
<1>10. ASSUME NEW x \in D \ {d}
       PROVE  \/ deployment[x].version < deployment[d].version
              \/ /\ deployment[x].version = deployment[d].version
                 /\ deployment[x].created < deployment[d].created
  <2>1. CASE deployment[x].version = v
    <3>1. deployment[x].created <= c
      BY <1>8, <2>1
    <3>2. deployment[x].created # c
      BY <1>9 DEF CreatedInOrder
    <3>3. QED
      BY <1>1, <1>9, <2>1, <3>1, <3>2
  <2>2. CASE deployment[x].version # v
    BY <1>1, <1>5, <1>9, <2>2
  <2>3. QED
    BY <2>1, <2>2
<1>11. QED
  BY <1>9, <1>10 DEF Newest

LEMMA ServedIsServable ==
    ASSUME TypeOK, FiniteTable, CreatedInOrder, VersionsBounded, NEW e \in Environments,
           Served(e) # NoDeployment
    PROVE  Served(e) \in Existing /\ deployment[Served(e)].asset
<1>1. Servable(e) \subseteq Existing /\ \A d \in Servable(e) : deployment[d].asset
  BY DEF Servable, In
<1>2. Served(e) \in Servable(e)
  BY <1>1, NewestIn DEF Served
<1>3. QED
  BY <1>1, <1>2

LEMMA ServedStored == SiteInv => ServedHasArtifact
<1> SUFFICES ASSUME SiteInv, NEW e \in Environments, Served(e) # NoDeployment
             PROVE  Served(e) \in object \cup doomed
  BY DEF ServedHasArtifact
<1>1. Served(e) \in Existing /\ deployment[Served(e)].asset
  BY ServedIsServable DEF SiteInv
<1>2. QED
  BY <1>1 DEF SiteInv, ArtifactsStored

(* Visitors are never given a deployment whose artifact was not uploaded:  *)
(* build_site_deployment stores it before it writes the rows, and a build  *)
(* that crashed, failed or ran twice changes nothing of that.              *)
THEOREM ArtifactIsStored == Spec => []ServedHasArtifact
<1>1. QED
  BY ServedStored, Invariant, PTL

-----------------------------------------------------------------------------
(* What an activation changes.                                             *)

(* With one ready deployment active, it is the one given to visitors.      *)
LEMMA OneActiveServed ==
    ASSUME NEW e, NEW d \in Existing', Active(e)' = {d},
           deployment'[d].status = "ready", deployment'[d].asset
    PROVE  Served(e)' = d
<1>1. d \in In(e)'
  BY DEF Active
<1>2. Servable(e)' \cap Active(e)' = {d}
  BY <1>1 DEF Servable
<1>3. Newest({d})' = d
  BY DEF Newest
<1>4. QED
  BY <1>2, <1>3 DEF Served, Newest

LEMMA ActivationServes ==
    ASSUME SiteInv, NEW s \in Workers \cup Requests, NEW d \in Existing,
           s \notin outdated, Activates(s, d)
    PROVE  \A e \in Environments : d \in In(e) => Active(e)' = {d} /\ Served(e)' = d
<1>1. /\ TableKept
      /\ \A e \in Environments : d \in In(e) => Active(e)' = {d}
      /\ deployment'[d].status = "ready" /\ deployment'[d].asset
  BY PromoteResult, CommitResult DEF Activates
<1>2. d \in Existing'
  BY <1>1 DEF TableKept
<1>3. QED
  BY <1>1, <1>2, OneActiveServed

(* A promotion or a finished build whose reads are still true when it      *)
(* commits decides what visitors get, older versions included.             *)
THEOREM ActivationDecides == Spec => ActivationTakesEffect
<1>1. ASSUME SiteInv, [Next]_vars
      PROVE  [\A s \in Workers \cup Requests, d \in Existing :
                (s \notin outdated /\ Activates(s, d))
                   => LET e == deployment[d].environment
                      IN  Active(e)' = {d} /\ Served(e)' = d]_vars
  <2>1. ASSUME NEW s \in Workers \cup Requests, NEW d \in Existing,
               s \notin outdated, Activates(s, d),
               NEW e, e = deployment'[d].environment
        PROVE  Active(e)' = {d} /\ Served(e)' = d
    <3>1. TableKept
      BY <1>1, <2>1, PromoteResult, CommitResult DEF Activates
    <3>2. e = deployment[d].environment
      BY <2>1, <3>1 DEF TableKept, SameRow
    <3>3. e \in Environments /\ d \in In(e)
      BY <1>1, <3>2, InEnvironment DEF SiteInv
    <3>4. QED
      BY <1>1, <2>1, <3>3, ActivationServes
  <2>2. QED
    BY <2>1
<1>2. QED
  BY <1>1, Invariant, PTL DEF Spec, ActivationTakesEffect

(* A step that is no activation leaves the flags alone; a row created is   *)
(* inactive.                                                               *)
LEMMA OtherStepsKeepActive ==
    ASSUME SiteInv, [Next]_vars,
           \A r \in Requests : ~PromoteCommit(r), \A w \in Workers : ~CommitBuild(w)
    PROVE  \A e : Active(e)' = Active(e)
<1> USE DEF SiteInv
<1>1. CASE UNCHANGED deployment
  BY <1>1 DEF Active, In, Existing
<1>2. ASSUME NEW r \in Requests, RequestStep(r), ~(UNCHANGED deployment)
      PROVE  \A e : Active(e)' = Active(e)
  <2>1. \/ CreateEnqueue(r) \/ DeleteRow(r)
        \/ \E d \in Deployments, e \in Environments : CreateInsert(r, d, e)
    BY <1>2 DEF RequestStep, CreateRead, PromoteLoad, DeleteObject, PromoteSelect, RequestLost
  <2>2. CASE CreateEnqueue(r) \/ DeleteRow(r)
    BY <2>2, EnqueueEffect, DeleteRowEffect, ActiveKept
  <2>3. ASSUME NEW d \in Deployments, NEW e \in Environments, CreateInsert(r, d, e)
        PROVE  \A f : Active(f)' = Active(f)
    <3>1. /\ Existing' = Existing \cup {d} /\ ~deployment'[d].active
          /\ \A x \in Existing : deployment'[x] = deployment[x] /\ x # d
      BY <2>3 DEF CreateInsert, Existing, Queued
    <3>2. QED
      BY <3>1 DEF Active, In
  <2>4. QED
    BY <2>1, <2>2, <2>3
<1>3. ASSUME NEW w \in Workers, WorkerStep(w), ~(UNCHANGED deployment)
      PROVE  \A e : Active(e)' = Active(e)
  <2>1. BeginBuild(w) \/ RaiseBuild(w)
    BY <1>3 DEF WorkerStep, StartBuild, Upload, InsertRefused, Insert, Finish, Crash
  <2>2. QED
    BY <2>1, BuildEffect, ActiveKept
<1>4. QED
  BY <1>1, <1>2, <1>3 DEF Next, vars, LoseHold, RetryBuild

LEMMA StepKeepsOthersActive ==
    ASSUME SiteInv, [Next]_vars, NEW x \in Environments, NEW y \in Environments,
           Active(x)' # Active(x), Active(y)' # Active(y)
    PROVE  x = y
<1>1. CASE \E r \in Requests : PromoteCommit(r)
  BY <1>1, PromoteResult
<1>2. CASE \E w \in Workers : CommitBuild(w)
  BY <1>2, CommitResult
<1>3. QED
  BY <1>1, <1>2, OtherStepsKeepActive

(* Production and preview are independent: no request and no build changes *)
(* what is active in two environments.                                     *)
THEOREM IndependentEnvironments == Spec => EnvironmentsIndependent
<1>1. SiteInv /\ [Next]_vars
         => [\A x, y \in Environments : Active(x)' # Active(x) /\ Active(y)' # Active(y)
                                           => x = y]_vars
  BY StepKeepsOthersActive
<1>2. QED
  BY <1>1, Invariant, PTL DEF Spec, EnvironmentsIndependent

-----------------------------------------------------------------------------
(* The queue a site uses is the queue of LeasedWork: what JobQueueProofs   *)
(* proves that run_once and the lease give is all a build relies on.       *)

LEMMA PromiseNext == TypeOK /\ [Next]_vars => [Queue!Next]_queue
<1> SUFFICES ASSUME TypeOK, Next, ~(UNCHANGED queue) PROVE Queue!Next
  BY DEF vars, queue, Queue!vars
<1>1. ASSUME NEW r \in Requests, RequestStep(r) PROVE Queue!Next
  <2>1. CreateEnqueue(r)
    BY <1>1 DEF RequestStep, CreateRead, CreateInsert, PromoteLoad, DeleteObject, PromoteSelect,
                PromoteCommit, DeleteRow, RequestLost
  <2>2. request[r].d \in Deployments /\ Queue!Grant(request[r].d, Attempts)
    BY <2>1 DEF CreateEnqueue, TypeOK
  <2>3. QED
    BY <2>2 DEF Queue!Next
<1>2. ASSUME NEW w \in Workers, WorkerStep(w) PROVE Queue!Next
  <2>1. StartBuild(w) \/ Finish(w)
    BY <1>2 DEF WorkerStep, BeginBuild, RaiseBuild, Upload, InsertRefused, Insert, CommitBuild, Crash
  <2>2. CASE StartBuild(w)
    BY <2>2 DEF StartBuild, Queue!Next, TypeOK
  <2>3. CASE Finish(w)
    BY <2>3 DEF Finish, Queue!Next, TypeOK, At
  <2>4. QED
    BY <2>1, <2>2, <2>3
<1>3. CASE LoseHold
  BY <1>3 DEF LoseHold, Queue!Next
<1>4. CASE \E d \in Existing : RetryBuild(d)
  BY <1>4 DEF RetryBuild, Queue!Next, TypeOK
<1>5. QED
  BY <1>1, <1>2, <1>3, <1>4 DEF Next

(* Every behaviour of the site drives its jobs as the queue promises: one   *)
(* holder at a time, taken at most Attempts times per grant.               *)
THEOREM UsesTheQueue == Spec => Queue!Spec
<1>1. Init => Queue!Init
  BY DEF Init
<1>2. QED
  BY <1>1, PromiseNext, TypeCorrect, PTL DEF Spec, Queue!Spec, Queue!vars, queue

=============================================================================
