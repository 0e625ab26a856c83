------------------------------ MODULE JobQueue ------------------------------
(***************************************************************************)
(* The durable job queue: the jobs table (models/job.py), the queue        *)
(* primitives (services/jobs.py), the worker loop (worker.py) and the jobs *)
(* API (api/jobs.py).                                                      *)
(*                                                                         *)
(* Every session works on its own copy of a row: SQLAlchemy reads the row, *)
(* the handler assigns attributes, and the flush at commit writes only the *)
(* columns whose value differs from the one that was LOADED, WHERE id = .. *)
(* and nothing else.  Only claim_next_job locks the row it reads.  So a    *)
(* worker finishing a job, and an API request cancelling or retrying one,  *)
(* is two steps here: load the copy, then flush it over whatever the row   *)
(* has become.                                                             *)
(*                                                                         *)
(* Time is kept relative to now: run_after is the number of ticks until    *)
(* the job is due; for jobs already due only their order is kept, as 0,    *)
(* -1, -2, ...; lock_age is the number of ticks since locked_at, counted   *)
(* until the lease is past.                                                *)
(***************************************************************************)
EXTENDS Integers, FiniteSets

CONSTANTS
    Jobs,           \* job ids the table can hold
    Workers,        \* worker processes
    Requests,       \* concurrent API requests
    Keys,           \* idempotency keys, workspace-scoped
    NoKey,          \* a job enqueued without a key
    NoWorker,       \* locked_by IS NULL
    NoJob,          \* a session that has loaded no job
    Budgets,        \* max_attempts values a request may ask for
    Lease,          \* worker_lease_seconds, in ticks
    BackoffCap      \* the 300 s ceiling of the retry delay, in ticks

ASSUME JobQueueAssumption ==
    /\ IsFiniteSet(Jobs)
    /\ NoJob \notin Jobs
    /\ NoWorker \notin Workers
    /\ NoKey \notin Keys
    /\ Budgets \subseteq Nat \ {0}
    /\ Lease \in Nat
    /\ BackoffCap \in Nat \ {0}

VARIABLES
    job,        \* the jobs table
    worker,     \* per worker process: where run_once stands, and its session
    request,    \* per API request: the handler under way, and its session
    overtaken,  \* history: workers whose lease ran out, or whose row another
                \* session wrote, while they were executing
    replied     \* history: <<key, job>> pairs enqueue_job answered with

vars == <<job, worker, request, overtaken, replied>>

-----------------------------------------------------------------------------
(* Rows and session copies.                                                *)

JobStatus == {"queued", "running", "succeeded", "failed", "cancelled"}

Job == [status: JobStatus \cup {"absent"},
        key: Keys \cup {NoKey},
        max_attempts: Nat \ {0},
        attempts: Nat,
        run_after: Int,
        locked_by: Workers \cup {NoWorker},
        lock_age: Nat,
        error: BOOLEAN]

(* The columns a loaded Job object carries that a handler may overwrite.   *)
Copy == [status: JobStatus \cup {"absent"},
         attempts: Nat,
         max_attempts: Nat \ {0},
         locked: BOOLEAN,
         error: BOOLEAN]

Load(row) == [status |-> row.status, attempts |-> row.attempts,
              max_attempts |-> row.max_attempts, error |-> row.error,
              locked |-> row.locked_by # NoWorker]

(* Seeded fault: every column of the copy is written back.                 *)
FlushAllColumns(row, loaded, attr) ==
    [row EXCEPT !.status = attr.status, !.attempts = attr.attempts,
                !.error = attr.error,
                !.locked_by = IF attr.locked THEN @ ELSE NoWorker,
                !.lock_age = IF attr.locked THEN @ ELSE 0]

(* The UPDATE a flush issues: a column is written iff the attribute differs *)
(* from the loaded value.  Handlers other than the claim only ever set     *)
(* locked_at and locked_by to NULL, both together.                         *)
Flush(row, loaded, attr) ==
    [status       |-> IF attr.status # loaded.status THEN attr.status ELSE row.status,
     key          |-> row.key,
     max_attempts |-> row.max_attempts,
     attempts     |-> IF attr.attempts # loaded.attempts
                        THEN attr.attempts ELSE row.attempts,
     run_after    |-> row.run_after,
     locked_by    |-> IF attr.locked # loaded.locked THEN NoWorker ELSE row.locked_by,
     lock_age     |-> IF attr.locked # loaded.locked THEN 0 ELSE row.lock_age,
     error        |-> IF attr.error # loaded.error THEN attr.error ELSE row.error]

NewJob(k, m) == [status |-> "queued", key |-> k, max_attempts |-> m,
                 attempts |-> 0, run_after |-> 0, locked_by |-> NoWorker,
                 lock_age |-> 0, error |-> FALSE]

(* An id not yet in the table.                                             *)
Absent == [NewJob(NoKey, 1) EXCEPT !.status = "absent"]

(* What a worker process holds between the steps of run_once, and what an  *)
(* API request holds between its read and its commit.                      *)
Session == [pc: {"idle", "claimed", "executing", "down"},
            job: Jobs \cup {NoJob},
            copy: Copy]
Handler == [op: {"none", "enqueue", "retry", "cancel"},
            job: Jobs \cup {NoJob},
            copy: Copy,
            key: Keys \cup {NoKey},
            max_attempts: Nat \ {0}]

NoSession == [pc |-> "idle", job |-> NoJob, copy |-> Load(Absent)]
NoRequest == [op |-> "none", job |-> NoJob, copy |-> Load(Absent),
              key |-> NoKey, max_attempts |-> 1]

Exists(j) == job[j].status # "absent"
Busy(w) == worker[w].pc \in {"claimed", "executing"}
Executors(j) == {w \in Workers : Busy(w) /\ worker[w].job = j}

(* w writes the row of j and is done with it: its other executors have     *)
(* been overtaken.                                                         *)
OvertakeOthers(j, w) == (overtaken \cup Executors(j)) \ {w}

-----------------------------------------------------------------------------
(* enqueue_job, reached from POST /jobs: an unlocked look-up of the key,    *)
(* then an INSERT that the unique constraint may refuse.                   *)

Idle(r) == request[r].op = "none"
KeyTaken(k) == k # NoKey /\ \E j \in Jobs : Exists(j) /\ job[j].key = k

EnqueueLookup(r, k, m) ==
    /\ Idle(r)
    /\ IF KeyTaken(k)
         THEN /\ \E j \in Jobs : /\ Exists(j) /\ job[j].key = k
                                 /\ replied' = replied \cup {<<k, j>>}
              /\ UNCHANGED request
         ELSE /\ request' = [request EXCEPT ![r] =
                             [NoRequest EXCEPT !.op = "enqueue", !.key = k,
                                               !.max_attempts = m]]
              /\ UNCHANGED replied
    /\ UNCHANGED <<job, worker, overtaken>>

(* Seeded fault: no unique constraint stands behind the look-up.           *)
EnqueueInsertUnchecked(r) ==
    /\ request[r].op = "enqueue"
    /\ LET k == request[r].key
       IN  \E j \in Jobs :
             /\ ~Exists(j)
             /\ job' = [job EXCEPT ![j] = NewJob(k, request[r].max_attempts)]
             /\ replied' = IF k = NoKey THEN replied ELSE replied \cup {<<k, j>>}
    /\ request' = [request EXCEPT ![r] = NoRequest]
    /\ UNCHANGED <<worker, overtaken>>

(* IntegrityError on uq_job_workspace_idempotency: nothing is inserted and *)
(* the request ends in an error.                                           *)
EnqueueInsert(r) ==
    /\ request[r].op = "enqueue"
    /\ LET k == request[r].key
       IN  IF KeyTaken(k)
             THEN UNCHANGED <<job, replied>>
             ELSE \E j \in Jobs :
                    /\ ~Exists(j)
                    /\ job' = [job EXCEPT ![j] = NewJob(k, request[r].max_attempts)]
                    /\ replied' = IF k = NoKey THEN replied
                                  ELSE replied \cup {<<k, j>>}
    /\ request' = [request EXCEPT ![r] = NoRequest]
    /\ UNCHANGED <<worker, overtaken>>

-----------------------------------------------------------------------------
(* retry_job and cancel_job: load the row, check its status, then flush.   *)

Retryable == {"failed", "cancelled"}
Cancellable == {"queued", "running"}

RetryLoad(r, j) ==
    /\ Idle(r)
    /\ job[j].status \in Retryable
    /\ request' = [request EXCEPT ![r] =
                     [NoRequest EXCEPT !.op = "retry", !.job = j,
                                       !.copy = Load(job[j])]]
    /\ UNCHANGED <<job, worker, overtaken, replied>>

RetryCommit(r) ==
    /\ request[r].op = "retry"
    /\ LET j == request[r].job
           loaded == request[r].copy
           attr == [loaded EXCEPT !.status = "queued", !.attempts = 0,
                                  !.error = FALSE]
       IN  /\ job' = [job EXCEPT ![j] = [Flush(@, loaded, attr) EXCEPT
                                             !.run_after = 0]]
           /\ overtaken' = overtaken \cup Executors(j)
    /\ request' = [request EXCEPT ![r] = NoRequest]
    /\ UNCHANGED <<worker, replied>>

CancelLoad(r, j) ==
    /\ Idle(r)
    /\ job[j].status \in Cancellable
    /\ request' = [request EXCEPT ![r] =
                     [NoRequest EXCEPT !.op = "cancel", !.job = j,
                                       !.copy = Load(job[j])]]
    /\ UNCHANGED <<job, worker, overtaken, replied>>

CancelCommit(r) ==
    /\ request[r].op = "cancel"
    /\ LET j == request[r].job
           loaded == request[r].copy
           attr == [loaded EXCEPT !.status = "cancelled",
                                  !.locked = FALSE]
       IN  /\ job' = [job EXCEPT ![j] = Flush(@, loaded, attr)]
           /\ overtaken' = overtaken \cup Executors(j)
    /\ request' = [request EXCEPT ![r] = NoRequest]
    /\ UNCHANGED <<worker, replied>>

(* The API process dies with the request: its transaction rolls back.      *)
RequestLost(r) ==
    /\ ~Idle(r)
    /\ request' = [request EXCEPT ![r] = NoRequest]
    /\ UNCHANGED <<job, worker, overtaken, replied>>

-----------------------------------------------------------------------------
(* claim_next_job: one transaction, under the lock of the row it selects.  *)

(* Seeded faults: the lease is over one tick early; a lease never ends.    *)
LeaseExpiredEarly(j) == job[j].status = "running" /\ job[j].lock_age >= Lease
LeaseNeverExpires(j) == job[j].status = "running" /\ FALSE

Due(j) == job[j].status = "queued" /\ job[j].run_after <= 0
LeaseExpired(j) == job[j].status = "running" /\ job[j].lock_age > Lease

(* Seeded fault: the attempts budget is not checked.                       *)
CandidateBeyondBudget(j) == Due(j) \/ LeaseExpired(j)

Candidate(j) ==
    /\ job[j].attempts < job[j].max_attempts
    /\ Due(j) \/ LeaseExpired(j)

(* ORDER BY run_after, created_at LIMIT 1: jobs equally overdue are a tie. *)
First(j) ==
    /\ Candidate(j)
    /\ \A k \in Jobs : Candidate(k) => job[j].run_after <= job[k].run_after

Claim(w) ==
    /\ worker[w].pc = "idle"
    /\ \E j \in Jobs :
         /\ First(j)
         /\ job' = [job EXCEPT ![j] =
                       [job[j] EXCEPT !.status = "running", !.attempts = @ + 1,
                                      !.locked_by = w, !.lock_age = 0]]
         /\ worker' = [worker EXCEPT ![w] = [@ EXCEPT !.pc = "claimed",
                                                          !.job = j]]
    /\ overtaken' = overtaken \ {w}
    /\ UNCHANGED <<request, replied>>

(* db.refresh(job) runs after the claim's commit, so it may read what      *)
(* another session has committed in between.                               *)
Refresh(w) ==
    /\ worker[w].pc = "claimed"
    /\ worker' = [worker EXCEPT ![w] =
                    [@ EXCEPT !.pc = "executing",
                              !.copy = Load(job[worker[w].job])]]
    /\ UNCHANGED <<job, request, overtaken, replied>>

-----------------------------------------------------------------------------
(* The end of run_once: complete_job if execute_job returned, fail_job if  *)
(* it raised.  Both assign the copy taken at Refresh and flush it.         *)

(* Seeded fault: the next session starts from the objects of the last one. *)
FinishedKeepingSession(w) == [worker EXCEPT ![w].pc = "idle"]

Finished(w) == [worker EXCEPT ![w] = NoSession]

(* Seeded fault: complete_job leaves the error of an earlier attempt.      *)
CompleteKeepingError(w) ==
    /\ worker[w].pc = "executing"
    /\ LET j == worker[w].job
           loaded == worker[w].copy
           attr == [loaded EXCEPT !.status = "succeeded", !.locked = FALSE]
       IN  /\ job' = [job EXCEPT ![j] = Flush(@, loaded, attr)]
           /\ overtaken' = OvertakeOthers(j, w)
    /\ worker' = Finished(w)
    /\ UNCHANGED <<request, replied>>

Complete(w) ==
    /\ worker[w].pc = "executing"
    /\ LET j == worker[w].job
           loaded == worker[w].copy
           attr == [loaded EXCEPT !.status = "succeeded", !.error = FALSE,
                                  !.locked = FALSE]
       IN  /\ job' = [job EXCEPT ![j] = Flush(@, loaded, attr)]
           /\ overtaken' = OvertakeOthers(j, w)
    /\ worker' = Finished(w)
    /\ UNCHANGED <<request, replied>>

(* min(300, 2 ** max(attempts - 1, 0)), attempts as the session copy has it *)
Backoff(attempts) ==
    LET delay == 2 ^ (IF attempts > 0 THEN attempts - 1 ELSE 0)
    IN  IF delay \in 1 .. BackoffCap THEN delay ELSE BackoffCap

Fail(w) ==
    /\ worker[w].pc = "executing"
    /\ LET j == worker[w].job
           loaded == worker[w].copy
           exhausted == loaded.attempts >= loaded.max_attempts
           attr == [loaded EXCEPT !.status = IF exhausted THEN "failed" ELSE "queued",
                                  !.error = TRUE, !.locked = FALSE]
           row == Flush(job[j], loaded, attr)
       IN  /\ job' = [job EXCEPT ![j] =
                        IF exhausted THEN row
                        ELSE [row EXCEPT !.run_after = Backoff(loaded.attempts)]]
           /\ overtaken' = OvertakeOthers(j, w)
    /\ worker' = Finished(w)
    /\ UNCHANGED <<request, replied>>

(* The worker process dies: a crash, or an exception out of                *)
(* claim_next_job, fail_job or the outbox publisher, which main() does not *)
(* catch.  The row keeps its lock.                                         *)
Crash(w) ==
    /\ worker[w].pc # "down"
    /\ worker' = [worker EXCEPT ![w] = [NoSession EXCEPT !.pc = "down"]]
    /\ overtaken' = overtaken \ {w}
    /\ UNCHANGED <<job, request, replied>>

Restart(w) ==
    /\ worker[w].pc = "down"
    /\ worker' = [worker EXCEPT ![w] = NoSession]
    /\ UNCHANGED <<job, request, overtaken, replied>>

(* Of the jobs already due only the order matters from now on: minus the   *)
(* number of due jobs that are not before j.                               *)
DueRank(j) ==
    -Cardinality({k \in Jobs : /\ Exists(k)
                               /\ job[k].run_after <= 0
                               /\ job[j].run_after <= job[k].run_after})

Aged(j) ==
    [job[j] EXCEPT
        !.run_after = IF @ > 0 THEN @ - 1 ELSE DueRank(j),
        !.lock_age = IF job[j].locked_by # NoWorker /\ @ <= Lease THEN @ + 1 ELSE @]

Tick ==
    /\ job' = [j \in Jobs |-> IF Exists(j) THEN Aged(j) ELSE job[j]]
    /\ overtaken' = overtaken \cup
                      {w \in Workers : /\ Busy(w)
                                       /\ job'[worker[w].job].lock_age > Lease}
    /\ UNCHANGED <<worker, request, replied>>

-----------------------------------------------------------------------------

Init ==
    /\ job = [j \in Jobs |-> Absent]
    /\ worker = [w \in Workers |-> NoSession]
    /\ request = [r \in Requests |-> NoRequest]
    /\ overtaken = {}
    /\ replied = {}

WorkerStep(w) ==
    \/ Claim(w)
    \/ Refresh(w)
    \/ Complete(w)
    \/ Fail(w)
    \/ Restart(w)

RequestStep(r) ==
    \/ \E k \in Keys \cup {NoKey}, m \in Budgets : EnqueueLookup(r, k, m)
    \/ EnqueueInsert(r)
    \/ \E j \in Jobs : RetryLoad(r, j) \/ CancelLoad(r, j)
    \/ RetryCommit(r)
    \/ CancelCommit(r)
    \/ RequestLost(r)

Next ==
    \/ \E r \in Requests : RequestStep(r)
    \/ \E w \in Workers : WorkerStep(w) \/ Crash(w)
    \/ Tick

Spec == Init /\ [][Next]_vars

(* Dead worker processes are started again, handlers return or raise, and  *)
(* time passes.  A process that keeps dying may die idle, so the claim     *)
(* needs strong fairness: one that keeps coming back to eligible work gets *)
(* through a claim in the end.  Users and crashes owe nothing.             *)
Fairness ==
    /\ WF_vars(Tick)
    /\ \A w \in Workers :
         /\ WF_vars(Refresh(w) \/ Complete(w) \/ Fail(w) \/ Restart(w))
         /\ SF_vars(Claim(w))

FairSpec == Spec /\ Fairness

-----------------------------------------------------------------------------

(* Every variable keeps its type; a busy worker and a request that has     *)
(* loaded a row hold a job of the table.                                   *)
TypeOK ==
    /\ job \in [Jobs -> Job]
    /\ worker \in [Workers -> Session]
    /\ request \in [Requests -> Handler]
    /\ overtaken \subseteq Workers
    /\ replied \subseteq Keys \X Jobs
    /\ \A w \in Workers : Busy(w) <=> worker[w].job # NoJob
    /\ \A r \in Requests :
         request[r].op \in {"retry", "cancel"} <=> request[r].job # NoJob

(* A handler is started at most max_attempts times per manual retry: the   *)
(* counter never passes the budget, every new execution is counted, and no *)
(* session flushing a stale copy over the row ever forgets an attempt; only *)
(* retry_job does.                                                         *)
RetriesNow(j) ==
    \E r \in Requests : /\ request[r].op = "retry" /\ request[r].job = j
                        /\ request'[r].op = "none"

StartsNow(j) ==
    \E w \in Workers : ~Busy(w) /\ worker'[w].pc = "claimed" /\ worker'[w].job = j

StartsWithinBudget ==
    [][\A j \in Jobs :
         /\ job'[j].attempts <= job'[j].max_attempts
         /\ job'[j].attempts < job[j].attempts => RetriesNow(j)
         /\ StartsNow(j) => job'[j].attempts = job[j].attempts + 1]_vars

(* A worker that has not been overtaken is executing the row as it is: its *)
(* claim is still in the columns, its lease has not run out, and the copy  *)
(* it will write back is current.                                          *)
Holds(w, j) == w \notin overtaken /\ Busy(w) /\ worker[w].job = j

HolderOwnsRow ==
    \A w \in Workers, j \in Jobs :
        Holds(w, j) => /\ job[j].status = "running"
                       /\ job[j].locked_by = w
                       /\ job[j].lock_age <= Lease
                       /\ worker[w].pc = "executing" => worker[w].copy = Load(job[j])

(* Two workers execute the same job only if one of them outlived its lease *)
(* or had the row rewritten under it: reclaiming a job never evicts an     *)
(* execution that still holds its lease.                                   *)
SoleExecutor ==
    \A v, w \in Workers, j \in Jobs : Holds(v, j) /\ Holds(w, j) => v = w

(* The queue implements the abstract promise: a job is held by the         *)
(* execution that has not been overtaken, and what is left of its budget   *)
(* is max_attempts - attempts.                                             *)
HolderOf(j) ==
    IF \E w \in Workers : Holds(w, j) THEN CHOOSE w \in Workers : Holds(w, j)
                                      ELSE NoWorker

Left(j) == IF Exists(j) THEN job[j].max_attempts - job[j].attempts ELSE 0

Promise == INSTANCE LeasedWork WITH
              holder <- [j \in Jobs |-> HolderOf(j)],
              left <- [j \in Jobs |-> Left(j)]

ImplementsPromise == Promise!Spec

(* The unique constraint and the look-up of enqueue_job together: a key    *)
(* names one job, and every successful POST /jobs with that key, however   *)
(* the requests interleave, is answered with that same job.                *)
OneJobPerKey ==
    /\ \A i, j \in Jobs :
         (Exists(i) /\ Exists(j) /\ job[i].key = job[j].key /\ job[i].key # NoKey)
            => i = j
    /\ \A p, q \in replied : p[1] = q[1] => p[2] = q[2]

(* A worker that kept its lease to the end leaves the row telling what     *)
(* happened: unlocked, and either succeeded without an error, or failed    *)
(* with its attempts used up, or queued again, later, with attempts left.  *)
Settled(r) ==
    /\ r.locked_by = NoWorker
    /\ \/ r.status = "succeeded" /\ ~r.error
       \/ r.status = "failed" /\ r.error /\ r.attempts = r.max_attempts
       \/ /\ r.status = "queued" /\ r.error
          /\ r.attempts < r.max_attempts
          /\ r.run_after > 0

OutcomeRecorded ==
    [][\A w \in Workers \ overtaken :
         (worker[w].pc = "executing" /\ worker'[w].pc = "idle")
            => Settled(job'[worker[w].job])]_vars

(* Work waiting for a worker: queued, or left running by a worker that     *)
(* died, with attempts to spare.                                           *)
Pending(j) ==
    /\ job[j].attempts < job[j].max_attempts
    /\ \/ job[j].status = "queued"
       \/ job[j].status = "running" /\ Executors(j) = {}

(* Pending work is picked up in the end: it is not starved even by another *)
(* job that users cancel and retry for ever, because a retry goes to the   *)
(* back of the ORDER BY, and a lease left by a dead worker runs out.       *)
PendingIsPickedUp == \A j \in Jobs : Pending(j) ~> ~Pending(j)

(* What durable jobs with leases promise: no job is left in a state that   *)
(* only an operator working on the table can end.                          *)
EveryJobSettles ==
    \A j \in Jobs : (job[j].status = "running")
                       ~> (job[j].status \in {"succeeded", "failed", "cancelled"})

=============================================================================
