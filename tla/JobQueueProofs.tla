--------------------------- MODULE JobQueueProofs ---------------------------
(***************************************************************************)
(* Theorems about the job queue, for any number of jobs, workers and       *)
(* requests, any lease, any back-off ceiling and any attempt budgets.      *)
(***************************************************************************)
EXTENDS JobQueue, FiniteSetTheorems, TLAPS

(* The retry delay is always a delay: at least one tick, at most the cap.  *)
LEMMA BackoffRange ==
    ASSUME NEW a \in Nat
    PROVE  Backoff(a) \in 1 .. BackoffCap
  BY JobQueueAssumption DEF Backoff

LEMMA DueRankType ==
    ASSUME NEW j \in Jobs
    PROVE  DueRank(j) \in Int
<1> DEFINE S == {k \in Jobs : /\ Exists(k)
                             /\ job[k].run_after <= 0
                             /\ job[j].run_after <= job[k].run_after}
<1>1. IsFiniteSet(S)
  BY JobQueueAssumption, FS_Subset, S \subseteq Jobs
<1>2. Cardinality(S) \in Nat
  BY <1>1, FS_CardinalityType
<1> HIDE DEF S
<1>3. -Cardinality(S) \in Int
  BY <1>2
<1>4. QED
  BY <1>3 DEF S, DueRank

LEMMA LoadType ==
    ASSUME NEW row \in Job
    PROVE  Load(row) \in Copy
  BY DEF Load, Job, Copy

LEMMA NewJobType ==
    ASSUME NEW k \in Keys \cup {NoKey}, NEW m \in Nat \ {0}
    PROVE  NewJob(k, m) \in Job
  BY DEF NewJob, Job, JobStatus

LEMMA AbsentType == Absent \in Job /\ Load(Absent) \in Copy
<1>1. Absent \in Job
  BY NewJobType DEF Absent, Job
<1>2. QED
  BY <1>1, LoadType

LEMMA FlushType ==
    ASSUME NEW row \in Job, NEW loaded \in Copy, NEW attr \in Copy
    PROVE  Flush(row, loaded, attr) \in Job
  BY DEF Flush, Job, Copy

LEMMA IdleTypes ==
    /\ NoSession \in Session
    /\ NoSession.pc = "idle" /\ NoSession.job = NoJob
    /\ NoRequest \in Handler
    /\ NoRequest.op = "none" /\ NoRequest.job = NoJob
  BY AbsentType DEF NoSession, NoRequest, Session, Handler

-----------------------------------------------------------------------------

(* What a finishing worker, a retry and a cancel assign to their copies    *)
(* stays a copy.                                                           *)
LEMMA AttrType ==
    ASSUME NEW loaded \in Copy, NEW s \in JobStatus, NEW e \in BOOLEAN
    PROVE  /\ [loaded EXCEPT !.status = s, !.error = e, !.locked = FALSE] \in Copy
           /\ [loaded EXCEPT !.status = s, !.locked = FALSE] \in Copy
           /\ [loaded EXCEPT !.status = s, !.attempts = 0, !.error = e] \in Copy
  BY DEF Copy

LEMMA TypeInit == Init => TypeOK
<1> SUFFICES ASSUME Init PROVE TypeOK
  OBVIOUS
<1> USE AbsentType, IdleTypes
<1>1. job \in [Jobs -> Job]
  BY DEF Init
<1>2. worker \in [Workers -> Session]
  BY DEF Init
<1>3. request \in [Requests -> Handler]
  BY DEF Init
<1>4. \A w \in Workers : Busy(w) <=> worker[w].job # NoJob
  BY DEF Init, Busy
<1>5. \A r \in Requests :
        request[r].op \in {"retry", "cancel"} <=> request[r].job # NoJob
  BY DEF Init
<1>6. QED
  BY <1>1, <1>2, <1>3, <1>4, <1>5 DEF Init, TypeOK

(* Each action keeps the types: one lemma per action that writes the table *)
(* or a session.                                                           *)
LEMMA TypeLookup ==
    ASSUME TypeOK, NEW r \in Requests, NEW k \in Keys \cup {NoKey},
           NEW m \in Budgets, EnqueueLookup(r, k, m)
    PROVE  TypeOK'
<1> USE JobQueueAssumption DEF EnqueueLookup, TypeOK, Busy
<1>1. CASE KeyTaken(k)
  BY <1>1 DEF KeyTaken
<1>2. CASE ~KeyTaken(k)
  <2>1. [NoRequest EXCEPT !.op = "enqueue", !.key = k, !.max_attempts = m]
          \in Handler
    BY IdleTypes DEF Handler
  <2>2. [NoRequest EXCEPT !.op = "enqueue", !.key = k, !.max_attempts = m].job
          = NoJob
    BY IdleTypes
  <2>3. [NoRequest EXCEPT !.op = "enqueue", !.key = k, !.max_attempts = m].op
          = "enqueue"
    BY IdleTypes
  <2> DEFINE new == [NoRequest EXCEPT !.op = "enqueue", !.key = k, !.max_attempts = m]
  <2>4. request' = [request EXCEPT ![r] = new]
    BY <1>2
  <2> HIDE DEF new
  <2>5. QED
    BY <2>1, <2>2, <2>3, <2>4, <1>2 DEF new
<1>3. QED
  BY <1>1, <1>2


LEMMA TypeInsert ==
    ASSUME TypeOK, NEW r \in Requests, EnqueueInsert(r)
    PROVE  TypeOK'
<1> USE IdleTypes DEF EnqueueInsert, TypeOK, Busy
<1>1. CASE KeyTaken(request[r].key)
  BY <1>1
<1>2. CASE ~KeyTaken(request[r].key)
  <2> request[r].key \in Keys \cup {NoKey} /\ request[r].max_attempts \in Nat \ {0}
    BY DEF Handler
  <2>1. PICK j \in Jobs :
           /\ job' = [job EXCEPT ![j] = NewJob(request[r].key, request[r].max_attempts)]
           /\ replied' = IF request[r].key = NoKey THEN replied
                         ELSE replied \cup {<<request[r].key, j>>}
    BY <1>2
  <2>2. NewJob(request[r].key, request[r].max_attempts) \in Job
    BY NewJobType
  <2>3. job' \in [Jobs -> Job]
    BY <2>1, <2>2
  <2>4. replied' \subseteq Keys \X Jobs
    BY <2>1
  <2>5. QED
    BY <2>3, <2>4
<1>3. QED
  BY <1>1, <1>2

LEMMA TypeLoadRow ==
    ASSUME TypeOK, NEW r \in Requests, NEW j \in Jobs,
           RetryLoad(r, j) \/ CancelLoad(r, j)
    PROVE  TypeOK'
<1> USE DEF TypeOK, Busy
<1>1. PICK op \in {"retry", "cancel"} :
         /\ request' = [request EXCEPT ![r] =
                          [NoRequest EXCEPT !.op = op, !.job = j, !.copy = Load(job[j])]]
         /\ UNCHANGED <<job, worker, overtaken, replied>>
  BY DEF RetryLoad, CancelLoad
<1> DEFINE new == [NoRequest EXCEPT !.op = op, !.job = j, !.copy = Load(job[j])]
<1>2. new \in Handler
  BY IdleTypes, LoadType DEF Handler
<1>3. new.op = op /\ new.job = j
  BY IdleTypes
<1>4. request' = [request EXCEPT ![r] = new]
  BY <1>1
<1> HIDE DEF new
<1>5. QED
  BY <1>1, <1>2, <1>3, <1>4, JobQueueAssumption

LEMMA TypeCommit ==
    ASSUME TypeOK, NEW r \in Requests, RetryCommit(r) \/ CancelCommit(r)
    PROVE  TypeOK'
<1> USE IdleTypes DEF TypeOK, Busy
<1>1. request[r].job \in Jobs /\ request[r].copy \in Copy
  BY DEF RetryCommit, CancelCommit, Handler
<1>2. CASE RetryCommit(r)
  <2> DEFINE new == Flush(job[request[r].job], request[r].copy,
                          [request[r].copy EXCEPT !.status = "queued",
                              !.attempts = 0, !.error = FALSE])
  <2>1. new \in Job
    BY <1>1, AttrType, FlushType DEF JobStatus
  <2>2. job' = [job EXCEPT ![request[r].job] = [new EXCEPT !.run_after = 0]]
    BY <1>1, <1>2 DEF RetryCommit
  <2> HIDE DEF new
  <2>3. [new EXCEPT !.run_after = 0] \in Job
    BY <2>1 DEF Job
  <2>4. job' \in [Jobs -> Job]
    BY <1>1, <2>2, <2>3
  <2>5. QED
    BY <1>2, <2>4 DEF RetryCommit, Executors
<1>3. CASE CancelCommit(r)
  <2>1. Flush(job[request[r].job], request[r].copy,
              [request[r].copy EXCEPT !.status = "cancelled", !.locked = FALSE]) \in Job
    BY <1>1, AttrType, FlushType DEF JobStatus
  <2>2. job' \in [Jobs -> Job]
    BY <1>1, <1>3, <2>1 DEF CancelCommit
  <2>3. QED
    BY <1>3, <2>2 DEF CancelCommit, Executors
<1>4. QED
  BY <1>2, <1>3

LEMMA TypeClaim ==
    ASSUME TypeOK, NEW w \in Workers, Claim(w)
    PROVE  TypeOK'
<1> USE DEF TypeOK
<1>1. PICK j \in Jobs :
         /\ job' = [job EXCEPT ![j] =
                      [job[j] EXCEPT !.status = "running", !.attempts = @ + 1,
                                     !.locked_by = w, !.lock_age = 0]]
         /\ worker' = [worker EXCEPT ![w] = [@ EXCEPT !.pc = "claimed", !.job = j]]
  BY DEF Claim
<1>2. [job[j] EXCEPT !.status = "running", !.attempts = @ + 1,
                     !.locked_by = w, !.lock_age = 0] \in Job
  <2>1. job[j] \in Job
    OBVIOUS
  <2>2. job[j].attempts + 1 \in Nat
    BY <2>1 DEF Job
  <2>3. QED
    BY <2>1, <2>2 DEF Job, JobStatus
<1>3. [worker[w] EXCEPT !.pc = "claimed", !.job = j] \in Session
  BY DEF Session
<1>4. \A v \in Workers : Busy(v)' <=> worker'[v].job # NoJob
  BY <1>1, JobQueueAssumption DEF Busy, Session
<1>5. job' \in [Jobs -> Job]
  BY <1>1, <1>2
<1>6. worker' \in [Workers -> Session]
  BY <1>1, <1>3
<1>7. QED
  BY <1>4, <1>5, <1>6 DEF Claim

LEMMA TypeRefresh ==
    ASSUME TypeOK, NEW w \in Workers, Refresh(w)
    PROVE  TypeOK'
<1> USE DEF TypeOK, Refresh
<1>1. worker[w].job \in Jobs
  BY DEF Busy, Session
<1>2. [worker[w] EXCEPT !.pc = "executing", !.copy = Load(job[worker[w].job])]
         \in Session
  BY <1>1, LoadType DEF Session
<1>3. \A v \in Workers : Busy(v)' <=> worker'[v].job # NoJob
  BY DEF Busy, Session
<1>4. QED
  BY <1>2, <1>3

LEMMA TypeFinish ==
    ASSUME TypeOK, NEW w \in Workers, Complete(w) \/ Fail(w)
    PROVE  TypeOK'
<1> USE IdleTypes DEF TypeOK, Busy
<1>1. worker[w].job \in Jobs /\ worker[w].copy \in Copy
  BY DEF Complete, Fail, Session
<1>2. job' \in [Jobs -> Job]
  <2>1. CASE Complete(w)
    <3>1. Flush(job[worker[w].job], worker[w].copy,
                [worker[w].copy EXCEPT !.status = "succeeded", !.error = FALSE,
                                       !.locked = FALSE]) \in Job
      BY <1>1, AttrType, FlushType DEF JobStatus
    <3>2. QED
      BY <1>1, <2>1, <3>1 DEF Complete
  <2>2. CASE Fail(w)
    <3> DEFINE loaded == worker[w].copy
               exhausted == loaded.attempts >= loaded.max_attempts
               status == IF exhausted THEN "failed" ELSE "queued"
               new == Flush(job[worker[w].job], loaded,
                            [loaded EXCEPT !.status = status, !.error = TRUE,
                                           !.locked = FALSE])
    <3>1. new \in Job
      BY <1>1, AttrType, FlushType DEF JobStatus
    <3>2. job' = [job EXCEPT ![worker[w].job] = 
                     IF exhausted THEN new
                     ELSE [new EXCEPT !.run_after = Backoff(loaded.attempts)]]
      BY <1>1, <2>2 DEF Fail
    <3>3. Backoff(loaded.attempts) \in Int
      BY <1>1, BackoffRange DEF Copy
    <3> HIDE DEF new
    <3>4. [new EXCEPT !.run_after = Backoff(loaded.attempts)] \in Job
      BY <3>1, <3>3 DEF Job
    <3>5. QED
      BY <1>1, <3>1, <3>2, <3>4
  <2>3. QED
    BY <2>1, <2>2
<1>3. /\ worker' = [worker EXCEPT ![w] = NoSession]
      /\ UNCHANGED <<request, replied>>
      /\ overtaken' \subseteq Workers
  BY DEF Complete, Fail, Finished, OvertakeOthers, Executors
<1>4. QED
  BY <1>2, <1>3

LEMMA TypeCrash ==
    ASSUME TypeOK, NEW w \in Workers, Crash(w) \/ Restart(w)
    PROVE  TypeOK'
<1> USE IdleTypes DEF TypeOK, Busy
<1>1. CASE Crash(w)
  <2>1. [NoSession EXCEPT !.pc = "down"]
           \in Session
    BY DEF Session
  <2>2. [NoSession EXCEPT !.pc = "down"].job = NoJob
    OBVIOUS
  <2>3. [NoSession EXCEPT !.pc = "down"].pc = "down"
    OBVIOUS
  <2>4. QED
    BY <1>1, <2>1, <2>2, <2>3 DEF Crash
<1>2. CASE Restart(w)
  BY <1>2 DEF Restart
<1>3. QED
  BY <1>1, <1>2

LEMMA TypeTick == TypeOK /\ Tick => TypeOK'
<1> SUFFICES ASSUME TypeOK, Tick PROVE TypeOK'
  OBVIOUS
<1> USE DEF TypeOK, Tick
<1>1. ASSUME NEW j \in Jobs PROVE Aged(j) \in Job
  <2> DEFINE run_after == IF job[j].run_after > 0 THEN job[j].run_after - 1
                          ELSE DueRank(j)
             lock_age == IF job[j].locked_by # NoWorker /\ job[j].lock_age <= Lease
                           THEN job[j].lock_age + 1 ELSE job[j].lock_age
  <2>1. run_after \in Int /\ lock_age \in Nat
    BY DueRankType DEF Job
  <2>2. Aged(j) = [job[j] EXCEPT !.run_after = run_after, !.lock_age = lock_age]
    BY DEF Aged
  <2>3. job[j] \in Job
    OBVIOUS
  <2> HIDE DEF run_after, lock_age
  <2>4. [job[j] EXCEPT !.run_after = run_after, !.lock_age = lock_age] \in Job
    BY <2>1, <2>3 DEF Job
  <2>5. QED
    BY <2>2, <2>4
<1>2. job' \in [Jobs -> Job]
  BY <1>1
<1>3. QED
  BY <1>2 DEF Busy

LEMMA TypeNext == TypeOK /\ [Next]_vars => TypeOK'
<1> SUFFICES ASSUME TypeOK, [Next]_vars PROVE TypeOK'
  OBVIOUS
<1>1. ASSUME NEW r \in Requests, RequestStep(r) PROVE TypeOK'
  <2>1. CASE RequestLost(r)
    BY <2>1, IdleTypes DEF RequestLost, TypeOK, Busy
  <2>2. QED
    BY <1>1, <2>1, TypeLookup, TypeInsert, TypeLoadRow, TypeCommit DEF RequestStep
<1>2. ASSUME NEW w \in Workers, WorkerStep(w) \/ Crash(w) PROVE TypeOK'
  BY <1>2, TypeClaim, TypeRefresh, TypeFinish, TypeCrash DEF WorkerStep
<1>3. CASE UNCHANGED vars
  BY <1>3 DEF vars, TypeOK, Busy
<1>4. QED
  BY <1>1, <1>2, <1>3, TypeTick DEF Next

(* Type correctness of the queue.                                          *)
THEOREM TypeCorrect == Spec => []TypeOK
<1>1. QED
  BY TypeInit, TypeNext, PTL DEF Spec

-----------------------------------------------------------------------------
(* What each kind of step does to the rows, the sessions and the history:  *)
(* the only facts about the actions the arguments below rest on.           *)

(* A flush whose session leaves attempts alone leaves the column alone.    *)
LEMMA FlushKeeps ==
    ASSUME NEW row \in Job, NEW loaded \in Copy, NEW attr \in Copy
    PROVE  /\ Flush(row, loaded, attr).max_attempts = row.max_attempts
           /\ Flush(row, loaded, attr).attempts \in {row.attempts, attr.attempts}
           /\ attr.attempts = loaded.attempts =>
                 Flush(row, loaded, attr).attempts = row.attempts
           /\ row.status # "absent" /\ attr.status # "absent" =>
                 Flush(row, loaded, attr).status # "absent"
  BY DEF Flush

LEMMA CommitEffect ==
    ASSUME TypeOK, NEW r \in Requests, RetryCommit(r) \/ CancelCommit(r)
    PROVE  LET j == request[r].job IN
           /\ j \in Jobs
           /\ \A k \in Jobs \ {j} : job'[k] = job[k]
           /\ job'[j].max_attempts = job[j].max_attempts
           /\ \/ job'[j].attempts = job[j].attempts
              \/ job'[j].attempts = 0 /\ request[r].op = "retry"
           /\ job[j].status # "absent" => job'[j].status # "absent"
           /\ overtaken' = overtaken \cup Executors(j)
           /\ request' = [request EXCEPT ![r] = NoRequest]
           /\ UNCHANGED <<worker, replied>>
<1> DEFINE j == request[r].job
           loaded == request[r].copy
<1>1. j \in Jobs /\ loaded \in Copy /\ job[j] \in Job
  BY DEF RetryCommit, CancelCommit, Handler, TypeOK
<1>2. CASE RetryCommit(r)
  <2> DEFINE attr == [loaded EXCEPT !.status = "queued", !.attempts = 0,
                                    !.error = FALSE]
             row == Flush(job[j], loaded, attr)
  <2>1. attr \in Copy
    BY <1>1, AttrType DEF JobStatus
  <2>0. attr.attempts = 0 /\ attr.status = "queued"
    BY <1>1 DEF Copy
  <2>2. row \in Job
    BY <1>1, <2>1, FlushType
  <2>3. job' = [job EXCEPT ![j] = [row EXCEPT !.run_after = 0]]
    BY <1>1, <1>2 DEF RetryCommit, TypeOK
  <2>4. /\ row.max_attempts = job[j].max_attempts
        /\ row.attempts \in {job[j].attempts, 0}
        /\ job[j].status # "absent" => row.status # "absent"
    <3> HIDE DEF attr
    <3>1. QED
      BY <1>1, <2>1, <2>0, FlushKeeps
  <2> HIDE DEF row
  <2>5. /\ [row EXCEPT !.run_after = 0].max_attempts = row.max_attempts
        /\ [row EXCEPT !.run_after = 0].attempts = row.attempts
        /\ [row EXCEPT !.run_after = 0].status = row.status
    BY <2>2 DEF Job
  <2>6. QED
    BY <1>1, <1>2, <2>3, <2>4, <2>5 DEF RetryCommit, TypeOK
<1>3. CASE CancelCommit(r)
  <2> DEFINE attr == [loaded EXCEPT !.status = "cancelled", !.locked = FALSE]
             row == Flush(job[j], loaded, attr)
  <2>1. attr \in Copy
    BY <1>1, AttrType DEF JobStatus
  <2>0. attr.attempts = loaded.attempts /\ attr.status = "cancelled"
    BY <1>1 DEF Copy
  <2>2. job' = [job EXCEPT ![j] = row]
    BY <1>1, <1>3 DEF CancelCommit, TypeOK
  <2>3. /\ row.max_attempts = job[j].max_attempts
        /\ row.attempts = job[j].attempts
        /\ job[j].status # "absent" => row.status # "absent"
    <3> HIDE DEF attr
    <3>1. QED
      BY <1>1, <2>1, <2>0, FlushKeeps
  <2> HIDE DEF row
  <2>4. job'[j] = row /\ \A k \in Jobs \ {j} : job'[k] = job[k]
    BY <1>1, <2>2 DEF TypeOK
  <2>5. /\ overtaken' = overtaken \cup Executors(j)
        /\ request' = [request EXCEPT ![r] = NoRequest]
        /\ UNCHANGED <<worker, replied>>
    BY <1>3 DEF CancelCommit
  <2>6. QED
    BY <1>1, <2>3, <2>4, <2>5
<1>4. QED
  BY <1>2, <1>3

LEMMA FinishEffect ==
    ASSUME TypeOK, NEW w \in Workers, Complete(w) \/ Fail(w)
    PROVE  LET j == worker[w].job IN
           /\ j \in Jobs
           /\ \A k \in Jobs \ {j} : job'[k] = job[k]
           /\ job'[j].max_attempts = job[j].max_attempts
           /\ job'[j].attempts = job[j].attempts
           /\ job[j].status # "absent" => job'[j].status # "absent"
           /\ overtaken' = OvertakeOthers(j, w)
           /\ worker' = [worker EXCEPT ![w] = NoSession]
           /\ UNCHANGED <<request, replied>>
<1> DEFINE j == worker[w].job
           loaded == worker[w].copy
<1>1. j \in Jobs /\ loaded \in Copy /\ job[j] \in Job
  BY DEF Complete, Fail, Session, Busy, TypeOK
<1>2. CASE Complete(w)
  <2> DEFINE attr == [loaded EXCEPT !.status = "succeeded", !.error = FALSE,
                                    !.locked = FALSE]
             row == Flush(job[j], loaded, attr)
  <2>1. attr \in Copy
    BY <1>1, AttrType DEF JobStatus
  <2>0. attr.attempts = loaded.attempts /\ attr.status = "succeeded"
    BY <1>1 DEF Copy
  <2>2. job' = [job EXCEPT ![j] = row]
    BY <1>1, <1>2 DEF Complete
  <2>3. /\ row.max_attempts = job[j].max_attempts
        /\ row.attempts = job[j].attempts
        /\ job[j].status # "absent" => row.status # "absent"
    <3> HIDE DEF attr
    <3>1. QED
      BY <1>1, <2>1, <2>0, FlushKeeps
  <2> HIDE DEF row
  <2>4. QED
    BY <1>1, <1>2, <2>2, <2>3 DEF Complete, Finished, TypeOK
<1>3. CASE Fail(w)
  <2> DEFINE exhausted == loaded.attempts >= loaded.max_attempts
             status == IF exhausted THEN "failed" ELSE "queued"
             attr == [loaded EXCEPT !.status = status, !.error = TRUE,
                                    !.locked = FALSE]
             row == Flush(job[j], loaded, attr)
             later == [row EXCEPT !.run_after = Backoff(loaded.attempts)]
  <2>1. attr \in Copy
    BY <1>1, AttrType DEF JobStatus
  <2>0. attr.attempts = loaded.attempts /\ attr.status # "absent"
    BY <1>1 DEF Copy
  <2>2. row \in Job
    BY <1>1, <2>1, FlushType
  <2>3. job' = [job EXCEPT ![j] = IF exhausted THEN row ELSE later]
    BY <1>1, <1>3 DEF Fail
  <2>4. /\ row.max_attempts = job[j].max_attempts
        /\ row.attempts = job[j].attempts
        /\ job[j].status # "absent" => row.status # "absent"
    <3> HIDE DEF attr
    <3>1. QED
      BY <1>1, <2>1, <2>0, FlushKeeps
  <2> HIDE DEF row
  <2>5. /\ later.max_attempts = row.max_attempts
        /\ later.attempts = row.attempts
        /\ later.status = row.status
    BY <2>2 DEF Job
  <2> HIDE DEF later, exhausted
  <2>6. QED
    BY <1>1, <1>3, <2>3, <2>4, <2>5 DEF Fail, Finished, TypeOK
<1>4. QED
  BY <1>2, <1>3

LEMMA ClaimEffect ==
    ASSUME TypeOK, NEW w \in Workers, Claim(w)
    PROVE  \E j \in Jobs :
           /\ Candidate(j)
           /\ \A k \in Jobs \ {j} : job'[k] = job[k]
           /\ job'[j].status = "running"
           /\ job'[j].max_attempts = job[j].max_attempts
           /\ job'[j].attempts = job[j].attempts + 1
           /\ job'[j].locked_by = w
           /\ job'[j].lock_age = 0
           /\ worker[w].pc = "idle"
           /\ worker'[w].pc = "claimed" /\ worker'[w].job = j
           /\ \A v \in Workers \ {w} : worker'[v] = worker[v]
           /\ overtaken' = overtaken \ {w}
           /\ UNCHANGED <<request, replied>>
<1> USE DEF TypeOK
<1>1. PICK j \in Jobs :
         /\ First(j)
         /\ job' = [job EXCEPT ![j] =
                      [job[j] EXCEPT !.status = "running", !.attempts = @ + 1,
                                     !.locked_by = w, !.lock_age = 0]]
         /\ worker' = [worker EXCEPT ![w] = [@ EXCEPT !.pc = "claimed", !.job = j]]
  BY DEF Claim
<1> DEFINE row == [job[j] EXCEPT !.status = "running", !.attempts = @ + 1,
                                 !.locked_by = w, !.lock_age = 0]
           session == [worker[w] EXCEPT !.pc = "claimed", !.job = j]
<1>2. /\ row.status = "running" /\ row.max_attempts = job[j].max_attempts
      /\ row.attempts = job[j].attempts + 1
      /\ row.locked_by = w /\ row.lock_age = 0
  BY DEF Job
<1>3. session.pc = "claimed" /\ session.job = j
  BY DEF Session
<1>4. job' = [job EXCEPT ![j] = row] /\ worker' = [worker EXCEPT ![w] = session]
  BY <1>1
<1> HIDE DEF row, session
<1>5. QED
  BY <1>1, <1>2, <1>3, <1>4 DEF Claim, First

LEMMA TickEffect ==
    ASSUME TypeOK, Tick, NEW j \in Jobs
    PROVE  /\ job'[j].status = job[j].status
           /\ job'[j].attempts = job[j].attempts
           /\ job'[j].max_attempts = job[j].max_attempts
           /\ job'[j].locked_by = job[j].locked_by
           /\ Load(job'[j]) = Load(job[j])
<1> DEFINE run_after == IF job[j].run_after > 0 THEN job[j].run_after - 1
                        ELSE DueRank(j)
           lock_age == IF job[j].locked_by # NoWorker /\ job[j].lock_age <= Lease
                         THEN job[j].lock_age + 1 ELSE job[j].lock_age
           row == [job[j] EXCEPT !.run_after = run_after, !.lock_age = lock_age]
<1>1. job[j] \in Job
  BY DEF TypeOK
<1>2. job'[j] = row \/ job'[j] = job[j]
  BY DEF Tick, Aged
<1>3. /\ row.status = job[j].status /\ row.attempts = job[j].attempts
      /\ row.max_attempts = job[j].max_attempts
      /\ row.locked_by = job[j].locked_by /\ row.error = job[j].error
  BY <1>1 DEF Job
<1> HIDE DEF row
<1>4. QED
  BY <1>2, <1>3 DEF Load

-----------------------------------------------------------------------------
(* The inductive invariant.  HolderOwnsRow is inductive once the types are *)
(* known; the other parts say that budgets are the ones that were asked    *)
(* for and respected, and that no session holds a row that is not there.   *)

WithinBudget ==
    \A j \in Jobs : /\ job[j].attempts <= job[j].max_attempts
                    /\ Exists(j) => job[j].max_attempts \in Budgets
                    /\ ~Exists(j) => job[j].attempts = 0

SessionsHoldRows ==
    /\ \A w \in Workers : Busy(w) => Exists(worker[w].job)
    /\ \A r \in Requests :
         /\ request[r].op = "enqueue" => request[r].max_attempts \in Budgets
         /\ request[r].op \in {"retry", "cancel"} => Exists(request[r].job)

QueueInv == TypeOK /\ WithinBudget /\ SessionsHoldRows /\ HolderOwnsRow

LEMMA InvInit == Init => QueueInv
<1> SUFFICES ASSUME Init PROVE QueueInv
  OBVIOUS
<1>1. Absent.attempts = 0 /\ Absent.max_attempts = 1 /\ Absent.status = "absent"
  BY DEF Absent, NewJob
<1>2. WithinBudget
  BY <1>1 DEF Init, WithinBudget, Exists
<1>3. SessionsHoldRows
  BY IdleTypes DEF Init, SessionsHoldRows, Busy
<1>4. HolderOwnsRow
  BY IdleTypes DEF Init, HolderOwnsRow, Holds, Busy
<1>5. QED
  BY <1>2, <1>3, <1>4, TypeInit DEF QueueInv

LEMMA HeldInTable ==
    ASSUME TypeOK
    PROVE  /\ \A w \in Workers : Busy(w) => worker[w].job \in Jobs
           /\ \A r \in Requests :
                request[r].op \in {"retry", "cancel"} => request[r].job \in Jobs
  BY DEF TypeOK, Session, Handler

(* Rows stay in the table, so what sessions hold does not disappear.       *)
LEMMA HeldStays ==
    ASSUME TypeOK, SessionsHoldRows,
           \A j \in Jobs : Exists(j) => Exists(j)',
           \A w \in Workers : \/ ~Busy(w)'
                             \/ worker'[w] = worker[w]
                             \/ Exists(worker[w].job)',
           \A r \in Requests :
             \/ request'[r] = request[r]
             \/ request'[r].op = "none"
    PROVE  SessionsHoldRows'
<1>1. \A w \in Workers : Busy(w)' => Exists(worker[w].job)'
  BY HeldInTable DEF SessionsHoldRows, Exists, Busy
<1>2. ASSUME NEW r \in Requests
      PROVE  /\ request'[r].op = "enqueue" => request'[r].max_attempts \in Budgets
             /\ request'[r].op \in {"retry", "cancel"} => Exists(request[r].job)'
  <2>1. CASE request'[r] = request[r]
    BY <2>1, HeldInTable DEF SessionsHoldRows, Exists
  <2>2. CASE request'[r].op = "none"
    BY <2>2
  <2>3. QED
    BY <2>1, <2>2
<1>3. QED
  BY <1>1, <1>2 DEF SessionsHoldRows, Exists

(* One lemma per kind of step.  A retry or a cancel overtakes whoever      *)
(* executes the row it writes.                                             *)
LEMMA InvCommit ==
    ASSUME QueueInv, TypeOK', NEW r \in Requests, RetryCommit(r) \/ CancelCommit(r)
    PROVE  QueueInv'
<1> DEFINE j == request[r].job
<1> USE DEF QueueInv
<1>1. /\ j \in Jobs
      /\ \A k \in Jobs \ {j} : job'[k] = job[k]
      /\ job'[j].max_attempts = job[j].max_attempts
      /\ job'[j].attempts = job[j].attempts \/ job'[j].attempts = 0
      /\ job[j].status # "absent" => job'[j].status # "absent"
      /\ overtaken' = overtaken \cup Executors(j)
      /\ request' = [request EXCEPT ![r] = NoRequest]
      /\ UNCHANGED <<worker, replied>>
  BY CommitEffect
<1>2. Exists(j)
  BY DEF SessionsHoldRows, RetryCommit, CancelCommit
<1>3. WithinBudget'
  BY <1>1, <1>2 DEF WithinBudget, Exists, TypeOK, Job
<1>4. SessionsHoldRows'
  <2>1. \A k \in Jobs : Exists(k) => Exists(k)'
    BY <1>1 DEF Exists
  <2>2. QED
    BY <1>1, <2>1, HeldStays, IdleTypes DEF TypeOK, Busy
<1>5. HolderOwnsRow'
  <2>1. \A v \in Workers, k \in Jobs : Holds(v, k)' => Holds(v, k) /\ k # j
    BY <1>1 DEF Holds, Busy, Executors
  <2>2. QED
    BY <1>1, <2>1 DEF HolderOwnsRow
<1>6. QED
  BY <1>3, <1>4, <1>5

(* A finishing worker overtakes the other executors and holds nothing.     *)
LEMMA InvFinish ==
    ASSUME QueueInv, TypeOK', NEW w \in Workers, Complete(w) \/ Fail(w)
    PROVE  QueueInv'
<1> DEFINE j == worker[w].job
<1> USE DEF QueueInv
<1>1. /\ j \in Jobs
      /\ \A k \in Jobs \ {j} : job'[k] = job[k]
      /\ job'[j].max_attempts = job[j].max_attempts
      /\ job'[j].attempts = job[j].attempts
      /\ job[j].status # "absent" => job'[j].status # "absent"
      /\ overtaken' = OvertakeOthers(j, w)
      /\ worker' = [worker EXCEPT ![w] = NoSession]
      /\ UNCHANGED <<request, replied>>
  BY FinishEffect
<1>2. Exists(j)
  BY DEF SessionsHoldRows, Complete, Fail, Busy
<1>3. WithinBudget'
  BY <1>1, <1>2 DEF WithinBudget, Exists
<1>4. SessionsHoldRows'
  <2>1. \A k \in Jobs : Exists(k) => Exists(k)'
    BY <1>1 DEF Exists
  <2>2. QED
    BY <1>1, <2>1, HeldStays, IdleTypes DEF TypeOK, Busy
<1>5. HolderOwnsRow'
  <2>1. ~Busy(w)'
    BY <1>1, IdleTypes DEF Busy, TypeOK
  <2>2. \A v \in Workers \ {w} : worker'[v] = worker[v]
    BY <1>1 DEF TypeOK
  <2>3. \A v \in Workers, k \in Jobs :
          Holds(v, k)' => v # w /\ Holds(v, k) /\ k # j
    BY <1>1, <2>1, <2>2 DEF Holds, Busy, Executors, OvertakeOthers
  <2>4. QED
    BY <1>1, <2>2, <2>3 DEF HolderOwnsRow
<1>6. QED
  BY <1>3, <1>4, <1>5

(* A claim picks a row nobody holds: a held row is running, within its     *)
(* lease, so it is not a candidate.                                        *)
LEMMA InvClaim ==
    ASSUME QueueInv, TypeOK', NEW w \in Workers, Claim(w)
    PROVE  QueueInv'
<1> USE DEF QueueInv
<1>1. PICK j \in Jobs :
           /\ Candidate(j)
           /\ \A k \in Jobs \ {j} : job'[k] = job[k]
           /\ job'[j].status = "running"
           /\ job'[j].max_attempts = job[j].max_attempts
           /\ job'[j].attempts = job[j].attempts + 1
           /\ job'[j].locked_by = w
           /\ job'[j].lock_age = 0
           /\ worker[w].pc = "idle"
           /\ worker'[w].pc = "claimed" /\ worker'[w].job = j
           /\ \A v \in Workers \ {w} : worker'[v] = worker[v]
           /\ overtaken' = overtaken \ {w}
           /\ UNCHANGED <<request, replied>>
  BY ClaimEffect
<1>2. Exists(j)
  BY <1>1 DEF Candidate, Due, LeaseExpired, Exists
<1>3. \A v \in Workers : ~Holds(v, j)
  BY <1>1, JobQueueAssumption
     DEF HolderOwnsRow, Candidate, Due, LeaseExpired, TypeOK, Job
<1>4. WithinBudget'
  BY <1>1, <1>2 DEF WithinBudget, Exists, Candidate, TypeOK, Job
<1>5. SessionsHoldRows'
  <2>1. \A k \in Jobs : Exists(k) => Exists(k)'
    BY <1>1 DEF Exists
  <2>2. Exists(j)'
    BY <1>1 DEF Exists
  <2>3. QED
    BY <1>1, <2>1, <2>2, HeldStays
<1>6. HolderOwnsRow'
  <2> SUFFICES ASSUME NEW v \in Workers, NEW k \in Jobs, Holds(v, k)'
               PROVE  (/\ job[k].status = "running"
                       /\ job[k].locked_by = v
                       /\ job[k].lock_age <= Lease
                       /\ worker[v].pc = "executing" =>
                            worker[v].copy = Load(job[k]))'
    BY DEF HolderOwnsRow
  <2>1. CASE v = w
    BY <1>1, <2>1, JobQueueAssumption DEF Holds
  <2>2. CASE v # w
    <3>1. Holds(v, k)
      BY <1>1, <2>2 DEF Holds, Busy
    <3>2. k # j
      BY <1>3, <3>1
    <3>3. QED
      BY <1>1, <2>2, <3>1, <3>2 DEF HolderOwnsRow
  <2>3. QED
    BY <2>1, <2>2
<1>7. QED
  BY <1>4, <1>5, <1>6

LEMMA InvTick == QueueInv /\ TypeOK' /\ Tick => QueueInv'
<1> SUFFICES ASSUME QueueInv, TypeOK', Tick PROVE QueueInv'
  OBVIOUS
<1> USE DEF QueueInv
<1>1. \A j \in Jobs : /\ job'[j].status = job[j].status
                      /\ job'[j].attempts = job[j].attempts
                      /\ job'[j].max_attempts = job[j].max_attempts
                      /\ job'[j].locked_by = job[j].locked_by
                      /\ Load(job'[j]) = Load(job[j])
  BY TickEffect
<1>2. UNCHANGED <<worker, request>>
  BY DEF Tick
<1>3. \A w \in Workers, j \in Jobs :
        Holds(w, j)' => Holds(w, j) /\ job'[j].lock_age <= Lease
  <2> SUFFICES ASSUME NEW w \in Workers, NEW j \in Jobs, Holds(w, j)'
               PROVE  Holds(w, j) /\ job'[j].lock_age <= Lease
    OBVIOUS
  <2>1. w \notin overtaken' /\ Busy(w) /\ worker[w].job = j
    BY <1>2 DEF Holds, Busy
  <2>2. ~(job'[j].lock_age > Lease) /\ w \notin overtaken
    BY <2>1 DEF Tick
  <2>3. job'[j].lock_age \in Nat
    BY DEF TypeOK, Job
  <2>4. QED
    BY <2>1, <2>2, <2>3, JobQueueAssumption DEF Holds
<1>4. WithinBudget'
  BY <1>1 DEF WithinBudget, Exists
<1>5. SessionsHoldRows'
  <2>1. \A k \in Jobs : Exists(k) => Exists(k)'
    BY <1>1 DEF Exists
  <2>2. QED
    BY <1>2, <2>1, HeldStays
<1>6. HolderOwnsRow'
  BY <1>1, <1>2, <1>3 DEF HolderOwnsRow
<1>7. QED
  BY <1>4, <1>5, <1>6

(* enqueue_job fills a row that was not there, so nobody holds it.         *)
LEMMA InvInsert ==
    ASSUME QueueInv, TypeOK', NEW r \in Requests, EnqueueInsert(r)
    PROVE  QueueInv'
<1> USE DEF QueueInv
<1>1. UNCHANGED <<worker, overtaken>> /\ request' = [request EXCEPT ![r] = NoRequest]
  BY DEF EnqueueInsert
<1>2. CASE job' = job
  <2>1. WithinBudget' /\ HolderOwnsRow'
    BY <1>1, <1>2 DEF WithinBudget, HolderOwnsRow, Holds, Busy, Exists, Load
  <2>2. SessionsHoldRows'
    <3>1. \A k \in Jobs : Exists(k) => Exists(k)'
      BY <1>2 DEF Exists
    <3>2. QED
      BY <1>1, <3>1, HeldStays, IdleTypes DEF TypeOK
  <2>3. QED
    BY <2>1, <2>2
<1>3. CASE job' # job
  <2>1. PICK j \in Jobs :
           /\ ~Exists(j)
           /\ job' = [job EXCEPT ![j] = NewJob(request[r].key, request[r].max_attempts)]
    BY <1>3 DEF EnqueueInsert
  <2>2. /\ job'[j].status = "queued"
        /\ job'[j].attempts = 0
        /\ job'[j].max_attempts = request[r].max_attempts
        /\ \A k \in Jobs \ {j} : job'[k] = job[k]
    BY <2>1 DEF NewJob, TypeOK
  <2>3. request[r].max_attempts \in Budgets
    BY DEF EnqueueInsert, SessionsHoldRows
  <2>4. WithinBudget'
    <3>1. job'[j].attempts <= job'[j].max_attempts
      <4>1. request[r].max_attempts \in Nat
        BY <2>3, JobQueueAssumption
      <4>2. QED
        BY <2>2, <4>1
    <3>2. QED
      BY <2>2, <2>3, <3>1 DEF WithinBudget, Exists
  <2>5. SessionsHoldRows'
    <3>1. \A k \in Jobs : Exists(k) => Exists(k)'
      BY <2>2 DEF Exists
    <3>2. QED
      BY <1>1, <3>1, HeldStays, IdleTypes DEF TypeOK
  <2>6. \A w \in Workers : ~Holds(w, j)
    BY <2>1 DEF HolderOwnsRow, Exists
  <2>7. HolderOwnsRow'
    BY <1>1, <2>2, <2>6 DEF HolderOwnsRow, Holds, Busy, Load
  <2>8. QED
    BY <2>4, <2>5, <2>7
<1>4. QED
  BY <1>2, <1>3

(* The steps that leave the table alone.                                   *)
LEMMA InvRequestReads ==
    ASSUME QueueInv, TypeOK', NEW r \in Requests,
           \/ \E k \in Keys \cup {NoKey}, m \in Budgets : EnqueueLookup(r, k, m)
           \/ \E j \in Jobs : RetryLoad(r, j) \/ CancelLoad(r, j)
           \/ RequestLost(r)
    PROVE  QueueInv'
<1> USE DEF QueueInv
<1>1. UNCHANGED <<job, worker, overtaken>>
  BY DEF EnqueueLookup, RetryLoad, CancelLoad, RequestLost
<1>2. WithinBudget' /\ HolderOwnsRow'
  BY <1>1 DEF WithinBudget, HolderOwnsRow, Holds, Busy, Exists, Load
<1>3. \A w \in Workers : Busy(w)' => Exists(worker[w].job)'
  BY <1>1 DEF SessionsHoldRows, Busy, Exists
<1>4. ASSUME NEW q \in Requests
      PROVE  /\ request'[q].op = "enqueue" => request'[q].max_attempts \in Budgets
             /\ request'[q].op \in {"retry", "cancel"} => Exists(request[q].job)'
  <2>1. CASE request'[q] = request[q]
    BY <1>1, <2>1 DEF SessionsHoldRows, Exists
  <2>2. CASE request'[q] # request[q]
    <3>1. CASE RequestLost(r)
      BY <2>2, <3>1, IdleTypes DEF RequestLost, TypeOK
    <3>2. ASSUME NEW k \in Keys \cup {NoKey}, NEW m \in Budgets,
                 EnqueueLookup(r, k, m)
          PROVE  request'[q].op = "enqueue" /\ request'[q].max_attempts = m
      <4> DEFINE new == [NoRequest EXCEPT !.op = "enqueue", !.key = k,
                                          !.max_attempts = m]
      <4>1. new.op = "enqueue" /\ new.max_attempts = m
        BY IdleTypes DEF Handler
      <4>2. request' = [request EXCEPT ![r] = new]
        BY <2>2, <3>2 DEF EnqueueLookup
      <4> HIDE DEF new
      <4>3. QED
        BY <2>2, <4>1, <4>2 DEF TypeOK
    <3>3. ASSUME NEW j \in Jobs, RetryLoad(r, j) \/ CancelLoad(r, j)
          PROVE  /\ request'[q].op \in {"retry", "cancel"}
                 /\ request'[q].job = j
                 /\ Exists(j)
      <4>1. PICK op \in {"retry", "cancel"} :
              request' = [request EXCEPT ![r] =
                 [NoRequest EXCEPT !.op = op, !.job = j, !.copy = Load(job[j])]]
        BY <3>3 DEF RetryLoad, CancelLoad
      <4> DEFINE new == [NoRequest EXCEPT !.op = op, !.job = j,
                                          !.copy = Load(job[j])]
      <4>2. new.op = op /\ new.job = j
        BY IdleTypes DEF Handler
      <4>3. request' = [request EXCEPT ![r] = new]
        BY <4>1
      <4> HIDE DEF new
      <4>4. QED
        BY <2>2, <3>3, <4>2, <4>3
           DEF RetryLoad, CancelLoad, Retryable, Cancellable, Exists, TypeOK
    <3>4. QED
      BY <1>1, <3>1, <3>2, <3>3 DEF Exists
  <2>3. QED
    BY <2>1, <2>2
<1>5. SessionsHoldRows'
  BY <1>3, <1>4 DEF SessionsHoldRows, Exists
<1>6. QED
  BY <1>2, <1>5

LEMMA InvSession ==
    ASSUME QueueInv, TypeOK', NEW w \in Workers, Refresh(w) \/ Crash(w) \/ Restart(w)
    PROVE  QueueInv'
<1> USE DEF QueueInv
<1>1. UNCHANGED <<job, request>>
  BY DEF Refresh, Crash, Restart
<1>2. WithinBudget'
  BY <1>1 DEF WithinBudget, Exists
<1>3. CASE Refresh(w)
  <2> DEFINE new == [worker[w] EXCEPT !.pc = "executing",
                                      !.copy = Load(job[worker[w].job])]
  <2>1. new.job = worker[w].job /\ new.copy = Load(job[new.job]) /\ new.pc = "executing"
    BY DEF TypeOK, Session
  <2>2. worker' = [worker EXCEPT ![w] = new] /\ overtaken' = overtaken /\ Busy(w)
    BY <1>3 DEF Refresh, Busy
  <2> HIDE DEF new
  <2>3. /\ worker'[w] = new
        /\ \A v \in Workers \ {w} : worker'[v] = worker[v]
    BY <2>2 DEF TypeOK
  <2>4. HolderOwnsRow'
    BY <1>1, <2>1, <2>2, <2>3 DEF HolderOwnsRow, Holds, Busy
  <2>5. SessionsHoldRows'
    BY <1>1, <2>1, <2>2, <2>3 DEF SessionsHoldRows, Busy, Exists
  <2>6. QED
    BY <1>2, <2>4, <2>5
<1>4. CASE Crash(w) \/ Restart(w)
  <2>1. PICK pc \in {"down", "idle"} :
           worker' = [worker EXCEPT ![w] = [NoSession EXCEPT !.pc = pc]]
    BY <1>4, IdleTypes DEF Crash, Restart, NoSession
  <2>2. ~Busy(w)' /\ \A v \in Workers \ {w} : worker'[v] = worker[v]
    BY <2>1, IdleTypes DEF TypeOK, Busy, Session
  <2>3. overtaken \ {w} \subseteq overtaken'
    BY <1>4 DEF Crash, Restart
  <2>4. HolderOwnsRow'
    BY <1>1, <2>2, <2>3 DEF HolderOwnsRow, Holds, Busy, Load
  <2>5. SessionsHoldRows'
    BY <1>1, <2>2, HeldStays DEF Exists
  <2>6. QED
    BY <1>2, <2>4, <2>5
<1>5. QED
  BY <1>3, <1>4

LEMMA InvNext == QueueInv /\ TypeOK' /\ [Next]_vars => QueueInv'
<1> SUFFICES ASSUME QueueInv, TypeOK', [Next]_vars PROVE QueueInv'
  OBVIOUS
<1>1. ASSUME NEW r \in Requests, RequestStep(r) PROVE QueueInv'
  BY <1>1, InvInsert, InvRequestReads, InvCommit DEF RequestStep
<1>2. ASSUME NEW w \in Workers, WorkerStep(w) \/ Crash(w) PROVE QueueInv'
  BY <1>2, InvClaim, InvFinish, InvSession DEF WorkerStep
<1>3. CASE UNCHANGED vars
  BY <1>3 DEF vars, QueueInv, WithinBudget, SessionsHoldRows, HolderOwnsRow,
              Holds, Busy, Exists, Load
<1>4. QED
  BY <1>1, <1>2, <1>3, InvTick DEF Next

(* The invariant holds in every reachable state.                           *)
THEOREM Invariant == Spec => []QueueInv
<1>1. QED
  BY TypeCorrect, InvInit, InvNext, PTL DEF Spec

(* A worker that has not been overtaken executes the row as it is, on a    *)
(* lease that has not run out.                                             *)
THEOREM HolderOwnsRowHolds == Spec => []HolderOwnsRow
<1>1. QueueInv => HolderOwnsRow
  BY DEF QueueInv
<1>2. QED
  BY Invariant, <1>1, PTL

(* No job is ever executed by two workers that both still hold it.         *)
THEOREM Exclusive == Spec => []SoleExecutor
<1>1. QueueInv => SoleExecutor
  BY DEF QueueInv, HolderOwnsRow, SoleExecutor
<1>2. QED
  BY Invariant, <1>1, PTL

-----------------------------------------------------------------------------
(* What a step may never do.                                               *)

(* The counter of a row moves in two ways only: a claim adds one, a retry   *)
(* resets it.                                                              *)
LEMMA AttemptsStep ==
    ASSUME QueueInv, [Next]_vars, NEW j \in Jobs
    PROVE  /\ job'[j].attempts < job[j].attempts => RetriesNow(j)
           /\ StartsNow(j) => job'[j].attempts = job[j].attempts + 1
<1> USE DEF QueueInv
<1>0. job[j].attempts \in Nat
  BY DEF TypeOK, Job
<1>1. ASSUME NEW r \in Requests, RequestStep(r)
      PROVE  /\ job'[j].attempts < job[j].attempts => RetriesNow(j)
             /\ worker' = worker
  <2>1. CASE RetryCommit(r) \/ CancelCommit(r)
    <3>1. /\ request[r].job \in Jobs
          /\ \A k \in Jobs \ {request[r].job} : job'[k] = job[k]
          /\ \/ job'[request[r].job].attempts = job[request[r].job].attempts
             \/ request[r].op = "retry"
          /\ request' = [request EXCEPT ![r] = NoRequest]
          /\ worker' = worker
      BY <2>1, CommitEffect
    <3>2. request'[r].op = "none"
      BY <3>1, IdleTypes DEF TypeOK
    <3>3. QED
      BY <1>0, <3>1, <3>2 DEF RetriesNow
  <2>2. CASE EnqueueInsert(r)
    <3>1. worker' = worker
      BY <2>2 DEF EnqueueInsert
    <3>2. CASE job' = job
      BY <1>0, <3>1, <3>2
    <3>3. CASE job' # job
      <4>1. PICK i \in Jobs :
              job' = [job EXCEPT ![i] = NewJob(request[r].key, request[r].max_attempts)]
              /\ ~Exists(i)
        BY <2>2, <3>3 DEF EnqueueInsert
      <4>2. CASE i = j
        <5>1. job[j].attempts = 0 /\ job'[j].attempts = 0
          BY <4>1, <4>2 DEF NewJob, TypeOK, WithinBudget
        <5>2. QED
          BY <3>1, <5>1
      <4>3. CASE i # j
        BY <1>0, <3>1, <4>1, <4>3
      <4>4. QED
        BY <4>2, <4>3
    <3>4. QED
      BY <3>2, <3>3
  <2>3. CASE ~(RetryCommit(r) \/ CancelCommit(r) \/ EnqueueInsert(r))
    <3>1. job' = job /\ worker' = worker
      BY <1>1, <2>3
         DEF RequestStep, EnqueueLookup, RetryLoad, CancelLoad, RequestLost
    <3>2. QED
      BY <1>0, <3>1
  <2>4. QED
    BY <2>1, <2>2, <2>3
<1>2. ASSUME NEW w \in Workers, WorkerStep(w) \/ Crash(w)
      PROVE  /\ job'[j].attempts >= job[j].attempts
             /\ StartsNow(j) => job'[j].attempts = job[j].attempts + 1
  <2>1. CASE Claim(w)
    <3>1. PICK i \in Jobs :
             /\ \A k \in Jobs \ {i} : job'[k] = job[k]
             /\ job'[i].attempts = job[i].attempts + 1
             /\ worker'[w].job = i
             /\ \A v \in Workers \ {w} : worker'[v] = worker[v]
      BY <2>1, ClaimEffect
    <3>2. StartsNow(j) => i = j
      BY <3>1 DEF StartsNow, Busy
    <3>3. QED
      BY <1>0, <3>1, <3>2
  <2>2. CASE Complete(w) \/ Fail(w)
    <3>1. /\ worker[w].job \in Jobs
          /\ \A k \in Jobs \ {worker[w].job} : job'[k] = job[k]
          /\ job'[worker[w].job].attempts = job[worker[w].job].attempts
          /\ worker' = [worker EXCEPT ![w] = NoSession]
      BY <2>2, FinishEffect
    <3>2. ~StartsNow(j)
      BY <3>1, IdleTypes DEF StartsNow, Busy, TypeOK
    <3>3. QED
      BY <1>0, <3>1, <3>2
  <2>3. CASE Refresh(w) \/ Restart(w) \/ Crash(w)
    <3>1. job' = job
      BY <2>3 DEF Refresh, Restart, Crash
    <3>2. worker'[w].pc # "claimed" /\ \A v \in Workers \ {w} : worker'[v] = worker[v]
      BY <2>3, IdleTypes, ZenonT(40) DEF Refresh, Restart, Crash, TypeOK, Session
    <3>3. ~StartsNow(j)
      BY <3>2 DEF StartsNow, Busy
    <3>4. QED
      BY <1>0, <3>1, <3>3
  <2>4. QED
    BY <1>2, <2>1, <2>2, <2>3 DEF WorkerStep
<1>3. CASE Tick
  <2>1. job'[j].attempts = job[j].attempts /\ worker' = worker
    BY <1>3, TickEffect DEF Tick
  <2>2. QED
    BY <1>0, <2>1 DEF StartsNow, Busy
<1>4. CASE UNCHANGED vars
  BY <1>0, <1>4 DEF vars, StartsNow, Busy
<1>5. worker' = worker => ~StartsNow(j)
  BY DEF StartsNow, Busy
<1>6. job'[j].attempts \in Nat
  <2>1. TypeOK'
    BY TypeNext
  <2>2. QED
    BY <2>1 DEF TypeOK, Job
<1>7. QED
  BY <1>0, <1>1, <1>2, <1>3, <1>4, <1>5, <1>6 DEF Next

(* Handlers start at most max_attempts times per manual retry, every start *)
(* is counted, and no stale session makes the queue forget one.            *)
THEOREM BudgetRespected == Spec => StartsWithinBudget
<1>1. QueueInv /\ QueueInv' /\ [Next]_vars =>
        [\A j \in Jobs :
           /\ job'[j].attempts <= job'[j].max_attempts
           /\ job'[j].attempts < job[j].attempts => RetriesNow(j)
           /\ StartsNow(j) => job'[j].attempts = job[j].attempts + 1]_vars
  BY AttemptsStep DEF QueueInv, WithinBudget
<1>2. QED
  BY <1>1, Invariant, PTL DEF Spec, StartsWithinBudget

(* A flush of a current copy writes what the session assigned.             *)
LEMMA FlushCurrent ==
    ASSUME NEW row \in Job, NEW attr \in Copy, attr.locked = FALSE
    PROVE  LET new == Flush(row, Load(row), attr) IN
           /\ new.status = attr.status
           /\ new.attempts = attr.attempts
           /\ new.error = attr.error
           /\ new.max_attempts = row.max_attempts
           /\ row.locked_by # NoWorker => new.locked_by = NoWorker
  BY DEF Flush, Load, Job, Copy

LEMMA FinishSettles ==
    ASSUME QueueInv, NEW w \in Workers \ overtaken, Complete(w) \/ Fail(w)
    PROVE  Settled(job'[worker[w].job])
<1> DEFINE j == worker[w].job
           loaded == worker[w].copy
<1> USE DEF QueueInv
<1>1. j \in Jobs /\ loaded \in Copy /\ job[j] \in Job
  BY DEF Complete, Fail, Session, Busy, TypeOK
<1>2. /\ loaded = Load(job[j]) /\ job[j].locked_by = w /\ w # NoWorker
      /\ loaded.attempts <= loaded.max_attempts
      /\ loaded.max_attempts = job[j].max_attempts
  <2>1. loaded = Load(job[j]) /\ job[j].locked_by = w
    BY <1>1 DEF Complete, Fail, HolderOwnsRow, Holds, Busy
  <2>2. QED
    BY <1>1, <2>1, JobQueueAssumption DEF WithinBudget, Load
<1>3. CASE Complete(w)
  <2> DEFINE attr == [loaded EXCEPT !.status = "succeeded", !.error = FALSE,
                                    !.locked = FALSE]
  <2>1. attr \in Copy
    BY <1>1, AttrType DEF JobStatus
  <2>2. attr.status = "succeeded" /\ attr.error = FALSE /\ attr.locked = FALSE
    BY <1>1 DEF Copy
  <2>3. job'[j] = Flush(job[j], loaded, attr)
    BY <1>1, <1>3 DEF Complete, TypeOK
  <2> HIDE DEF attr
  <2>4. job'[j].status = "succeeded" /\ job'[j].error = FALSE
        /\ job'[j].locked_by = NoWorker
    <3>1. job'[j] = Flush(job[j], Load(job[j]), attr)
      BY <1>2, <2>3
    <3>2. QED
      BY <1>1, <1>2, <2>1, <2>2, <3>1, FlushCurrent, ZenonT(40)
  <2>5. QED
    BY <2>4 DEF Settled
<1>4. CASE Fail(w)
  <2> DEFINE exhausted == loaded.attempts >= loaded.max_attempts
             status == IF exhausted THEN "failed" ELSE "queued"
             attr == [loaded EXCEPT !.status = status, !.error = TRUE,
                                    !.locked = FALSE]
             row == Flush(job[j], loaded, attr)
             later == [row EXCEPT !.run_after = Backoff(loaded.attempts)]
  <2>1. attr \in Copy
    BY <1>1, AttrType DEF JobStatus
  <2>2. /\ attr.status = status /\ attr.error = TRUE /\ attr.locked = FALSE
        /\ attr.attempts = loaded.attempts
    BY <1>1 DEF Copy
  <2>3. job'[j] = IF exhausted THEN row ELSE later
    BY <1>1, <1>4 DEF Fail, TypeOK
  <2>4. row \in Job
    BY <1>1, <2>1, FlushType
  <2>5. /\ row.status = status /\ row.error = TRUE /\ row.locked_by = NoWorker
        /\ row.attempts = loaded.attempts
        /\ row.max_attempts = loaded.max_attempts
    <3>1. row = Flush(job[j], Load(job[j]), attr)
      BY <1>2
    <3> HIDE DEF attr, row, status
    <3>2. QED
      BY <1>1, <1>2, <2>1, <2>2, <3>1, FlushCurrent
  <2> HIDE DEF row
  <2>6. loaded.attempts \in Nat /\ loaded.max_attempts \in Nat
    BY <1>1 DEF Copy
  <2>7. CASE exhausted
    BY <1>2, <2>3, <2>5, <2>6, <2>7 DEF Settled
  <2>8. CASE ~exhausted
    <3>1. /\ later.status = row.status /\ later.error = row.error
          /\ later.locked_by = row.locked_by /\ later.attempts = row.attempts
          /\ later.max_attempts = row.max_attempts
          /\ later.run_after = Backoff(loaded.attempts)
      BY <2>4 DEF Job
    <3>2. Backoff(loaded.attempts) > 0
      BY <2>6, BackoffRange, JobQueueAssumption
    <3> HIDE DEF later
    <3>3. QED
      BY <2>3, <2>5, <2>6, <2>8, <3>1, <3>2 DEF Settled
  <2>9. QED
    BY <2>7, <2>8
<1>5. QED
  BY <1>3, <1>4

(* A worker that kept its lease to the end leaves the row telling what     *)
(* happened to the job.                                                    *)
THEOREM OutcomesAreRecorded == Spec => OutcomeRecorded
<1>1. ASSUME QueueInv, [Next]_vars, NEW w \in Workers \ overtaken,
             worker[w].pc = "executing", worker'[w].pc = "idle"
      PROVE  Settled(job'[worker[w].job])
  <2>1. Complete(w) \/ Fail(w)
    <3> SUFFICES ASSUME ~Complete(w), ~Fail(w) PROVE worker'[w].pc # "idle"
      BY <1>1
    <3>1. ASSUME NEW v \in Workers, WorkerStep(v) \/ Crash(v)
          PROVE  worker'[w].pc # "idle"
      <4>1. CASE v # w
        <5>1. worker'[w] = worker[w]
          <6>1. PICK session : worker' = [worker EXCEPT ![v] = session]
            BY <3>1 DEF WorkerStep, Claim, Refresh, Complete, Fail, Restart, Crash,
                        Finished
          <6>2. QED
            BY <4>1, <6>1 DEF QueueInv, TypeOK
        <5>2. QED
          BY <1>1, <5>1
      <4>2. CASE v = w
        <5>1. Refresh(w) \/ Crash(w)
          BY <1>1, <3>1, <4>2 DEF WorkerStep, Claim, Restart
        <5>2. QED
          BY <1>1, <5>1, IdleTypes DEF Refresh, Crash, QueueInv, TypeOK, Session
      <4>3. QED
        BY <4>1, <4>2
    <3>2. ASSUME NEW r \in Requests, RequestStep(r)
          PROVE  worker' = worker
      BY <3>2 DEF RequestStep, EnqueueLookup, EnqueueInsert, RetryLoad, RetryCommit,
                  CancelLoad, CancelCommit, RequestLost
    <3>3. Tick \/ UNCHANGED vars => worker' = worker
      BY DEF Tick, vars
    <3>4. QED
      BY <1>1, <3>1, <3>2, <3>3 DEF Next
  <2>2. QED
    BY <1>1, <2>1, FinishSettles
<1>2. QueueInv /\ [Next]_vars =>
        [\A w \in Workers \ overtaken :
           (worker[w].pc = "executing" /\ worker'[w].pc = "idle")
              => Settled(job'[worker[w].job])]_vars
  BY <1>1
<1>3. QED
  BY <1>2, Invariant, PTL DEF Spec, OutcomeRecorded

-----------------------------------------------------------------------------
(* Idempotency keys.  The column never changes once the row is there, and  *)
(* a reply names a row that carries the key.                               *)

RepliesHold ==
    \A p \in replied : Exists(p[2]) /\ job[p[2]].key = p[1] /\ p[1] # NoKey

LEMMA FlushKeepsKey ==
    ASSUME NEW row, NEW loaded, NEW attr, NEW later
    PROVE  /\ Flush(row, loaded, attr).key = row.key
           /\ [Flush(row, loaded, attr) EXCEPT !.run_after = later].key = row.key
  BY DEF Flush

LEMMA KeysKept ==
    ASSUME QueueInv, [Next]_vars, \A r \in Requests : ~EnqueueInsert(r), NEW j \in Jobs
    PROVE  job'[j].key = job[j].key /\ (Exists(j)' <=> Exists(j))
<1> USE DEF QueueInv
<1>1. CASE UNCHANGED job
  BY <1>1 DEF Exists
<1>2. ASSUME NEW r \in Requests, RetryCommit(r) \/ CancelCommit(r)
      PROVE  job'[j].key = job[j].key /\ (Exists(j)' <=> Exists(j))
  <2> DEFINE k == request[r].job
             loaded == request[r].copy
  <2>1. /\ k \in Jobs
        /\ job[k].status # "absent" => job'[k].status # "absent"
        /\ \A m \in Jobs \ {k} : job'[m] = job[m]
    BY <1>2, CommitEffect
  <2>2. Exists(k)
    BY <1>2 DEF SessionsHoldRows, RetryCommit, CancelCommit
  <2>3. CASE RetryCommit(r)
    <3> DEFINE row == [Flush(job[k], loaded,
                             [loaded EXCEPT !.status = "queued", !.attempts = 0, !.error = FALSE])
                        EXCEPT !.run_after = 0]
    <3>1. job' = [job EXCEPT ![k] = row]
      BY <2>3 DEF RetryCommit
    <3>2. row.key = job[k].key
      BY FlushKeepsKey
    <3> HIDE DEF row, k, loaded
    <3>3. job'[k].key = job[k].key
      BY <2>1, <3>1, <3>2 DEF TypeOK
    <3>4. QED
      BY <2>1, <2>2, <3>3 DEF Exists
  <2>4. CASE CancelCommit(r)
    <3> DEFINE row == Flush(job[k], loaded,
                            [loaded EXCEPT !.status = "cancelled", !.locked = FALSE])
    <3>1. job' = [job EXCEPT ![k] = row]
      BY <2>4 DEF CancelCommit
    <3>2. row.key = job[k].key
      BY FlushKeepsKey
    <3> HIDE DEF row, k, loaded
    <3>3. job'[k].key = job[k].key
      BY <2>1, <3>1, <3>2 DEF TypeOK
    <3>4. QED
      BY <2>1, <2>2, <3>3 DEF Exists
  <2>5. QED
    BY <1>2, <2>3, <2>4
<1>3. ASSUME NEW w \in Workers, Complete(w) \/ Fail(w)
      PROVE  job'[j].key = job[j].key /\ (Exists(j)' <=> Exists(j))
  <2> DEFINE k == worker[w].job
             loaded == worker[w].copy
  <2>1. /\ k \in Jobs
        /\ job[k].status # "absent" => job'[k].status # "absent"
        /\ \A m \in Jobs \ {k} : job'[m] = job[m]
    BY <1>3, FinishEffect
  <2>2. Exists(k)
    BY <1>3 DEF SessionsHoldRows, Complete, Fail, Busy
  <2>3. CASE Complete(w)
    <3> DEFINE row == Flush(job[k], loaded, [loaded EXCEPT !.status = "succeeded",
                                                           !.error = FALSE, !.locked = FALSE])
    <3>1. job' = [job EXCEPT ![k] = row]
      BY <2>3 DEF Complete
    <3>2. row.key = job[k].key
      BY FlushKeepsKey
    <3> HIDE DEF row, k, loaded
    <3>3. job'[k].key = job[k].key
      BY <2>1, <3>1, <3>2 DEF TypeOK
    <3>4. QED
      BY <2>1, <2>2, <3>3 DEF Exists
  <2>4. CASE Fail(w)
    <3> DEFINE exhausted == loaded.attempts >= loaded.max_attempts
               row == Flush(job[k], loaded,
                            [loaded EXCEPT !.status = IF exhausted THEN "failed" ELSE "queued",
                                           !.error = TRUE, !.locked = FALSE])
               later == [row EXCEPT !.run_after = Backoff(loaded.attempts)]
    <3>1. job' = [job EXCEPT ![k] = IF exhausted THEN row ELSE later]
      BY <2>4 DEF Fail
    <3>2. row.key = job[k].key /\ later.key = job[k].key
      BY FlushKeepsKey
    <3> HIDE DEF row, later, exhausted, k, loaded
    <3>3. job'[k].key = job[k].key
      BY <2>1, <3>1, <3>2 DEF TypeOK
    <3>4. QED
      BY <2>1, <2>2, <3>3 DEF Exists
  <2>5. QED
    BY <1>3, <2>3, <2>4
<1>4. ASSUME NEW w \in Workers, Claim(w)
      PROVE  job'[j].key = job[j].key /\ (Exists(j)' <=> Exists(j))
  <2>1. PICK k \in Jobs :
           /\ First(k)
           /\ job' = [job EXCEPT ![k] =
                      [job[k] EXCEPT !.status = "running", !.attempts = @ + 1,
                                     !.locked_by = w, !.lock_age = 0]]
    BY <1>4 DEF Claim
  <2> DEFINE row == [job[k] EXCEPT !.status = "running", !.attempts = @ + 1,
                                   !.locked_by = w, !.lock_age = 0]
  <2>2. Exists(k)
    BY <2>1 DEF First, Candidate, Due, LeaseExpired, Exists
  <2>3. row.key = job[k].key /\ row.status = "running"
    BY DEF TypeOK, Job
  <2>4. job' = [job EXCEPT ![k] = row]
    BY <2>1
  <2> HIDE DEF row
  <2>5. QED
    BY <2>2, <2>3, <2>4 DEF Exists, TypeOK
<1>5. CASE Tick
  <2>1. job'[j].key = job[j].key
    BY <1>5 DEF Tick, Aged, TypeOK, Job
  <2>2. QED
    BY <1>5, <2>1, TickEffect DEF Exists
<1>6. QED
  BY <1>1, <1>2, <1>3, <1>4, <1>5
     DEF Next, RequestStep, WorkerStep, EnqueueLookup, RetryLoad, CancelLoad, RequestLost,
         Refresh, Restart, Crash, vars

(* A row is only inserted under a key nobody has.                          *)
LEMMA KeysInsert ==
    ASSUME TypeOK, OneJobPerKey, RepliesHold, NEW r \in Requests, EnqueueInsert(r)
    PROVE  OneJobPerKey' /\ RepliesHold'
<1> DEFINE k == request[r].key
<1>1. CASE KeyTaken(k)
  BY <1>1 DEF EnqueueInsert, OneJobPerKey, RepliesHold, Exists
<1>2. CASE ~KeyTaken(k)
  <2>1. PICK j \in Jobs :
           /\ ~Exists(j)
           /\ job' = [job EXCEPT ![j] = NewJob(k, request[r].max_attempts)]
           /\ replied' = IF k = NoKey THEN replied ELSE replied \cup {<<k, j>>}
    BY <1>2 DEF EnqueueInsert
  <2>2. /\ job'[j].key = k /\ Exists(j)'
        /\ \A i \in Jobs \ {j} : job'[i] = job[i]
    BY <2>1 DEF NewJob, Exists, TypeOK
  <2> HIDE DEF k
  <2>3. \A i \in Jobs : k # NoKey => ~(Exists(i) /\ job[i].key = k)
    BY <1>2 DEF KeyTaken
  <2>4. ASSUME NEW h \in Jobs, NEW i \in Jobs,
               Exists(h)', Exists(i)', job'[h].key = job'[i].key, job'[h].key # NoKey
        PROVE  h = i
    BY <2>2, <2>3, <2>4 DEF Exists, OneJobPerKey
  <2>5. ASSUME NEW p \in replied'
        PROVE  Exists(p[2])' /\ job'[p[2]].key = p[1] /\ p[1] # NoKey /\ p[2] \in Jobs
    <3>1. CASE p \in replied
      <4>1. p[2] \in Jobs
        BY <3>1 DEF TypeOK
      <4>2. p[2] # j
        BY <2>1, <3>1 DEF RepliesHold
      <4>3. QED
        BY <2>2, <3>1, <4>1, <4>2 DEF RepliesHold, Exists
    <3>2. CASE p \notin replied
      <4>1. p = <<k, j>> /\ k # NoKey
        BY <2>1, <2>5, <3>2
      <4>2. QED
        BY <2>2, <4>1 DEF Exists
    <3>3. QED
      BY <3>1, <3>2
  <2>6. QED
    BY <2>4, <2>5 DEF OneJobPerKey, RepliesHold, Exists
<1>3. QED
  BY <1>1, <1>2

LEMMA KeysNext ==
    ASSUME QueueInv, OneJobPerKey, RepliesHold, [Next]_vars
    PROVE  OneJobPerKey' /\ RepliesHold'
<1>1. CASE \E r \in Requests : EnqueueInsert(r)
  BY <1>1, KeysInsert DEF QueueInv
<1>2. CASE \A r \in Requests : ~EnqueueInsert(r)
  <2>1. \A j \in Jobs : job'[j].key = job[j].key /\ (Exists(j)' <=> Exists(j))
    BY <1>2, KeysKept
  <2>2. \A p \in replied' :
          p \in replied \/ (p[2] \in Jobs /\ p[1] # NoKey /\ Exists(p[2]) /\ job[p[2]].key = p[1])
    <3>1. CASE UNCHANGED replied
      BY <3>1
    <3>2. ASSUME NEW r \in Requests, NEW k \in Keys \cup {NoKey}, NEW m \in Budgets,
                 EnqueueLookup(r, k, m), replied' # replied
          PROVE  \A p \in replied' :
                   p \in replied \/ (p[2] \in Jobs /\ p[1] # NoKey /\ Exists(p[2]) /\ job[p[2]].key = p[1])
      <4>1. PICK j \in Jobs : Exists(j) /\ job[j].key = k /\ replied' = replied \cup {<<k, j>>}
        BY <3>2 DEF EnqueueLookup
      <4>2. k # NoKey
        BY <3>2 DEF EnqueueLookup, KeyTaken
      <4>3. QED
        BY <4>1, <4>2
    <3>3. UNCHANGED replied \/ \E r \in Requests, k \in Keys \cup {NoKey}, m \in Budgets :
                                  EnqueueLookup(r, k, m)
      BY <1>2 DEF Next, RequestStep, WorkerStep, RetryLoad, CancelLoad, RetryCommit, CancelCommit,
                  RequestLost, Claim, Refresh, Complete, Fail, Restart, Crash, Tick, vars
    <3>4. QED
      BY <3>1, <3>2, <3>3
  <2>3. \A p \in replied : p[2] \in Jobs
    BY DEF QueueInv, TypeOK
  <2>4. RepliesHold'
    BY <2>1, <2>2, <2>3 DEF RepliesHold, Exists
  <2>5. \A p \in replied' : p[2] \in Jobs
    BY <2>2, <2>3
  <2>6. \A i, j \in Jobs :
          (Exists(i)' /\ Exists(j)' /\ job'[i].key = job'[j].key /\ job'[i].key # NoKey) => i = j
    BY <2>1 DEF OneJobPerKey
  <2>7. QED
    BY <2>4, <2>5, <2>6 DEF OneJobPerKey, RepliesHold, Exists
<1>3. QED
  BY <1>1, <1>2

(* A key names one job, and every request with that key is answered with   *)
(* it, however look-ups and inserts interleave.                            *)
THEOREM KeysAreUnique == Spec => []OneJobPerKey
<1>1. Init => OneJobPerKey /\ RepliesHold
  BY DEF Init, OneJobPerKey, RepliesHold, Exists, Absent, NewJob
<1>2. QueueInv /\ OneJobPerKey /\ RepliesHold /\ [Next]_vars => OneJobPerKey' /\ RepliesHold'
  BY KeysNext
<1>3. QED
  BY <1>1, <1>2, Invariant, PTL DEF Spec

-----------------------------------------------------------------------------
(* The queue implements LeasedWork.                                        *)

(* HolderOf names the one worker that holds the job, if there is one.      *)
HolderIsUnique ==
    \A j \in Jobs :
        \/ HolderOf(j) = NoWorker /\ \A w \in Workers : ~Holds(w, j)
        \/ /\ HolderOf(j) \in Workers
           /\ \A w \in Workers : Holds(w, j) <=> w = HolderOf(j)

LEMMA HolderUnique == QueueInv => HolderIsUnique
<1> SUFFICES ASSUME QueueInv, NEW j \in Jobs
             PROVE  \/ HolderOf(j) = NoWorker /\ \A w \in Workers : ~Holds(w, j)
                    \/ /\ HolderOf(j) \in Workers
                       /\ \A w \in Workers : Holds(w, j) <=> w = HolderOf(j)
  BY DEF HolderIsUnique
<1>1. CASE \E w \in Workers : Holds(w, j)
  <2>1. HolderOf(j) \in Workers /\ Holds(HolderOf(j), j)
    BY <1>1 DEF HolderOf
  <2>2. \A v, w \in Workers : Holds(v, j) /\ Holds(w, j) => v = w
    BY DEF QueueInv, HolderOwnsRow
  <2>3. QED
    BY <2>1, <2>2
<1>2. CASE ~\E w \in Workers : Holds(w, j)
  BY <1>2 DEF HolderOf
<1>3. QED
  BY <1>1, <1>2

LEMMA HolderUniqueNext == QueueInv' => HolderIsUnique'
  BY HolderUnique, PTL

(* A step that only ends holds, of the jobs of S, and moves no budget.     *)
LEMMA Frees ==
    ASSUME QueueInv, QueueInv', NEW S \in SUBSET Jobs,
           \A j \in Jobs, w \in Workers :
              Holds(w, j)' <=> Holds(w, j) /\ j \notin S,
           \A j \in Jobs : Left(j)' = Left(j)
    PROVE  Promise!Free(S)
<1>1. ASSUME NEW j \in Jobs
      PROVE  HolderOf(j)' = IF j \in S THEN NoWorker ELSE HolderOf(j)
  BY HolderUnique, HolderUniqueNext, JobQueueAssumption DEF HolderIsUnique
<1>2. QED
  BY <1>1 DEF Promise!Free

(* A step of one job: the other jobs keep their holder and their budget.   *)
LEMMA Grants ==
    ASSUME QueueInv, QueueInv', NEW j \in Jobs, NEW n \in Budgets,
           \A w \in Workers : ~Holds(w, j)',
           \A k \in Jobs \ {j}, w \in Workers : Holds(w, k)' <=> Holds(w, k),
           \A k \in Jobs \ {j} : Left(k)' = Left(k),
           Left(j)' = n
    PROVE  Promise!Grant(j, n)
<1>1. ASSUME NEW k \in Jobs
      PROVE  HolderOf(k)' = IF k = j THEN NoWorker ELSE HolderOf(k)
  BY HolderUnique, HolderUniqueNext, JobQueueAssumption DEF HolderIsUnique
<1>2. QED
  BY <1>1 DEF Promise!Grant

LEMMA RefCommit ==
    ASSUME QueueInv, QueueInv', NEW r \in Requests, RetryCommit(r) \/ CancelCommit(r)
    PROVE  Promise!Next
<1>1. PICK j \in Jobs :
      /\ j = request[r].job
      /\ \A k \in Jobs \ {j} : job'[k] = job[k]
      /\ job'[j].max_attempts = job[j].max_attempts
      /\ job'[j].attempts = job[j].attempts \/ job'[j].attempts = 0
      /\ job[j].status # "absent" => job'[j].status # "absent"
      /\ overtaken' = overtaken \cup Executors(j)
      /\ worker' = worker
  BY CommitEffect DEF QueueInv
<1>2. Exists(j) /\ Exists(j)'
  <2>1. Exists(j)
    BY <1>1 DEF QueueInv, SessionsHoldRows, RetryCommit, CancelCommit
  <2>2. QED
    BY <1>1, <2>1 DEF Exists
<1>3. \A k \in Jobs, w \in Workers : Holds(w, k)' <=> Holds(w, k) /\ k # j
  BY <1>1 DEF Holds, Busy, Executors
<1>4. \A k \in Jobs \ {j} : Left(k)' = Left(k)
  BY <1>1 DEF Left, Exists
<1>5. CASE job'[j].attempts = job[j].attempts
  <2>1. Left(j)' = Left(j)
    BY <1>1, <1>2, <1>5 DEF Left
  <2>2. Promise!Free({j})
    BY <1>1, <1>3, <1>4, <2>1, Frees
  <2>3. QED
    BY <1>1, <2>2 DEF Promise!Next
<1>6. CASE job'[j].attempts = 0
  <2>1. job'[j].max_attempts \in Budgets
    BY <1>1, <1>2 DEF QueueInv, WithinBudget, Exists
  <2>2. Left(j)' = job'[j].max_attempts
    <3>1. job'[j].max_attempts \in Nat
      BY <2>1, JobQueueAssumption
    <3>2. QED
      BY <1>2, <1>6, <3>1 DEF Left
  <2>3. Promise!Grant(j, job'[j].max_attempts)
    BY <1>1, <1>3, <1>4, <2>1, <2>2, Grants
  <2>4. QED
    BY <1>1, <2>1, <2>3 DEF Promise!Next
<1>7. QED
  BY <1>1, <1>5, <1>6

LEMMA RefInsert ==
    ASSUME QueueInv, QueueInv', NEW r \in Requests, EnqueueInsert(r), job' # job
    PROVE  Promise!Next
<1>1. PICK j \in Jobs :
         /\ ~Exists(j)
         /\ job' = [job EXCEPT ![j] = NewJob(request[r].key, request[r].max_attempts)]
  BY DEF EnqueueInsert
<1> DEFINE m == request[r].max_attempts
<1>2. /\ job'[j].status = "queued" /\ job'[j].attempts = 0
      /\ job'[j].max_attempts = m
      /\ \A k \in Jobs \ {j} : job'[k] = job[k]
  BY <1>1 DEF NewJob, QueueInv, TypeOK
<1>3. m \in Budgets
  BY DEF QueueInv, SessionsHoldRows, EnqueueInsert
<1>4. \A k \in Jobs, w \in Workers : Holds(w, k)' <=> Holds(w, k)
  BY DEF EnqueueInsert, Holds, Busy
<1>5. \A w \in Workers : ~Holds(w, j)
  BY <1>1 DEF QueueInv, HolderOwnsRow, Exists
<1>6. Left(j)' = m /\ \A k \in Jobs \ {j} : Left(k)' = Left(k)
  <2>1. m \in Nat
    BY <1>3, JobQueueAssumption
  <2> HIDE DEF m
  <2>2. QED
    BY <1>2, <2>1 DEF Left, Exists
<1> HIDE DEF m
<1>7. Promise!Grant(j, m)
  BY <1>3, <1>4, <1>5, <1>6, Grants
<1>8. QED
  BY <1>3, <1>7 DEF Promise!Next

LEMMA RefFinish ==
    ASSUME QueueInv, QueueInv', NEW w \in Workers, Complete(w) \/ Fail(w)
    PROVE  Promise!Next
<1> DEFINE j == worker[w].job
<1>1. /\ j \in Jobs
      /\ \A k \in Jobs \ {j} : job'[k] = job[k]
      /\ job'[j].max_attempts = job[j].max_attempts
      /\ job'[j].attempts = job[j].attempts
      /\ job[j].status # "absent" => job'[j].status # "absent"
      /\ overtaken' = OvertakeOthers(j, w)
      /\ worker' = [worker EXCEPT ![w] = NoSession]
  BY FinishEffect DEF QueueInv
<1>2. Exists(j)
  BY DEF QueueInv, SessionsHoldRows, Complete, Fail, Busy
<1>3. ~Busy(w)' /\ \A v \in Workers \ {w} : worker'[v] = worker[v]
  BY <1>1, IdleTypes DEF Busy, QueueInv, TypeOK
<1>4. \A k \in Jobs, v \in Workers : Holds(v, k)' <=> Holds(v, k) /\ k # j
  BY <1>1, <1>3 DEF Holds, Busy, Executors, OvertakeOthers
<1>5. \A k \in Jobs : Left(k)' = Left(k)
  BY <1>1, <1>2 DEF Left, Exists
<1>6. Promise!Free({j})
  BY <1>1, <1>4, <1>5, Frees
<1>7. QED
  BY <1>1, <1>6 DEF Promise!Next

LEMMA RefClaim ==
    ASSUME QueueInv, QueueInv', NEW w \in Workers, Claim(w)
    PROVE  Promise!Next
<1>1. PICK j \in Jobs :
           /\ Candidate(j)
           /\ \A k \in Jobs \ {j} : job'[k] = job[k]
           /\ job'[j].status = "running"
           /\ job'[j].max_attempts = job[j].max_attempts
           /\ job'[j].attempts = job[j].attempts + 1
           /\ worker[w].pc = "idle"
           /\ worker'[w].pc = "claimed" /\ worker'[w].job = j
           /\ \A v \in Workers \ {w} : worker'[v] = worker[v]
           /\ overtaken' = overtaken \ {w}
  BY ClaimEffect DEF QueueInv
<1>2. \A v \in Workers : ~Holds(v, j)
  BY <1>1, JobQueueAssumption
     DEF QueueInv, HolderOwnsRow, Candidate, Due, LeaseExpired, TypeOK, Job
<1>3. \A k \in Jobs, v \in Workers :
        Holds(v, k)' <=> Holds(v, k) \/ (v = w /\ k = j)
  BY <1>1 DEF Holds, Busy
<1>4. ASSUME NEW k \in Jobs
      PROVE  HolderOf(k)' = IF k = j THEN w ELSE HolderOf(k)
  BY <1>2, <1>3, HolderUnique, HolderUniqueNext, JobQueueAssumption DEF HolderIsUnique
<1>5. HolderOf(j) = NoWorker
  BY <1>2, HolderUnique DEF HolderIsUnique
<1>6. /\ Left(j) > 0 /\ Left(j)' = Left(j) - 1
      /\ \A k \in Jobs \ {j} : Left(k)' = Left(k)
  <2>1. Exists(j) /\ Exists(j)'
    BY <1>1 DEF Exists, Candidate, Due, LeaseExpired
  <2>2. job[j].attempts \in Nat /\ job[j].max_attempts \in Nat
    BY DEF QueueInv, TypeOK, Job
  <2>3. job[j].attempts < job[j].max_attempts
    BY <1>1 DEF Candidate
  <2>4. QED
    BY <1>1, <2>1, <2>2, <2>3 DEF Left, Exists
<1>7. Promise!Acquire(w, j)
  BY <1>4, <1>5, <1>6 DEF Promise!Acquire
<1>8. QED
  BY <1>7 DEF Promise!Next

LEMMA RefTick ==
    ASSUME QueueInv, QueueInv', Tick
    PROVE  Promise!Next
<1> DEFINE S == {k \in Jobs : job'[k].lock_age > Lease}
<1>1. \A j \in Jobs : Left(j)' = Left(j)
  BY TickEffect DEF QueueInv, Left, Exists
<1>2. \A j \in Jobs, w \in Workers : Holds(w, j)' <=> Holds(w, j) /\ j \notin S
  BY DEF Tick, Holds, Busy
<1>3. Promise!Free(S)
  BY <1>1, <1>2, Frees
<1>4. QED
  BY <1>3 DEF Promise!Next

LEMMA RefCrash ==
    ASSUME QueueInv, QueueInv', NEW w \in Workers, Crash(w)
    PROVE  Promise!Next
<1> DEFINE S == {k \in Jobs : Holds(w, k)}
<1>1. /\ job' = job /\ overtaken' = overtaken \ {w}
      /\ ~Busy(w)' /\ \A v \in Workers \ {w} : worker'[v] = worker[v]
  BY IdleTypes DEF Crash, Busy, QueueInv, TypeOK, Session
<1>2. \A j \in Jobs : Left(j)' = Left(j)
  BY <1>1 DEF Left, Exists
<1>3. \A j \in Jobs, v \in Workers : Holds(v, j)' <=> Holds(v, j) /\ v # w
  BY <1>1 DEF Holds, Busy
<1>4. \A j \in Jobs, v \in Workers : Holds(v, j)' <=> Holds(v, j) /\ j \notin S
  BY <1>3, HolderUnique DEF HolderIsUnique
<1>5. Promise!Free(S)
  BY <1>2, <1>4, Frees
<1>6. QED
  BY <1>5 DEF Promise!Next

(* The other steps change neither who holds what nor what is left.         *)
LEMMA RefStutter ==
    ASSUME QueueInv, QueueInv', UNCHANGED <<job, overtaken>>,
           \A w \in Workers : /\ Busy(w)' <=> Busy(w)
                             /\ worker'[w].job = worker[w].job
    PROVE  Promise!Next
<1>1. \A j \in Jobs : Left(j)' = Left(j)
  BY DEF Left, Exists
<1>2. \A j \in Jobs, w \in Workers : Holds(w, j)' <=> Holds(w, j) /\ j \notin {}
  BY DEF Holds
<1>3. Promise!Free({})
  BY <1>1, <1>2, Frees
<1>4. QED
  BY <1>3 DEF Promise!Next

LEMMA RefInit == Init => Promise!Init
<1> SUFFICES ASSUME Init PROVE Promise!Init
  OBVIOUS
<1>1. \A j \in Jobs : HolderOf(j) = NoWorker
  BY IdleTypes DEF Init, HolderOf, Holds, Busy
<1>2. \A j \in Jobs : Left(j) = 0
  BY DEF Init, Left, Exists, Absent, NewJob
<1>3. QED
  BY <1>1, <1>2 DEF Promise!Init

LEMMA RefNext == QueueInv /\ QueueInv' /\ [Next]_vars => [Promise!Next]_Promise!vars
<1> SUFFICES ASSUME QueueInv, QueueInv', [Next]_vars PROVE Promise!Next
  OBVIOUS
<1>1. ASSUME NEW r \in Requests, RequestStep(r) PROVE Promise!Next
  <2>1. CASE RetryCommit(r) \/ CancelCommit(r)
    BY <2>1, RefCommit
  <2>2. CASE EnqueueInsert(r) /\ job' # job
    BY <2>2, RefInsert
  <2>3. CASE UNCHANGED <<job, worker, overtaken>>
    BY <2>3, RefStutter DEF Busy
  <2>4. QED
    BY <1>1, <2>1, <2>2, <2>3
       DEF RequestStep, EnqueueLookup, EnqueueInsert, RetryLoad, CancelLoad, RequestLost
<1>2. ASSUME NEW w \in Workers, WorkerStep(w) \/ Crash(w) PROVE Promise!Next
  <2>1. CASE Refresh(w)
    <3>1. \A v \in Workers : /\ Busy(v)' <=> Busy(v)
                             /\ worker'[v].job = worker[v].job
      BY <2>1 DEF Refresh, Busy, QueueInv, TypeOK, Session
    <3>2. QED
      BY <2>1, <3>1, RefStutter DEF Refresh
  <2>2. CASE Restart(w)
    <3>1. \A v \in Workers : /\ Busy(v)' <=> Busy(v)
                             /\ worker'[v].job = worker[v].job
      BY <2>2, IdleTypes DEF Restart, Busy, QueueInv, TypeOK, Session
    <3>2. QED
      BY <2>2, <3>1, RefStutter DEF Restart
  <2>3. QED
    BY <1>2, <2>1, <2>2, RefClaim, RefFinish, RefCrash DEF WorkerStep
<1>3. CASE UNCHANGED vars
  BY <1>3, RefStutter DEF vars, Busy
<1>4. QED
  BY <1>1, <1>2, <1>3, RefTick DEF Next

(* The queue keeps the promise LeasedWork states: at most one holder, taken *)
(* only when free, and never more often than granted.                      *)
THEOREM QueueImplementsPromise == Spec => ImplementsPromise
<1>1. QED
  BY RefInit, RefNext, Invariant, PTL DEF Spec, ImplementsPromise, Promise!Spec

=============================================================================
