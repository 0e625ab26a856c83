------------------------- MODULE NotificationDelivery -------------------------
(***************************************************************************)
(* From a committed business transaction to the e-mail it causes:          *)
(* create_notification (services/notifications.py) and record_event put    *)
(* outbox events into the transaction, the publisher                       *)
(* (publish_next_outbox_event, services/events.py) turns a                 *)
(* notification.created event into a notification.email job if the user    *)
(* wants e-mail, and the job's handler (worker.py) sends it.               *)
(*                                                                         *)
(* Every worker process alternates between run_once and the publisher      *)
(* (main, worker.py).  The job queue appears as its promise, LeasedWork.   *)
(***************************************************************************)
EXTENDS Integers, FiniteSets, SequencesExt

CONSTANTS
    Events,         \* outbox events
    Notifications,  \* those with the topic notification.created
    Workers,
    NoWorker,
    NoEvent,
    Attempts,       \* max_attempts of a notification.email job
    MaxGranted      \* bound: attempts granted to one job, retries included

ASSUME DeliveryAssumption ==
    /\ Notifications \subseteq Events
    /\ NoEvent \notin Events
    /\ NoWorker \notin Workers
    /\ Attempts \in Nat \ {0}
    /\ MaxGranted \in Nat /\ MaxGranted >= Attempts

VARIABLES
    outbox,         \* unpublished events, in the order of created_at
    published,      \* events with a published_at
    email_enabled,  \* the user's preference
    emailed,        \* notifications with an emailed_at
    worker,         \* per worker process: where main() stands
    holder, left,   \* the job queue, see LeasedWork
    granted,        \* attempts granted to each notification.email job so far
    sent            \* history: messages SMTP accepted, per notification

queue == <<holder, left>>
vars == <<outbox, published, email_enabled, emailed, worker, queue, granted, sent>>

Queue == INSTANCE LeasedWork WITH Jobs <- Notifications, Budgets <- {Attempts}

-----------------------------------------------------------------------------
(* Worker processes.                                                       *)

Publishing == {"locked", "decided"}
Emailing == {"emailing", "sent", "ended"}

Process == [pc: {"poll", "outbox", "down"} \cup Publishing \cup Emailing,
            event: Events \cup {NoEvent},
            wanted: BOOLEAN]        \* the preference, as the publisher read it

Fresh == [pc |-> "poll", event |-> NoEvent, wanted |-> FALSE]

At(w, pc) == worker[w].pc = pc
Event(w) == worker[w].event
Goes(w, pc) == worker' = [worker EXCEPT ![w].pc = pc]

(* The session is closed and main() goes on at pc.                         *)
Turns(w, pc) == worker' = [worker EXCEPT ![w] = [Fresh EXCEPT !.pc = pc]]

Exists(e) == e \in ToSet(outbox) \cup published
HasJob(n) == granted[n] > 0
Sending(n) == {w \in Workers : At(w, "emailing") /\ Event(w) = n}

-----------------------------------------------------------------------------
(* The API: an event commits with the change it tells of.  created_at is   *)
(* the start of its transaction, so it may come before events already      *)
(* there.                                                                  *)

Record(e) ==
    /\ ~Exists(e)
    /\ \E i \in 1 .. Len(outbox) + 1 : outbox' = InsertAt(outbox, i, e)
    /\ UNCHANGED <<published, email_enabled, emailed, worker, queue, granted, sent>>

UpdatePreferences ==
    /\ email_enabled' = ~email_enabled
    /\ UNCHANGED <<outbox, published, emailed, worker, queue, granted, sent>>

(* POST /jobs/{id}/retry on a notification.email job.                      *)
RetryEmail(n) ==
    /\ HasJob(n)
    /\ granted[n] + Attempts <= MaxGranted
    /\ Queue!Grant(n, Attempts)
    /\ granted' = [granted EXCEPT ![n] = @ + Attempts]
    /\ UNCHANGED <<outbox, published, email_enabled, emailed, worker, sent>>

-----------------------------------------------------------------------------
(* publish_next_outbox_event: the oldest event nobody has locked, the      *)
(* preference, and one commit for the job and published_at.                *)

(* Seeded fault: the event is read without FOR UPDATE.                     *)
UnlockedAlways(e) == e \in Events

Unlocked(e) == \A w \in Workers : worker[w].pc \in Publishing => Event(w) # e

Oldest(e) ==
    \E i \in DOMAIN outbox :
        /\ outbox[i] = e
        /\ Unlocked(e)
        /\ \A k \in 1 .. i - 1 : ~Unlocked(outbox[k])

LockEvent(w) ==
    /\ At(w, "outbox")
    /\ \E e \in ToSet(outbox) :
         /\ Oldest(e)
         /\ worker' = [worker EXCEPT ![w] = [@ EXCEPT !.pc = "locked", !.event = e]]
    /\ UNCHANGED <<outbox, published, email_enabled, emailed, queue, granted, sent>>

NothingToPublish(w) ==
    /\ At(w, "outbox")
    /\ \A e \in ToSet(outbox) : ~Oldest(e)
    /\ Turns(w, "poll")
    /\ UNCHANGED <<outbox, published, email_enabled, emailed, queue, granted, sent>>

ReadPreference(w) ==
    /\ At(w, "locked")
    /\ worker' = [worker EXCEPT ![w].pc = "decided",
                                ![w].wanted = email_enabled /\ Event(w) \in Notifications]
    /\ UNCHANGED <<outbox, published, email_enabled, emailed, queue, granted, sent>>

(* The outbox when e is published.                                         *)
Without(e) == RemoveAt(outbox, CHOOSE i \in DOMAIN outbox : outbox[i] = e)

(* Seeded fault: an event of a topic nobody handles stays unpublished.     *)
PublishHandled(w) ==
    /\ At(w, "decided")
    /\ ~worker[w].wanted
    /\ Event(w) \in Notifications
    /\ outbox' = Without(Event(w))
    /\ published' = published \cup {Event(w)}
    /\ Turns(w, "poll")
    /\ UNCHANGED <<email_enabled, emailed, queue, granted, sent>>

(* The user wants no e-mail for it, or it is no notification.              *)
PublishPlain(w) ==
    /\ At(w, "decided")
    /\ ~worker[w].wanted
    /\ outbox' = Without(Event(w))
    /\ published' = published \cup {Event(w)}
    /\ Turns(w, "poll")
    /\ UNCHANGED <<email_enabled, emailed, queue, granted, sent>>

(* The job's key is unique; PublishedOnce says it is never taken already.  *)
PublishWithJob(w) ==
    /\ At(w, "decided")
    /\ worker[w].wanted
    /\ LET n == Event(w)
       IN  /\ ~HasJob(n)
           /\ Queue!Grant(n, Attempts)
           /\ granted' = [granted EXCEPT ![n] = Attempts]
           /\ outbox' = Without(n)
           /\ published' = published \cup {n}
    /\ Turns(w, "poll")
    /\ UNCHANGED <<email_enabled, emailed, sent>>

-----------------------------------------------------------------------------
(* run_once with a notification.email job: send, set emailed_at, finish.   *)

StartEmail(w) ==
    /\ At(w, "poll")
    /\ \E n \in Notifications :
         /\ Queue!Acquire(w, n)
         /\ worker' = [worker EXCEPT ![w] = [@ EXCEPT !.pc = "emailing", !.event = n]]
    /\ UNCHANGED <<outbox, published, email_enabled, emailed, granted, sent>>

(* No job is due, or it is of another type.                                *)
OtherJob(w) ==
    /\ At(w, "poll")
    /\ Turns(w, "outbox")
    /\ UNCHANGED <<outbox, published, email_enabled, emailed, queue, granted, sent>>

(* Seeded fault: the handler sends again if its commit fails.              *)
SendEmailAgain(w) ==
    /\ At(w, "emailing") \/ At(w, "sent")
    /\ sent' = [sent EXCEPT ![Event(w)] = @ + 1]
    /\ Goes(w, "sent")
    /\ UNCHANGED <<outbox, published, email_enabled, emailed, queue, granted>>

SendEmail(w) ==
    /\ At(w, "emailing")
    /\ sent' = [sent EXCEPT ![Event(w)] = @ + 1]
    /\ Goes(w, "sent")
    /\ UNCHANGED <<outbox, published, email_enabled, emailed, queue, granted>>

(* SMTP fails, before or after it accepted the message: fail_job.          *)
SendRaises(w) ==
    /\ At(w, "emailing")
    /\ \/ UNCHANGED sent
       \/ sent' = [sent EXCEPT ![Event(w)] = @ + 1]
    /\ Goes(w, "ended")
    /\ UNCHANGED <<outbox, published, email_enabled, emailed, queue, granted>>

(* Seeded fault: emailed_at is set before the message is sent.             *)
RecordBeforeSending(w) ==
    /\ At(w, "emailing")
    /\ emailed' = emailed \cup {Event(w)}
    /\ Goes(w, "emailing")
    /\ UNCHANGED <<outbox, published, email_enabled, queue, granted, sent>>

RecordEmailed(w) ==
    /\ At(w, "sent")
    /\ emailed' = emailed \cup {Event(w)}
    /\ Goes(w, "ended")
    /\ UNCHANGED <<outbox, published, email_enabled, queue, granted, sent>>

(* complete_job or fail_job.                                               *)
FinishEmail(w) ==
    /\ At(w, "ended")
    /\ Queue!Free({Event(w)})
    /\ Turns(w, "outbox")
    /\ UNCHANGED <<outbox, published, email_enabled, emailed, granted, sent>>

(* The process dies; locks and uncommitted changes go with it.             *)
Crash(w) ==
    /\ ~At(w, "down")
    /\ Turns(w, "down")
    /\ UNCHANGED <<outbox, published, email_enabled, emailed, queue, granted, sent>>

Restart(w) ==
    /\ At(w, "down")
    /\ Turns(w, "poll")
    /\ UNCHANGED <<outbox, published, email_enabled, emailed, queue, granted, sent>>

LoseHold ==
    /\ \E n \in Notifications : holder[n] # NoWorker /\ Queue!Free({n})
    /\ UNCHANGED <<outbox, published, email_enabled, emailed, worker, granted, sent>>

-----------------------------------------------------------------------------

Init ==
    /\ outbox = <<>>
    /\ published = {}
    /\ email_enabled = FALSE
    /\ emailed = {}
    /\ worker = [w \in Workers |-> Fresh]
    /\ Queue!Init
    /\ granted = [n \in Notifications |-> 0]
    /\ sent = [n \in Notifications |-> 0]

Publisher(w) ==
    \/ LockEvent(w)
    \/ NothingToPublish(w)
    \/ ReadPreference(w)
    \/ PublishPlain(w)
    \/ PublishWithJob(w)

RunOnce(w) ==
    \/ StartEmail(w)
    \/ OtherJob(w)
    \/ SendEmail(w)
    \/ SendRaises(w)
    \/ RecordEmailed(w)
    \/ FinishEmail(w)

Next ==
    \/ \E e \in Events : Record(e)
    \/ UpdatePreferences
    \/ \E n \in Notifications : RetryEmail(n)
    \/ \E w \in Workers : Publisher(w) \/ RunOnce(w) \/ Crash(w) \/ Restart(w)
    \/ LoseHold

Spec == Init /\ [][Next]_vars

(* Processes that are up go on, and dead ones are started again.           *)
Fairness == \A w \in Workers : WF_vars(Publisher(w) \/ RunOnce(w) \/ Restart(w))

FairSpec == Spec /\ Fairness

-----------------------------------------------------------------------------

(* Every variable keeps its type; a process working on no event holds      *)
(* none, and a locked event is one not yet published.                      *)
TypeOK ==
    /\ outbox \in Seq(Events) /\ IsInjective(outbox)
    /\ published \subseteq Events
    /\ email_enabled \in BOOLEAN
    /\ emailed \subseteq Notifications
    /\ worker \in [Workers -> Process]
    /\ holder \in [Notifications -> Workers \cup {NoWorker}]
    /\ left \in [Notifications -> 0 .. Attempts]
    /\ granted \in [Notifications -> 0 .. MaxGranted]
    /\ sent \in [Notifications -> 0 .. MaxGranted]
    /\ \A w \in Workers :
         /\ worker[w].pc \in {"poll", "outbox", "down"} <=> Event(w) = NoEvent
         /\ worker[w].pc \in Publishing => Event(w) \in ToSet(outbox)

(* However many processes publish, and wherever they die, an event is      *)
(* either waiting or published, and it is published once: one job, and the *)
(* publisher never meets the unique key of a job it already made.          *)
PublishedOnce ==
    /\ ToSet(outbox) \cap published = {}
    /\ \A w \in Workers : worker[w].wanted => ~HasJob(Event(w))

(* At-least-once delivery is bounded: a message goes out at most once per  *)
(* attempt granted, though processes die after sending it, lose their      *)
(* hold, or see SMTP fail after it took the message.                       *)
EmailBudget ==
    \A n \in Notifications : sent[n] + left[n] + Cardinality(Sending(n)) <= granted[n]

(* emailed_at tells the truth: the message was sent, for an event that was *)
(* published.                                                              *)
EmailedWasSent == \A n \in emailed : sent[n] > 0 /\ n \in published

(* Once the processes stop dying no event is left in the outbox: not those *)
(* a dead publisher had locked, not those another process is publishing,   *)
(* and not behind the jobs that run in between.                            *)
EventsArePublished ==
    (\A w \in Workers : <>[](~At(w, "down")))
        => \A e \in Events : (e \in ToSet(outbox)) ~> (e \in published)

=============================================================================
