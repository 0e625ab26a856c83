--------------------- MODULE NotificationDeliveryProofs ---------------------
(***************************************************************************)
(* Theorems about the outbox and the notification mails, for any events,   *)
(* any number of worker processes, any attempts budget and any number of   *)
(* manual retries.                                                         *)
(***************************************************************************)
EXTENDS NotificationDelivery, BoundedSets, FiniteSetTheorems, SequenceTheorems, TLAPS

-----------------------------------------------------------------------------
(* The outbox as a sequence without repetitions.                           *)

(* Without one of its elements, a sequence without repetitions has the     *)
(* other ones.                                                             *)
LEMMA RemoveAtSet ==
    ASSUME NEW S, NEW s \in Seq(S), NEW i \in 1 .. Len(s), IsInjective(s)
    PROVE  /\ RemoveAt(s, i) \in Seq(S)
           /\ IsInjective(RemoveAt(s, i))
           /\ ToSet(RemoveAt(s, i)) = ToSet(s) \ {s[i]}
<1> DEFINE r == RemoveAt(s, i)
<1>1. /\ r \in Seq(S)
      /\ DOMAIN r = 1 .. (Len(s) - 1) /\ DOMAIN s = 1 .. Len(s)
      /\ \A k \in 1 .. (Len(s) - 1) : r[k] = IF k < i THEN s[k] ELSE s[k + 1]
  BY RemovedAt, LenProperties
<1> HIDE DEF r
<1>2. IsInjective(r)
  <2> SUFFICES ASSUME NEW k \in DOMAIN r, NEW n \in DOMAIN r, k < n
               PROVE  r[k] # r[n]
    BY <1>1 DEF IsInjective
  <2>1. /\ r[k] = IF k < i THEN s[k] ELSE s[k + 1]
        /\ r[n] = IF n < i THEN s[n] ELSE s[n + 1]
        /\ {k, k + 1, n, n + 1} \subseteq 1 .. Len(s)
    BY <1>1
  <2>2. QED
    BY <1>1, <2>1 DEF IsInjective
<1>3. ASSUME NEW k \in DOMAIN r
      PROVE  r[k] \in ToSet(s) \ {s[i]}
  <2> DEFINE n == IF k < i THEN k ELSE k + 1
  <2>1. n \in DOMAIN s /\ n # i /\ r[k] = s[n]
    BY <1>1
  <2> HIDE DEF n
  <2>2. s[n] # s[i]
    BY <1>1, <2>1 DEF IsInjective
  <2>3. s[n] \in ToSet(s)
    BY <2>1 DEF ToSet
  <2>4. QED
    BY <2>1, <2>2, <2>3
<1>4. ASSUME NEW k \in DOMAIN s, k # i
      PROVE  \E n \in DOMAIN r : r[n] = s[k]
  <2>1. CASE k < i
    BY <1>1, <1>4, <2>1
  <2>2. CASE k > i
    <3>1. k - 1 \in DOMAIN r /\ r[k - 1] = s[k]
      BY <1>1, <1>4, <2>2
    <3>2. QED
      BY <3>1
  <2>3. QED
    BY <2>1, <2>2, <1>1, <1>4
<1>5. ToSet(r) = ToSet(s) \ {s[i]}
  BY <1>1, <1>3, <1>4 DEF ToSet
<1>6. QED
  BY <1>1, <1>2, <1>5 DEF r

LEMMA InsertAtSet ==
    ASSUME NEW S, NEW s \in Seq(S), NEW e \in S, NEW i \in 1 .. (Len(s) + 1),
           IsInjective(s), e \notin ToSet(s)
    PROVE  /\ InsertAt(s, i, e) \in Seq(S)
           /\ IsInjective(InsertAt(s, i, e))
           /\ ToSet(InsertAt(s, i, e)) = ToSet(s) \cup {e}
<1> DEFINE r == InsertAt(s, i, e)
<1>1. /\ r \in Seq(S)
      /\ DOMAIN r = 1 .. (Len(s) + 1) /\ DOMAIN s = 1 .. Len(s) /\ Len(s) \in Nat
      /\ \A k \in 1 .. (Len(s) + 1) :
           r[k] = IF k < i THEN s[k] ELSE IF k = i THEN e ELSE s[k - 1]
  BY InsertedAt, LenProperties
<1> HIDE DEF r
<1>2. \A k \in DOMAIN s : s[k] # e
  BY DEF ToSet
<1>3. ASSUME NEW k \in DOMAIN r, NEW n \in DOMAIN r, k < n
      PROVE  r[k] # r[n]
  <2>1. /\ k < i => k \in DOMAIN s
        /\ k > i => k - 1 \in DOMAIN s
        /\ n < i => n \in DOMAIN s
        /\ n > i => n - 1 \in DOMAIN s
    BY <1>1, <1>3
  <2>2. /\ r[k] = IF k < i THEN s[k] ELSE IF k = i THEN e ELSE s[k - 1]
        /\ r[n] = IF n < i THEN s[n] ELSE IF n = i THEN e ELSE s[n - 1]
        /\ k \in Int /\ n \in Int /\ i \in Int
    BY <1>1
  <2>3. CASE n < i
    BY <2>1, <2>2, <2>3, <1>3 DEF IsInjective
  <2>4. CASE n = i
    BY <2>1, <2>2, <2>4, <1>3, <1>2
  <2>5. CASE n > i /\ k <= i
    BY <2>1, <2>2, <2>5, <1>3, <1>2 DEF IsInjective
  <2>6. CASE k > i
    BY <2>1, <2>2, <2>6, <1>3 DEF IsInjective
  <2>7. QED
    BY <2>2, <2>3, <2>4, <2>5, <2>6
<1>4. IsInjective(r)
  BY <1>1, <1>3 DEF IsInjective
<1>5. ASSUME NEW k \in DOMAIN r
      PROVE  r[k] \in ToSet(s) \cup {e}
  <2>1. /\ k < i => k \in DOMAIN s
        /\ k > i => k - 1 \in DOMAIN s
        /\ r[k] = IF k < i THEN s[k] ELSE IF k = i THEN e ELSE s[k - 1]
        /\ k \in Int /\ i \in Int
    BY <1>1
  <2>2. QED
    BY <2>1 DEF ToSet
<1>6. ASSUME NEW k \in DOMAIN s
      PROVE  \E n \in DOMAIN r : r[n] = s[k]
  <2>1. CASE k < i
    BY <1>1, <2>1
  <2>2. CASE k >= i
    <3>1. k + 1 \in DOMAIN r /\ r[k + 1] = s[k]
      BY <1>1, <2>2
    <3>2. QED
      BY <3>1
  <2>3. QED
    BY <2>1, <2>2, <1>1
<1>7. e \in ToSet(r)
  <2>1. i \in DOMAIN r /\ r[i] = e
    BY <1>1
  <2>2. QED
    BY <2>1 DEF ToSet
<1>8. ToSet(r) = ToSet(s) \cup {e}
  <2>1. \A x \in ToSet(r) : x \in ToSet(s) \cup {e}
    BY <1>5 DEF ToSet
  <2>2. \A x \in ToSet(s) : x \in ToSet(r)
    BY <1>6 DEF ToSet
  <2>3. QED
    BY <2>1, <2>2, <1>7
<1>9. QED
  BY <1>1, <1>4, <1>8 DEF r

-----------------------------------------------------------------------------
(* The inductive invariant: what is known of an event while it is locked,  *)
(* and of a mail while it is sent.                                         *)

(* Nobody else locks an event that is locked.                              *)
OnePublisher ==
    \A v, w \in Workers :
        (worker[v].pc \in Publishing /\ worker[w].pc \in Publishing /\ Event(v) = Event(w))
            => v = w

(* The preference is read for an event that will be published.             *)
WantedIsDecided ==
    \A w \in Workers : worker[w].wanted => At(w, "decided") /\ Event(w) \in Notifications

JobIsPublished == \A n \in Notifications : HasJob(n) => n \in published

(* A mail is sent for a job; past sending, it was sent.                    *)
EmailHasJob ==
    \A w \in Workers :
        /\ worker[w].pc \in Emailing => Event(w) \in Notifications /\ HasJob(Event(w))
        /\ At(w, "sent") => sent[Event(w)] > 0

FinitelySending == \A n \in Notifications : IsFiniteSet(Sending(n))

IInv ==
    /\ TypeOK
    /\ OnePublisher
    /\ WantedIsDecided
    /\ JobIsPublished
    /\ EmailHasJob
    /\ FinitelySending
    /\ PublishedOnce
    /\ EmailBudget
    /\ EmailedWasSent

LEMMA FreshType == Fresh \in Process
  BY DEF Fresh, Process

LEMMA WithoutSet ==
    ASSUME TypeOK, NEW e \in ToSet(outbox)
    PROVE  /\ Without(e) \in Seq(Events)
           /\ IsInjective(Without(e))
           /\ ToSet(Without(e)) = ToSet(outbox) \ {e}
<1> DEFINE i == CHOOSE i \in DOMAIN outbox : outbox[i] = e
<1>1. i \in DOMAIN outbox /\ outbox[i] = e
  BY DEF ToSet
<1>2. i \in 1 .. Len(outbox) /\ outbox \in Seq(Events) /\ IsInjective(outbox)
  BY <1>1, LenProperties DEF TypeOK
<1>3. Without(e) = RemoveAt(outbox, i)
  BY DEF Without
<1> HIDE DEF i
<1>4. QED
  BY <1>1, <1>2, <1>3, RemoveAtSet

(* A step that moves one process changes the senders of a mail by at most  *)
(* that process.                                                           *)
LEMMA SendingMoves ==
    ASSUME TypeOK, FinitelySending, NEW w \in Workers, NEW p,
           worker' = [worker EXCEPT ![w] = p], NEW n \in Notifications
    PROVE  /\ Sending(n)' = IF p.pc = "emailing" /\ p.event = n THEN Sending(n) \cup {w}
                            ELSE Sending(n) \ {w}
           /\ IsFiniteSet(Sending(n)')
           /\ Cardinality(Sending(n)) \in Nat
           /\ Cardinality(Sending(n)') \in Nat
           /\ Cardinality(Sending(n)') <= Cardinality(Sending(n)) + 1
           /\ ~(p.pc = "emailing" /\ p.event = n)
                 => Cardinality(Sending(n)') <= Cardinality(Sending(n))
           /\ (~(p.pc = "emailing" /\ p.event = n) /\ w \in Sending(n))
                 => Cardinality(Sending(n)') = Cardinality(Sending(n)) - 1
<1>1. Sending(n)' = IF p.pc = "emailing" /\ p.event = n THEN Sending(n) \cup {w}
                    ELSE Sending(n) \ {w}
  BY DEF Sending, At, Event, TypeOK
<1>2. IsFiniteSet(Sending(n)) /\ Cardinality(Sending(n)) \in Nat
  BY FS_CardinalityType DEF FinitelySending
<1>3. CASE p.pc = "emailing" /\ p.event = n
  <2>1. /\ IsFiniteSet(Sending(n) \cup {w})
        /\ Cardinality(Sending(n) \cup {w}) =
             IF w \in Sending(n) THEN Cardinality(Sending(n)) ELSE Cardinality(Sending(n)) + 1
    BY <1>2, FS_AddElement
  <2>2. Sending(n)' = Sending(n) \cup {w}
    BY <1>1, <1>3
  <2>3. QED
    BY <1>1, <1>2, <1>3, <2>1, <2>2
<1>4. CASE ~(p.pc = "emailing" /\ p.event = n)
  <2>1. /\ IsFiniteSet(Sending(n) \ {w})
        /\ Cardinality(Sending(n) \ {w}) =
             IF w \in Sending(n) THEN Cardinality(Sending(n)) - 1 ELSE Cardinality(Sending(n))
    BY <1>2, FS_RemoveElement
  <2>2. Cardinality(Sending(n) \ {w}) \in Nat
    BY <2>1, FS_CardinalityType
  <2>3. QED
    BY <1>1, <1>2, <1>4, <2>1, <2>2
<1>5. QED
  BY <1>3, <1>4

LEMMA InitInv == Init => IInv
<1> SUFFICES ASSUME Init PROVE IInv
  OBVIOUS
<1>1. /\ outbox \in Seq(Events) /\ IsInjective(outbox) /\ ToSet(outbox) = {}
      /\ worker \in [Workers -> Process]
      /\ \A w \in Workers : worker[w] = Fresh
  <2>1. outbox = <<>> /\ DOMAIN outbox = {}
    BY EmptySeq DEF Init
  <2>2. outbox \in Seq(Events)
    BY EmptySeq DEF Init
  <2>3. IsInjective(outbox) /\ ToSet(outbox) = {}
    BY <2>1 DEF IsInjective, ToSet
  <2>4. QED
    BY <2>2, <2>3, FreshType DEF Init
<1>2. /\ holder \in [Notifications -> Workers \cup {NoWorker}]
      /\ left \in [Notifications -> 0 .. Attempts]
      /\ granted \in [Notifications -> 0 .. MaxGranted]
      /\ sent \in [Notifications -> 0 .. MaxGranted]
      /\ \A n \in Notifications : left[n] = 0 /\ granted[n] = 0 /\ sent[n] = 0
  BY DeliveryAssumption DEF Init, Queue!Init
<1>3. Fresh.pc = "poll" /\ Fresh.event = NoEvent /\ Fresh.wanted = FALSE
  BY DEF Fresh
<1>4. TypeOK
  BY <1>1, <1>2, <1>3 DEF Init, TypeOK, Event, Publishing
<1>5. \A n \in Notifications : Sending(n) = {}
  BY <1>1, <1>3 DEF Sending, At
<1>6. FinitelySending
  BY <1>5, FS_EmptySet DEF FinitelySending
<1>7. EmailBudget
  <2>1. \A n \in Notifications : Cardinality(Sending(n)) = 0
    BY <1>5, FS_EmptySet
  <2>2. QED
    BY <1>2, <2>1 DEF EmailBudget
<1>8. OnePublisher /\ WantedIsDecided /\ JobIsPublished /\ EmailHasJob
  BY <1>1, <1>2, <1>3 DEF OnePublisher, WantedIsDecided, JobIsPublished, EmailHasJob, At,
     HasJob, Publishing, Emailing
<1>9. PublishedOnce /\ EmailedWasSent
  BY <1>1, <1>3 DEF Init, PublishedOnce, EmailedWasSent
<1>10. QED
  BY <1>4, <1>6, <1>7, <1>8, <1>9 DEF IInv

LEMMA RecordInv ==
    ASSUME IInv, NEW e \in Events, Record(e)
    PROVE  IInv'
<1>1. /\ outbox' \in Seq(Events) /\ IsInjective(outbox')
      /\ ToSet(outbox') = ToSet(outbox) \cup {e}
      /\ e \notin published
  <2>1. PICK i \in 1 .. Len(outbox) + 1 : outbox' = InsertAt(outbox, i, e)
    BY DEF Record
  <2>2. outbox \in Seq(Events) /\ IsInjective(outbox) /\ e \notin ToSet(outbox) \cup published
    BY DEF Record, Exists, IInv, TypeOK
  <2>3. QED
    BY <2>1, <2>2, InsertAtSet
<1>2. UNCHANGED <<published, email_enabled, emailed, worker, holder, left, granted, sent>>
  BY DEF Record, queue
<1> USE <1>1, <1>2
<1>3. TypeOK'
  BY DEF IInv, TypeOK, Event
<1>4. \A n \in Notifications : Sending(n)' = Sending(n)
  BY DEF Sending, At, Event
<1>5. FinitelySending' /\ EmailBudget'
  BY <1>4 DEF IInv, FinitelySending, EmailBudget
<1>6. OnePublisher' /\ WantedIsDecided' /\ JobIsPublished' /\ EmailHasJob'
  BY DEF IInv, OnePublisher, WantedIsDecided, JobIsPublished, EmailHasJob, At, HasJob, Event
<1>7. PublishedOnce' /\ EmailedWasSent'
  BY DEF IInv, PublishedOnce, EmailedWasSent, HasJob, Event
<1>8. QED
  BY <1>3, <1>5, <1>6, <1>7 DEF IInv

(* A new grant, a lost hold, a changed preference: the processes stand.    *)
LEMMA QueueInv ==
    ASSUME IInv,
           UpdatePreferences \/ LoseHold \/ \E n \in Notifications : RetryEmail(n)
    PROVE  IInv'
<1>1. UNCHANGED <<outbox, published, emailed, worker, sent>>
  BY DEF UpdatePreferences, LoseHold, RetryEmail
<1>2. \A n \in Notifications : Sending(n)' = Sending(n)
  BY <1>1 DEF Sending, At, Event
<1>3. \A n \in Notifications : Cardinality(Sending(n)) \in Nat
  BY FS_CardinalityType DEF IInv, FinitelySending
<1>4. /\ email_enabled' \in BOOLEAN
      /\ holder' \in [Notifications -> Workers \cup {NoWorker}]
      /\ left' \in [Notifications -> 0 .. Attempts]
      /\ granted' \in [Notifications -> 0 .. MaxGranted]
      /\ \A n \in Notifications :
           \/ left'[n] = left[n] /\ granted'[n] = granted[n]
           \/ left'[n] = Attempts /\ granted'[n] = granted[n] + Attempts /\ granted[n] > 0
  <2> USE DeliveryAssumption DEF IInv, TypeOK, queue
  <2>1. CASE UpdatePreferences
    BY <2>1 DEF UpdatePreferences
  <2>2. CASE LoseHold
    BY <2>2 DEF LoseHold, Queue!Free
  <2>3. ASSUME NEW n \in Notifications, RetryEmail(n)
        PROVE  /\ UNCHANGED email_enabled
               /\ holder' = [holder EXCEPT ![n] = NoWorker]
               /\ left' = [left EXCEPT ![n] = Attempts]
               /\ granted' = [granted EXCEPT ![n] = @ + Attempts]
               /\ granted[n] > 0 /\ granted[n] + Attempts <= MaxGranted
    BY <2>3 DEF RetryEmail, HasJob, Queue!Grant
  <2>4. CASE \E n \in Notifications : RetryEmail(n)
    <3>1. PICK n \in Notifications : RetryEmail(n)
      BY <2>4
    <3>2. /\ granted[n] \in 0 .. MaxGranted /\ granted[n] + Attempts \in 0 .. MaxGranted
          /\ Attempts \in 0 .. Attempts
      BY <2>3, <3>1
    <3>3. holder' \in [Notifications -> Workers \cup {NoWorker}]
      BY <2>3, <3>1
    <3>4. left' \in [Notifications -> 0 .. Attempts]
      BY <2>3, <3>1, <3>2, ZenonT(40)
    <3>5. granted' \in [Notifications -> 0 .. MaxGranted]
      <4>1. granted' = [granted EXCEPT ![n] = granted[n] + Attempts]
        BY <2>3, <3>1
      <4>2. QED
        BY <3>2, <4>1
    <3>6. /\ holder' \in [Notifications -> Workers \cup {NoWorker}]
          /\ left' \in [Notifications -> 0 .. Attempts]
          /\ granted' \in [Notifications -> 0 .. MaxGranted]
      BY <3>3, <3>4, <3>5
    <3>7. ASSUME NEW m \in Notifications
          PROVE  \/ left'[m] = left[m] /\ granted'[m] = granted[m]
                 \/ /\ left'[m] = Attempts /\ granted'[m] = granted[m] + Attempts
                    /\ granted[m] > 0
      BY <2>3, <3>1
    <3>8. email_enabled' \in BOOLEAN
      BY <2>3, <3>1
    <3>9. QED
      BY <3>6, <3>7, <3>8
  <2>5. QED
    BY <2>1, <2>2, <2>4
<1>5. \A n \in Notifications : HasJob(n)' <=> HasJob(n)
  BY <1>4, DeliveryAssumption DEF HasJob, IInv, TypeOK
<1>6. TypeOK'
  BY <1>1, <1>4 DEF IInv, TypeOK, Event
<1>7. FinitelySending'
  BY <1>2 DEF IInv, FinitelySending
<1>8. EmailBudget'
  <2> SUFFICES ASSUME NEW n \in Notifications
               PROVE  sent[n] + left'[n] + Cardinality(Sending(n)) <= granted'[n]
    BY <1>1, <1>2 DEF EmailBudget
  <2>1. /\ sent[n] \in Nat /\ left[n] \in Nat /\ granted[n] \in Nat
        /\ left'[n] \in Nat /\ granted'[n] \in Nat
    BY <1>4, DeliveryAssumption DEF IInv, TypeOK
  <2>2. sent[n] + left[n] + Cardinality(Sending(n)) <= granted[n]
    BY DEF IInv, EmailBudget
  <2>3. QED
    BY <1>3, <1>4, <2>1, <2>2, DeliveryAssumption
<1>9. OnePublisher' /\ WantedIsDecided' /\ JobIsPublished' /\ EmailHasJob'
  BY <1>1, <1>4, <1>5
     DEF IInv, TypeOK, OnePublisher, WantedIsDecided, JobIsPublished, EmailHasJob, At, HasJob, Event
<1>10. PublishedOnce' /\ EmailedWasSent'
  <2>1. \A w \in Workers : worker[w].wanted => Event(w) \in Notifications
    BY DEF IInv, WantedIsDecided
  <2>2. QED
    BY <1>1, <1>4, <1>5, <2>1 DEF IInv, PublishedOnce, EmailedWasSent, Event
<1>11. QED
  BY <1>6, <1>7, <1>8, <1>9, <1>10 DEF IInv

-----------------------------------------------------------------------------
(* How one process moves.                                                  *)

LEMMA TurnsMoves ==
    ASSUME TypeOK, NEW w \in Workers, NEW pc \in {"poll", "outbox", "down"}, Turns(w, pc)
    PROVE  /\ worker' \in [Workers -> Process]
           /\ worker'[w].pc = pc
           /\ worker'[w].event = NoEvent
           /\ worker'[w].wanted = FALSE
           /\ \A v \in Workers \ {w} : worker'[v] = worker[v]
<1> DEFINE q == [Fresh EXCEPT !.pc = pc]
<1>1. q \in Process /\ q.pc = pc /\ q.event = NoEvent /\ q.wanted = FALSE
  BY FreshType DEF Fresh, Process
<1>2. worker' = [worker EXCEPT ![w] = q]
  BY DEF Turns
<1> HIDE DEF q
<1>3. QED
  BY <1>1, <1>2 DEF TypeOK

LEMMA TurnsSending ==
    ASSUME TypeOK, FinitelySending, NEW w \in Workers,
           NEW pc \in {"poll", "outbox", "down"}, Turns(w, pc), NEW n \in Notifications
    PROVE  /\ IsFiniteSet(Sending(n)')
           /\ Cardinality(Sending(n)) \in Nat
           /\ Cardinality(Sending(n)') \in Nat
           /\ Cardinality(Sending(n)') <= Cardinality(Sending(n))
<1> DEFINE q == [Fresh EXCEPT !.pc = pc]
<1>1. q.pc # "emailing"
  BY DEF Fresh
<1>2. worker' = [worker EXCEPT ![w] = q]
  BY DEF Turns
<1> HIDE DEF q
<1>3. QED
  BY <1>1, <1>2, SendingMoves

LEMMA GoesMoves ==
    ASSUME TypeOK, NEW w \in Workers,
           NEW pc \in {"poll", "outbox", "down"} \cup Publishing \cup Emailing, Goes(w, pc)
    PROVE  /\ worker' = [worker EXCEPT ![w] = [worker[w] EXCEPT !.pc = pc]]
           /\ worker' \in [Workers -> Process]
           /\ worker'[w].pc = pc
           /\ worker'[w].event = worker[w].event
           /\ worker'[w].wanted = worker[w].wanted
           /\ \A v \in Workers \ {w} : worker'[v] = worker[v]
<1> DEFINE q == [worker[w] EXCEPT !.pc = pc]
<1>1. worker[w] \in Process
  BY DEF TypeOK
<1>2. /\ q \in Process /\ q.pc = pc
      /\ q.event = worker[w].event /\ q.wanted = worker[w].wanted
  BY <1>1 DEF Process
<1>3. worker' = [worker EXCEPT ![w] = q]
  BY DEF Goes
<1> HIDE DEF q
<1>4. QED
  BY <1>2, <1>3 DEF TypeOK, q

-----------------------------------------------------------------------------
(* The steps of a process.                                                 *)

(* A process that turns away leaves the rest as it was, but for who holds  *)
(* a job.                                                                  *)
LEMMA TurnsInv ==
    ASSUME IInv, NEW w \in Workers, NEW pc \in {"poll", "outbox", "down"}, Turns(w, pc),
           UNCHANGED <<outbox, published, email_enabled, emailed, left, granted, sent>>,
           holder' \in [Notifications -> Workers \cup {NoWorker}]
    PROVE  IInv'
<1>1. /\ worker' \in [Workers -> Process]
      /\ worker'[w].pc = pc
      /\ worker'[w].event = NoEvent
      /\ worker'[w].wanted = FALSE
      /\ \A v \in Workers \ {w} : worker'[v] = worker[v]
  BY TurnsMoves DEF IInv
<1>2. pc \notin Publishing \cup Emailing
  BY DEF Publishing, Emailing
<1>3. TypeOK'
  BY <1>1, <1>2 DEF IInv, TypeOK, Event
<1>4. \A n \in Notifications :
        /\ IsFiniteSet(Sending(n)')
        /\ Cardinality(Sending(n)) \in Nat
        /\ Cardinality(Sending(n)') \in Nat
        /\ Cardinality(Sending(n)') <= Cardinality(Sending(n))
  BY TurnsSending DEF IInv
<1>5. FinitelySending' /\ EmailBudget'
  BY <1>4, DeliveryAssumption DEF IInv, TypeOK, FinitelySending, EmailBudget
<1>6. OnePublisher' /\ WantedIsDecided' /\ JobIsPublished'
  BY <1>1, <1>2 DEF IInv, OnePublisher, WantedIsDecided, JobIsPublished, At, HasJob, Event
<1>7. EmailHasJob'
  BY <1>1, <1>2 DEF IInv, EmailHasJob, At, HasJob, Event, Emailing
<1>8. PublishedOnce' /\ EmailedWasSent'
  BY <1>1 DEF IInv, PublishedOnce, EmailedWasSent, HasJob, Event
<1>9. QED
  BY <1>3, <1>5, <1>6, <1>7, <1>8 DEF IInv

LEMMA TurningInv ==
    ASSUME IInv, NEW w \in Workers,
           NothingToPublish(w) \/ OtherJob(w) \/ FinishEmail(w) \/ Crash(w) \/ Restart(w)
    PROVE  IInv'
<1>1. /\ Turns(w, "poll") \/ Turns(w, "outbox") \/ Turns(w, "down")
      /\ UNCHANGED <<outbox, published, email_enabled, emailed, left, granted, sent>>
  BY DEF NothingToPublish, OtherJob, FinishEmail, Crash, Restart, queue, Queue!Free
<1>2. holder' \in [Notifications -> Workers \cup {NoWorker}]
  BY DEF IInv, TypeOK, NothingToPublish, OtherJob, FinishEmail, Crash, Restart, queue, Queue!Free
<1>3. QED
  BY <1>1, <1>2, TurnsInv

(* Locking takes an event nobody else has locked.                          *)
LEMMA LockInv ==
    ASSUME IInv, NEW w \in Workers, LockEvent(w)
    PROVE  IInv'
<1>1. PICK e \in ToSet(outbox) :
        /\ Oldest(e)
        /\ worker' = [worker EXCEPT ![w] = [@ EXCEPT !.pc = "locked", !.event = e]]
  BY DEF LockEvent
<1>2. UNCHANGED <<outbox, published, email_enabled, emailed, holder, left, granted, sent>>
  BY DEF LockEvent, queue
<1>3. e \in Events /\ Unlocked(e) /\ At(w, "outbox")
  BY <1>1 DEF Oldest, ToSet, IInv, TypeOK, LockEvent
<1> DEFINE q == [worker[w] EXCEPT !.pc = "locked", !.event = e]
<1>4. worker' = [worker EXCEPT ![w] = q]
  BY <1>1
<1>5. q \in Process /\ q.pc = "locked" /\ q.event = e /\ q.wanted = worker[w].wanted
  BY <1>3 DEF IInv, TypeOK, Process, Publishing
<1> HIDE DEF q
<1>6. /\ worker' \in [Workers -> Process]
      /\ worker'[w] = q
      /\ \A v \in Workers \ {w} : worker'[v] = worker[v]
  BY <1>4, <1>5 DEF IInv, TypeOK
<1>7. "locked" \in Publishing /\ "locked" \notin Emailing
  BY DEF Publishing, Emailing
<1>8. TypeOK'
  BY <1>1, <1>2, <1>3, <1>5, <1>6, <1>7, DeliveryAssumption DEF IInv, TypeOK, Event
<1>9. \A n \in Notifications :
        /\ IsFiniteSet(Sending(n)')
        /\ Cardinality(Sending(n)) \in Nat
        /\ Cardinality(Sending(n)') \in Nat
        /\ Cardinality(Sending(n)') <= Cardinality(Sending(n))
  BY <1>4, <1>5, SendingMoves DEF IInv
<1>10. FinitelySending' /\ EmailBudget'
  BY <1>2, <1>9, DeliveryAssumption DEF IInv, TypeOK, FinitelySending, EmailBudget
<1>11. OnePublisher'
  BY <1>3, <1>5, <1>6 DEF IInv, OnePublisher, Unlocked, Event
<1>12. worker[w].wanted = FALSE
  BY <1>3 DEF IInv, WantedIsDecided, At, TypeOK, Process
<1>13. WantedIsDecided' /\ JobIsPublished'
  BY <1>2, <1>5, <1>6, <1>12 DEF IInv, WantedIsDecided, JobIsPublished, At, HasJob, Event
<1>14. EmailHasJob'
  BY <1>2, <1>5, <1>6, <1>7 DEF IInv, EmailHasJob, At, HasJob, Event
<1>15. PublishedOnce' /\ EmailedWasSent'
  BY <1>2, <1>5, <1>6, <1>12 DEF IInv, PublishedOnce, EmailedWasSent, HasJob, Event
<1>16. QED
  BY <1>8, <1>10, <1>11, <1>13, <1>14, <1>15 DEF IInv

(* A locked event is in the outbox, so it has no job yet.                  *)
LEMMA ReadInv ==
    ASSUME IInv, NEW w \in Workers, ReadPreference(w)
    PROVE  IInv'
<1> DEFINE q == [worker[w] EXCEPT !.pc = "decided",
                                  !.wanted = email_enabled /\ Event(w) \in Notifications]
<1>1. worker' = [worker EXCEPT ![w] = q]
  BY DEF ReadPreference
<1>2. UNCHANGED <<outbox, published, email_enabled, emailed, holder, left, granted, sent>>
  BY DEF ReadPreference, queue
<1>3. /\ q \in Process /\ q.pc = "decided" /\ q.event = Event(w)
      /\ q.wanted => Event(w) \in Notifications
  BY DEF IInv, TypeOK, Process, Publishing, Event
<1> HIDE DEF q
<1>4. /\ worker' \in [Workers -> Process]
      /\ worker'[w] = q
      /\ \A v \in Workers \ {w} : worker'[v] = worker[v]
  BY <1>1, <1>3 DEF IInv, TypeOK
<1>5. /\ "decided" \in Publishing /\ "decided" \notin Emailing
      /\ worker[w].pc \in Publishing
  BY DEF Publishing, Emailing, ReadPreference, At
<1>6. Event(w) \in ToSet(outbox) /\ Event(w) # NoEvent
  BY <1>5 DEF IInv, TypeOK, Publishing
<1>7. TypeOK'
  BY <1>2, <1>3, <1>4, <1>5, <1>6 DEF IInv, TypeOK, Event
<1>8. \A n \in Notifications :
        /\ IsFiniteSet(Sending(n)')
        /\ Cardinality(Sending(n)) \in Nat
        /\ Cardinality(Sending(n)') \in Nat
        /\ Cardinality(Sending(n)') <= Cardinality(Sending(n))
  BY <1>1, <1>3, SendingMoves DEF IInv
<1>9. FinitelySending' /\ EmailBudget'
  BY <1>2, <1>8, DeliveryAssumption DEF IInv, TypeOK, FinitelySending, EmailBudget
<1>10. OnePublisher'
  BY <1>3, <1>4, <1>5 DEF IInv, OnePublisher, Event
<1>11. WantedIsDecided' /\ JobIsPublished'
  BY <1>2, <1>3, <1>4 DEF IInv, WantedIsDecided, JobIsPublished, At, HasJob, Event
<1>12. EmailHasJob'
  BY <1>2, <1>3, <1>4, <1>5 DEF IInv, EmailHasJob, At, HasJob, Event
<1>13. Event(w) \in Notifications => ~HasJob(Event(w))
  BY <1>6 DEF IInv, JobIsPublished, PublishedOnce
<1>14. PublishedOnce' /\ EmailedWasSent'
  BY <1>2, <1>3, <1>4, <1>13 DEF IInv, PublishedOnce, EmailedWasSent, HasJob, Event
<1>15. QED
  BY <1>7, <1>9, <1>10, <1>11, <1>12, <1>14 DEF IInv

(* Publishing takes the event out of the outbox; nobody else had it locked. *)
LEMMA PublishOutbox ==
    ASSUME IInv, NEW w \in Workers, At(w, "decided"), Turns(w, "poll"),
           outbox' = Without(Event(w)), published' = published \cup {Event(w)}
    PROVE  /\ outbox' \in Seq(Events) /\ IsInjective(outbox')
           /\ published' \subseteq Events
           /\ ToSet(outbox') \cap published' = {}
           /\ \A v \in Workers : worker'[v].pc \in Publishing => worker'[v].event \in ToSet(outbox')
           /\ OnePublisher'
<1>1. Event(w) \in ToSet(outbox) /\ worker[w].pc \in Publishing
  BY DEF IInv, TypeOK, At, Publishing
<1>2. /\ outbox' \in Seq(Events) /\ IsInjective(outbox')
      /\ ToSet(outbox') = ToSet(outbox) \ {Event(w)}
  BY <1>1, WithoutSet DEF IInv
<1>3. ToSet(outbox) \subseteq Events
  BY DEF IInv, TypeOK, ToSet
<1>4. /\ worker'[w].pc = "poll"
      /\ \A v \in Workers \ {w} : worker'[v] = worker[v]
  BY TurnsMoves DEF IInv
<1>5. "poll" \notin Publishing
  BY DEF Publishing
<1>6. published' \subseteq Events /\ ToSet(outbox') \cap published' = {}
  BY <1>1, <1>2, <1>3 DEF IInv, TypeOK, PublishedOnce
<1>7. ASSUME NEW v \in Workers, worker'[v].pc \in Publishing
      PROVE  worker'[v].event \in ToSet(outbox')
  <2>1. v # w /\ worker'[v] = worker[v]
    BY <1>4, <1>5, <1>7
  <2>2. Event(v) \in ToSet(outbox) /\ Event(v) # Event(w)
    BY <1>1, <1>7, <2>1 DEF IInv, TypeOK, OnePublisher
  <2>3. QED
    BY <1>2, <2>1, <2>2 DEF Event
<1>8. OnePublisher'
  BY <1>4, <1>5 DEF IInv, OnePublisher, Event
<1>9. QED
  BY <1>2, <1>6, <1>7, <1>8

(* What a publication does to the jobs: none, or the event's first grant.  *)
LEMMA PublishInv ==
    ASSUME IInv, NEW w \in Workers, At(w, "decided"), Turns(w, "poll"),
           outbox' = Without(Event(w)), published' = published \cup {Event(w)},
           UNCHANGED <<email_enabled, emailed, sent>>,
           holder' \in [Notifications -> Workers \cup {NoWorker}],
           \/ UNCHANGED <<left, granted>>
           \/ /\ worker[w].wanted
              /\ left' = [left EXCEPT ![Event(w)] = Attempts]
              /\ granted' = [granted EXCEPT ![Event(w)] = Attempts]
    PROVE  IInv'
<1>1. /\ worker' \in [Workers -> Process]
      /\ worker'[w].pc = "poll"
      /\ worker'[w].event = NoEvent
      /\ worker'[w].wanted = FALSE
      /\ \A v \in Workers \ {w} : worker'[v] = worker[v]
  BY TurnsMoves DEF IInv
<1>2. /\ outbox' \in Seq(Events) /\ IsInjective(outbox')
      /\ published' \subseteq Events
      /\ ToSet(outbox') \cap published' = {}
      /\ \A v \in Workers : worker'[v].pc \in Publishing => worker'[v].event \in ToSet(outbox')
      /\ OnePublisher'
  BY PublishOutbox
<1>3. /\ "poll" \notin Publishing /\ "poll" \notin Emailing
      /\ worker[w].pc \in Publishing /\ Event(w) \in ToSet(outbox)
  BY DEF Publishing, Emailing, At, IInv, TypeOK
<1>4. /\ left' \in [Notifications -> 0 .. Attempts]
      /\ granted' \in [Notifications -> 0 .. MaxGranted]
      /\ \A n \in Notifications :
           \/ left'[n] = left[n] /\ granted'[n] = granted[n]
           \/ /\ left'[n] = Attempts /\ granted'[n] = Attempts /\ granted[n] = 0
              /\ n = Event(w)
  <2>1. CASE UNCHANGED <<left, granted>>
    BY <2>1 DEF IInv, TypeOK
  <2>2. CASE /\ worker[w].wanted
             /\ left' = [left EXCEPT ![Event(w)] = Attempts]
             /\ granted' = [granted EXCEPT ![Event(w)] = Attempts]
    <3>1. Attempts \in 0 .. Attempts /\ Attempts \in 0 .. MaxGranted
      BY DeliveryAssumption
    <3>2. /\ left \in [Notifications -> 0 .. Attempts]
          /\ granted \in [Notifications -> 0 .. MaxGranted]
      BY DEF IInv, TypeOK
    <3>3. ~HasJob(Event(w)) /\ Event(w) \in Notifications
      BY <2>2 DEF IInv, PublishedOnce, WantedIsDecided
    <3>4. granted[Event(w)] = 0
      BY <3>2, <3>3, DeliveryAssumption DEF HasJob
    <3>5. QED
      BY <2>2, <3>1, <3>2, <3>4
  <2>3. QED
    BY <2>1, <2>2
<1>5. TypeOK'
  <2>1. \A v \in Workers :
          worker'[v].pc \in {"poll", "outbox", "down"} <=> worker'[v].event = NoEvent
    BY <1>1 DEF IInv, TypeOK, Event
  <2>2. QED
    BY <1>1, <1>2, <1>4, <2>1 DEF IInv, TypeOK, Event
<1>6. \A n \in Notifications :
        /\ IsFiniteSet(Sending(n)')
        /\ Cardinality(Sending(n)) \in Nat
        /\ Cardinality(Sending(n)') \in Nat
        /\ Cardinality(Sending(n)') <= Cardinality(Sending(n))
  BY TurnsSending DEF IInv
<1>7. FinitelySending'
  BY <1>6 DEF FinitelySending
<1>8. EmailBudget'
  <2> SUFFICES ASSUME NEW n \in Notifications
               PROVE  sent[n] + left'[n] + Cardinality(Sending(n)') <= granted'[n]
    BY DEF EmailBudget
  <2>1. /\ sent[n] \in Nat /\ left[n] \in Nat /\ granted[n] \in Nat
        /\ left'[n] \in Nat /\ granted'[n] \in Nat
    BY <1>4, DeliveryAssumption DEF IInv, TypeOK
  <2>2. sent[n] + left[n] + Cardinality(Sending(n)) <= granted[n]
    BY DEF IInv, EmailBudget
  <2>3. QED
    BY <1>4, <1>6, <2>1, <2>2, DeliveryAssumption
<1>9. \A n \in Notifications : HasJob(n)' => HasJob(n) \/ n = Event(w)
  BY <1>4 DEF HasJob
<1>10. \A n \in Notifications : HasJob(n) => HasJob(n)'
  BY <1>4 DEF HasJob
<1>11. WantedIsDecided' /\ JobIsPublished'
  BY <1>1, <1>9 DEF IInv, WantedIsDecided, JobIsPublished, At, Event
<1>12. EmailHasJob'
  BY <1>1, <1>3, <1>10 DEF IInv, EmailHasJob, At, Event
<1>13. PublishedOnce'
  <2>1. ASSUME NEW v \in Workers, worker'[v].wanted
        PROVE  ~(granted'[worker'[v].event] > 0)
    <3>1. v # w /\ worker'[v] = worker[v]
      BY <1>1, <2>1
    <3>2. /\ At(v, "decided") /\ Event(v) \in Notifications
          /\ ~HasJob(Event(v))
      BY <2>1, <3>1 DEF IInv, WantedIsDecided, PublishedOnce
    <3>3. Event(v) # Event(w)
      BY <1>3, <3>1, <3>2 DEF IInv, OnePublisher, At, Publishing
    <3>4. QED
      BY <1>9, <3>1, <3>2, <3>3 DEF Event, HasJob
  <2>2. QED
    BY <1>2, <2>1 DEF PublishedOnce, HasJob, Event
<1>14. EmailedWasSent'
  BY DEF IInv, EmailedWasSent
<1>15. QED
  BY <1>2, <1>5, <1>7, <1>8, <1>11, <1>12, <1>13, <1>14 DEF IInv

LEMMA PublishingInv ==
    ASSUME IInv, NEW w \in Workers, PublishPlain(w) \/ PublishWithJob(w)
    PROVE  IInv'
<1>1. CASE PublishPlain(w)
  BY <1>1, PublishInv DEF PublishPlain, queue, IInv, TypeOK
<1>2. CASE PublishWithJob(w)
  <2>1. holder' = [holder EXCEPT ![Event(w)] = NoWorker]
    BY <1>2 DEF PublishWithJob, Queue!Grant
  <2>2. holder' \in [Notifications -> Workers \cup {NoWorker}]
    BY <2>1 DEF IInv, TypeOK
  <2>3. QED
    BY <1>2, <2>2, PublishInv DEF PublishWithJob, Queue!Grant
<1>3. QED
  BY <1>1, <1>2

(* Taking a job turns one granted attempt into one process sending.        *)
LEMMA StartInv ==
    ASSUME IInv, NEW w \in Workers, StartEmail(w)
    PROVE  IInv'
<1>1. PICK n \in Notifications :
        /\ Queue!Acquire(w, n)
        /\ worker' = [worker EXCEPT ![w] = [@ EXCEPT !.pc = "emailing", !.event = n]]
  BY DEF StartEmail
<1>2. UNCHANGED <<outbox, published, email_enabled, emailed, granted, sent>> /\ At(w, "poll")
  BY DEF StartEmail
<1> DEFINE q == [worker[w] EXCEPT !.pc = "emailing", !.event = n]
<1>3. worker' = [worker EXCEPT ![w] = q]
  BY <1>1
<1>4. n \in Events /\ n # NoEvent
  BY DeliveryAssumption
<1>5. q \in Process /\ q.pc = "emailing" /\ q.event = n /\ q.wanted = worker[w].wanted
  BY <1>4 DEF IInv, TypeOK, Process, Emailing
<1> HIDE DEF q
<1>6. /\ worker' \in [Workers -> Process]
      /\ worker'[w] = q
      /\ \A v \in Workers \ {w} : worker'[v] = worker[v]
  BY <1>3, <1>5 DEF IInv, TypeOK
<1>7. "emailing" \notin Publishing /\ "emailing" \in Emailing
  BY DEF Publishing, Emailing
<1>8. worker[w].wanted = FALSE
  BY <1>2 DEF IInv, WantedIsDecided, At, TypeOK, Process
<1>9. /\ holder' \in [Notifications -> Workers \cup {NoWorker}]
      /\ left' \in [Notifications -> 0 .. Attempts]
      /\ left[n] > 0 /\ left'[n] = left[n] - 1
      /\ \A m \in Notifications \ {n} : left'[m] = left[m]
  <2>1. /\ holder' = [holder EXCEPT ![n] = w]
        /\ left' = [left EXCEPT ![n] = left[n] - 1]
        /\ left[n] > 0
    BY <1>1 DEF Queue!Acquire
  <2>2. left[n] - 1 \in 0 .. Attempts
    BY <2>1, DeliveryAssumption DEF IInv, TypeOK
  <2>3. QED
    BY <2>1, <2>2 DEF IInv, TypeOK
<1>10. TypeOK'
  BY <1>2, <1>4, <1>5, <1>6, <1>7, <1>9, ZenonT(40) DEF IInv, TypeOK, Event
<1>11. \A m \in Notifications :
        /\ IsFiniteSet(Sending(m)')
        /\ Cardinality(Sending(m)) \in Nat
        /\ Cardinality(Sending(m)') \in Nat
        /\ Cardinality(Sending(m)') <= Cardinality(Sending(m)) + 1
        /\ m # n => Cardinality(Sending(m)') <= Cardinality(Sending(m))
  BY <1>3, <1>5, SendingMoves DEF IInv
<1>12. \A m \in Notifications :
         /\ sent[m] \in Nat /\ left[m] \in Nat /\ granted[m] \in Nat /\ left'[m] \in Nat
         /\ sent[m] + left[m] + Cardinality(Sending(m)) <= granted[m]
  BY <1>9, DeliveryAssumption DEF IInv, TypeOK, EmailBudget
<1>13. FinitelySending' /\ EmailBudget'
  <2>1. ASSUME NEW m \in Notifications
        PROVE  sent[m] + left'[m] + Cardinality(Sending(m)') <= granted[m]
    BY <1>9, <1>11, <1>12
  <2>2. QED
    BY <1>2, <1>11, <2>1 DEF FinitelySending, EmailBudget
<1>14. HasJob(n)
  BY <1>9, <1>11, <1>12 DEF HasJob
<1>15. OnePublisher' /\ WantedIsDecided' /\ JobIsPublished'
  BY <1>2, <1>5, <1>6, <1>7, <1>8
     DEF IInv, OnePublisher, WantedIsDecided, JobIsPublished, At, HasJob, Event
<1>16. EmailHasJob'
  BY <1>2, <1>5, <1>6, <1>7, <1>14 DEF IInv, EmailHasJob, At, HasJob, Event
<1>17. PublishedOnce' /\ EmailedWasSent'
  BY <1>2, <1>5, <1>6, <1>8 DEF IInv, PublishedOnce, EmailedWasSent, HasJob, Event
<1>18. QED
  BY <1>10, <1>13, <1>15, <1>16, <1>17 DEF IInv

(* A process that sends stops being one that is about to send, so the      *)
(* message it may have sent takes its place in the budget.                 *)
LEMMA SentBudget ==
    ASSUME IInv, NEW w \in Workers, At(w, "emailing"), NEW pc \in {"sent", "ended"}, Goes(w, pc),
           UNCHANGED <<left, granted>>,
           UNCHANGED sent \/ sent' = [sent EXCEPT ![Event(w)] = @ + 1]
    PROVE  /\ sent' \in [Notifications -> 0 .. MaxGranted]
           /\ FinitelySending'
           /\ EmailBudget'
           /\ \A n \in Notifications : sent[n] > 0 => sent'[n] > 0
           /\ \A n \in Notifications : sent[n] \in Nat
<1> DEFINE n == Event(w)
           q == [worker[w] EXCEPT !.pc = pc]
<1>1. n \in Notifications /\ w \in Sending(n)
  BY DEF IInv, EmailHasJob, At, Emailing, Sending
<1>2. worker' = [worker EXCEPT ![w] = q] /\ q.pc # "emailing"
  <2>1. worker' = [worker EXCEPT ![w] = q] /\ worker'[w].pc = pc
    BY GoesMoves DEF IInv, Emailing
  <2>2. QED
    BY <2>1 DEF IInv, TypeOK
<1> HIDE DEF q
<1>3. \A m \in Notifications :
        /\ IsFiniteSet(Sending(m)')
        /\ Cardinality(Sending(m)) \in Nat
        /\ Cardinality(Sending(m)') \in Nat
        /\ Cardinality(Sending(m)') <= Cardinality(Sending(m))
        /\ w \in Sending(m) => Cardinality(Sending(m)') = Cardinality(Sending(m)) - 1
  BY <1>2, SendingMoves DEF IInv
<1>4. \A m \in Notifications :
        /\ sent[m] \in Nat /\ left[m] \in Nat /\ granted[m] \in 0 .. MaxGranted
        /\ sent[m] + left[m] + Cardinality(Sending(m)) <= granted[m]
  BY DeliveryAssumption DEF IInv, TypeOK, EmailBudget
<1>5. /\ DOMAIN sent' = Notifications /\ sent' = [m \in Notifications |-> sent'[m]]
      /\ \A m \in Notifications :
           sent'[m] = sent[m] \/ (m = n /\ sent'[m] = sent[m] + 1)
  BY <1>1 DEF IInv, TypeOK
<1> HIDE DEF n
<1>6. ASSUME NEW m \in Notifications
      PROVE  /\ sent'[m] \in Nat
             /\ sent'[m] + left[m] + Cardinality(Sending(m)') <= granted[m]
             /\ sent'[m] <= granted[m]
             /\ sent[m] > 0 => sent'[m] > 0
  <2>1. CASE m = n
    BY <1>1, <1>3, <1>4, <1>5, <2>1
  <2>2. CASE m # n
    BY <1>3, <1>4, <1>5, <2>2
  <2>3. QED
    BY <2>1, <2>2
<1>7. \A m \in Notifications : sent'[m] \in 0 .. MaxGranted
  BY <1>4, <1>6, DeliveryAssumption
<1>8. QED
  BY <1>3, <1>4, <1>5, <1>6, <1>7 DEF FinitelySending, EmailBudget

(* What moving on within the mail leaves as it was.                        *)
LEMMA GoesInv ==
    ASSUME IInv, NEW w \in Workers, worker[w].pc \in {"emailing", "sent"},
           NEW pc \in {"sent", "ended"}, Goes(w, pc),
           UNCHANGED <<outbox, published, email_enabled, holder, left, granted>>,
           emailed' \subseteq Notifications,
           sent' \in [Notifications -> 0 .. MaxGranted],
           \A n \in Notifications : sent[n] > 0 => sent'[n] > 0,
           pc = "sent" => sent'[Event(w)] > 0,
           FinitelySending', EmailBudget', EmailedWasSent'
    PROVE  IInv'
<1>1. /\ worker' \in [Workers -> Process]
      /\ worker'[w].pc = pc
      /\ worker'[w].event = worker[w].event
      /\ worker'[w].wanted = worker[w].wanted
      /\ \A v \in Workers \ {w} : worker'[v] = worker[v]
  BY GoesMoves DEF IInv, Emailing
<1>2. /\ pc \notin Publishing /\ pc \in Emailing /\ worker[w].pc \in Emailing
      /\ worker[w].pc # "decided"
  BY DEF Publishing, Emailing
<1>3. Event(w) \in Notifications /\ HasJob(Event(w)) /\ worker[w].wanted = FALSE
  BY <1>2 DEF IInv, EmailHasJob, WantedIsDecided, At, TypeOK, Process
<1>4. TypeOK'
  BY <1>1, <1>2 DEF IInv, TypeOK, Event
<1>5. OnePublisher' /\ WantedIsDecided' /\ JobIsPublished'
  BY <1>1, <1>2, <1>3 DEF IInv, OnePublisher, WantedIsDecided, JobIsPublished, At, HasJob, Event
<1>6. EmailHasJob'
  BY <1>1, <1>2, <1>3 DEF IInv, EmailHasJob, At, HasJob, Event, Emailing
<1>7. PublishedOnce'
  BY <1>1, <1>3 DEF IInv, PublishedOnce, HasJob, Event
<1>8. QED
  BY <1>4, <1>5, <1>6, <1>7 DEF IInv

LEMMA SendInv ==
    ASSUME IInv, NEW w \in Workers, SendEmail(w) \/ SendRaises(w)
    PROVE  IInv'
<1>1. PICK pc \in {"sent", "ended"} :
        /\ Goes(w, pc)
        /\ \/ pc = "ended" /\ UNCHANGED sent
           \/ sent' = [sent EXCEPT ![Event(w)] = @ + 1]
  BY DEF SendEmail, SendRaises
<1>2. /\ At(w, "emailing")
      /\ UNCHANGED <<outbox, published, email_enabled, emailed, holder, left, granted>>
  BY DEF SendEmail, SendRaises, queue
<1>3. /\ sent' \in [Notifications -> 0 .. MaxGranted]
      /\ FinitelySending'
      /\ EmailBudget'
      /\ \A n \in Notifications : sent[n] > 0 => sent'[n] > 0
      /\ \A n \in Notifications : sent[n] \in Nat
  BY <1>1, <1>2, SentBudget
<1>4. Event(w) \in Notifications
  BY <1>2 DEF IInv, EmailHasJob, At, Emailing
<1>5. pc = "sent" => sent'[Event(w)] > 0
  BY <1>1, <1>3, <1>4 DEF IInv, TypeOK
<1>6. emailed' \subseteq Notifications /\ EmailedWasSent'
  BY <1>2, <1>3 DEF IInv, TypeOK, EmailedWasSent
<1>7. QED
  BY <1>1, <1>2, <1>3, <1>5, <1>6, GoesInv DEF At

LEMMA RecordEmailedInv ==
    ASSUME IInv, NEW w \in Workers, RecordEmailed(w)
    PROVE  IInv'
<1>1. /\ At(w, "sent") /\ Goes(w, "ended")
      /\ emailed' = emailed \cup {Event(w)}
      /\ UNCHANGED <<outbox, published, email_enabled, holder, left, granted, sent>>
  BY DEF RecordEmailed, queue
<1>2. Event(w) \in Notifications /\ sent[Event(w)] > 0 /\ Event(w) \in published
  BY <1>1 DEF IInv, EmailHasJob, JobIsPublished, At, Emailing
<1>3. emailed' \subseteq Notifications /\ EmailedWasSent'
  BY <1>1, <1>2 DEF IInv, TypeOK, EmailedWasSent
<1> DEFINE q == [worker[w] EXCEPT !.pc = "ended"]
<1>4. worker' = [worker EXCEPT ![w] = q] /\ q.pc # "emailing"
  <2>1. worker' = [worker EXCEPT ![w] = q] /\ worker'[w].pc = "ended"
    BY <1>1, GoesMoves DEF IInv, Emailing
  <2>2. QED
    BY <2>1 DEF IInv, TypeOK
<1> HIDE DEF q
<1>5. \A n \in Notifications :
        /\ IsFiniteSet(Sending(n)')
        /\ Cardinality(Sending(n)) \in Nat
        /\ Cardinality(Sending(n)') \in Nat
        /\ Cardinality(Sending(n)') <= Cardinality(Sending(n))
  BY <1>4, SendingMoves DEF IInv
<1>6. FinitelySending' /\ EmailBudget'
  BY <1>1, <1>5, DeliveryAssumption DEF IInv, TypeOK, FinitelySending, EmailBudget
<1>7. sent' \in [Notifications -> 0 .. MaxGranted]
  BY <1>1 DEF IInv, TypeOK
<1>8. QED
  BY <1>1, <1>3, <1>6, <1>7, GoesInv DEF At

-----------------------------------------------------------------------------

LEMMA NextInv == IInv /\ [Next]_vars => IInv'
<1> SUFFICES ASSUME IInv, [Next]_vars PROVE IInv'
  OBVIOUS
<1>1. CASE \E e \in Events : Record(e)
  BY <1>1, RecordInv
<1>2. CASE UpdatePreferences \/ LoseHold \/ \E n \in Notifications : RetryEmail(n)
  BY <1>2, QueueInv
<1>3. CASE \E w \in Workers : Publisher(w) \/ RunOnce(w) \/ Crash(w) \/ Restart(w)
  <2>1. PICK w \in Workers : Publisher(w) \/ RunOnce(w) \/ Crash(w) \/ Restart(w)
    BY <1>3
  <2>2. CASE NothingToPublish(w) \/ OtherJob(w) \/ FinishEmail(w) \/ Crash(w) \/ Restart(w)
    BY <2>2, TurningInv
  <2>3. CASE LockEvent(w)
    BY <2>3, LockInv
  <2>4. CASE ReadPreference(w)
    BY <2>4, ReadInv
  <2>5. CASE PublishPlain(w) \/ PublishWithJob(w)
    BY <2>5, PublishingInv
  <2>6. CASE StartEmail(w)
    BY <2>6, StartInv
  <2>7. CASE SendEmail(w) \/ SendRaises(w)
    BY <2>7, SendInv
  <2>8. CASE RecordEmailed(w)
    BY <2>8, RecordEmailedInv
  <2>9. QED
    BY <2>1, <2>2, <2>3, <2>4, <2>5, <2>6, <2>7, <2>8 DEF Publisher, RunOnce
<1>4. CASE UNCHANGED vars
  <2>1. UNCHANGED <<outbox, published, email_enabled, emailed, worker, holder, left, granted, sent>>
    BY <1>4 DEF vars, queue
  <2>2. \A n \in Notifications : Sending(n)' = Sending(n)
    BY <2>1 DEF Sending, At, Event
  <2>3. TypeOK' /\ PublishedOnce' /\ EmailedWasSent'
    BY <2>1 DEF IInv, TypeOK, PublishedOnce, EmailedWasSent, HasJob, Event
  <2>4. FinitelySending' /\ EmailBudget'
    BY <2>1, <2>2 DEF IInv, FinitelySending, EmailBudget
  <2>5. OnePublisher' /\ WantedIsDecided' /\ JobIsPublished' /\ EmailHasJob'
    BY <2>1
       DEF IInv, OnePublisher, WantedIsDecided, JobIsPublished, EmailHasJob, At, HasJob, Event
  <2>6. QED
    BY <2>3, <2>4, <2>5 DEF IInv
<1>5. QED
  BY <1>1, <1>2, <1>3, <1>4 DEF Next

(* Publishers, handlers, users and the queue keep the invariant, whatever  *)
(* dies in between.                                                        *)
THEOREM InvariantHolds == Spec => []IInv
<1>1. QED
  BY InitInv, NextInv, PTL DEF Spec

(* Every part of the outbox and of its processes keeps its shape.          *)
THEOREM TypeCorrect == Spec => []TypeOK
<1>1. IInv => TypeOK
  BY DEF IInv
<1>2. QED
  BY <1>1, InvariantHolds, PTL

(* However many processes publish, and wherever they die, no event is      *)
(* waiting and published, and no job is ever made twice for one event.     *)
THEOREM EventsPublishedOnce == Spec => []PublishedOnce
<1>1. IInv => PublishedOnce
  BY DEF IInv
<1>2. QED
  BY <1>1, InvariantHolds, PTL

(* No mail is sent more often than attempts were granted to its job.       *)
THEOREM MailsWithinBudget == Spec => []EmailBudget
<1>1. IInv => EmailBudget
  BY DEF IInv
<1>2. QED
  BY <1>1, InvariantHolds, PTL

(* emailed_at tells the truth.                                             *)
THEOREM EmailedTellsTruth == Spec => []EmailedWasSent
<1>1. IInv => EmailedWasSent
  BY DEF IInv
<1>2. QED
  BY <1>1, InvariantHolds, PTL

-----------------------------------------------------------------------------
(* The delivery relies on nothing of the queue but its promise: every step *)
(* is a step of LeasedWork, or leaves it alone.                            *)

LEMMA QueueStep == IInv /\ [Next]_vars => [Queue!Next]_<<holder, left>>
<1> SUFFICES ASSUME IInv, [Next]_vars PROVE [Queue!Next]_<<holder, left>>
  OBVIOUS
<1>1. CASE \E e \in Events : Record(e)
  BY <1>1 DEF Record, queue
<1>2. CASE UpdatePreferences \/ UNCHANGED vars
  BY <1>2 DEF UpdatePreferences, vars, queue
<1>3. CASE LoseHold
  BY <1>3 DEF LoseHold, Queue!Next
<1>4. CASE \E n \in Notifications : RetryEmail(n)
  BY <1>4 DEF RetryEmail, Queue!Next
<1>5. CASE \E w \in Workers : Publisher(w) \/ RunOnce(w) \/ Crash(w) \/ Restart(w)
  <2>1. PICK w \in Workers : Publisher(w) \/ RunOnce(w) \/ Crash(w) \/ Restart(w)
    BY <1>5
  <2>2. CASE \/ NothingToPublish(w) \/ OtherJob(w) \/ LockEvent(w) \/ ReadPreference(w)
             \/ PublishPlain(w) \/ SendEmail(w) \/ SendRaises(w) \/ RecordEmailed(w)
             \/ Crash(w) \/ Restart(w)
    BY <2>2 DEF NothingToPublish, OtherJob, LockEvent, ReadPreference, PublishPlain, SendEmail,
                SendRaises, RecordEmailed, Crash, Restart, queue
  <2>3. CASE PublishWithJob(w)
    <3>1. Event(w) \in Notifications
      BY <2>3 DEF IInv, WantedIsDecided, PublishWithJob
    <3>2. QED
      BY <2>3, <3>1 DEF PublishWithJob, Queue!Next
  <2>4. CASE StartEmail(w)
    BY <2>4 DEF StartEmail, Queue!Next
  <2>5. CASE FinishEmail(w)
    <3>1. {Event(w)} \subseteq Notifications
      BY <2>5 DEF IInv, EmailHasJob, FinishEmail, At, Emailing
    <3>2. QED
      BY <2>5, <3>1 DEF FinishEmail, Queue!Next
  <2>6. QED
    BY <2>1, <2>2, <2>3, <2>4, <2>5 DEF Publisher, RunOnce
<1>6. QED
  BY <1>1, <1>2, <1>3, <1>4, <1>5 DEF Next

(* The publisher and the handler use the job queue only as LeasedWork      *)
(* promises it: enqueue, claim, settle, lose the hold, be granted more.    *)
THEOREM UsesThePromise == Spec => Queue!Spec
<1>1. Init => Queue!Init
  BY DEF Init
<1>2. QED
  BY <1>1, InvariantHolds, QueueStep, PTL DEF Spec, Queue!Spec, Queue!vars

=============================================================================
