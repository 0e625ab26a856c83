SPECIFICATION FairSpec
CONSTANTS
    Events = {n1, a1}
    Notifications = {n1}
    Workers = {w1, w2}
    NoWorker = NoWorker
    NoEvent = NoEvent
    Attempts = 2
    MaxGranted = 4
INVARIANTS
    PublishedOnce
    EmailBudget
    EmailedWasSent
PROPERTIES
    EventsArePublished
