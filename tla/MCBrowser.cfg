SPECIFICATION Spec
CONSTANTS
    r1 = r1
    r2 = r2
    r3 = r3
    title = title
    stage = stage
    size = size
    done = done
    tags = tags
    Null = Null
    Closed = Closed
    NoField = NoField
    NoRow = NoRow
    RvRows <- RowIds
    RvFields <- Columns
    RvKind <- Kinds
    RvLabel <- Labels
    RvTables <- Tables
    RvSaved <- SavedViews
    RvTexts <- Typed
    RvLimit = 1
    RvOps = 2
    q1 = q1
    q2 = q2
    q3 = q3
    q4 = q4
    seq = seq
    name = name
    state = state
    NoCell = NoCell
    NoDraft = NoDraft
    TgRows <- GridRows
    TgNew = q4
    TgFields <- GridColumns
    TgKind <- GridKinds
    TgGroup <- GridGroups
    TgKids <- GridKids
    TgArrangements <- Arrangements
    TgTyped = {x}
    TgChildPage = 1
    TgOps = 4
    d1 = d1
    d2 = d2
    d3 = d3
    due = due
    created = created
    DvDay = 4
    DvHour = 2
    DvWeek = 2
    DvMonth = 5
    DvYear = 4
    DvWeeks = 4
    DvRows <- DateRows
    DvNew = d3
    DvFields <- Axes
    DvKind <- AxisKinds
    DvCells <- FirstCells
    DvPeriods <- Zooms
    DvBlock = 2
    DvTicks = 20
    DvNine = 1
    DvFive = 2
    DvLimit = 1
    DvNow = 9
    DvDays = {1, 3}
    DvMoves <- Shifts
    DvTimes = {0, 3}
    DvOps = 4
    RcStart = 3
    RcPageSize = 2
    RcBulk = 2
    RcPending = 2
    RcOps = 3
    DeTabs = {a, b}
    DeEditors = {e1, e2, e3}
    DeTexts = {x, y}
    DeLosses = 1
    DeOps = 4
    SsPaths = {"/", "/a"}
    SsHome = "/"
    SsHosts = {"host"}
    SsKeys = {k}
    SsPending = 2
    SsBuilds = 2
    SsAttempts = 2
    SsOps = 2
    u1 = u1
    u2 = u2
    w1 = w1
    w2 = w2
    WkUsers = {u1, u2}
    WkOf <- BelongTo
    WkOps = 4
    CfStart = 2
    CfNames = {"Name"}
    CfSets = {k}
    CfChoices = {o}
    CfPending = 2
    CfMost = 4
    CfOps = 2
    CoSessions = 2
    CoOps = 3
    NbTtl = 2
    NbMost = 2
    NbPending = 3
    NbOps = 3
CHECK_DEADLOCK FALSE
INVARIANTS
    OppositesSplit
    SelectionSpansRows
    RangesInOrder
    WindowHoldsBars
    QuietTableIsComplete
    QuietStudioIsTrue
    CacheOfItsWorkspace
    EveryoneListed
    BadgeCatchesUp
PROPERTIES
    SortingKeepsTies
    DroppedCardLands
    NewCardInSight
    TypedStaysInCell
    KeysFollowHighlight
    BarStaysWhereDrawn
    EventLandsOnDay
    NothingReplacedUnseen
    
