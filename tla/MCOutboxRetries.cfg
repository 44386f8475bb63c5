CONSTANTS
    e1 = e1  e2 = e2  k1 = k1  k2 = k2  w1 = w1  w2 = w2  n1 = n1  n2 = n2
    Events = {e1, e2}
    ReleaseEvents = {e2}
    Consumers = {k1}
    Workers = {w1}
    MaxAttempts = 3
    BatchSize = 2
    LeaseDuration = 2
    BaseRetryDelay = 1
    MaxRetryDelay = 2
    MaxFaults = 1
    NoWorker = NoWorker
    MaxNotifications = 2
    EventType <- TwoTypes
    Handlers = {n1, n2}
    NoRequest = NoRequest
    NoFilter = NoFilter
    Bell <- BellList
    Filters <- PageLists
    NoData = NoData
    NotFetching = NotFetching
    NoMutation = NoMutation
    MaxClicks = 2
    MaxEvents = 1
    Visits = {"outbox"}
SPECIFICATION FairVisitSpec
PROPERTIES EventuallySettled
