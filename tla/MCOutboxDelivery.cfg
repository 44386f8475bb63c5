CONSTANTS
    e1 = e1  e2 = e2  k1 = k1  k2 = k2  w1 = w1  w2 = w2  n1 = n1  n2 = n2
    Events = {e1}
    ReleaseEvents = {}
    Consumers = {k1, k2}
    Workers = {w1, w2}
    MaxAttempts = 2
    BatchSize = 1
    LeaseDuration = 1
    BaseRetryDelay = 1
    MaxRetryDelay = 1
    MaxFaults = 2
    NoWorker = NoWorker
    MaxNotifications = 2
    EventType <- TwoTypes
    Handlers = {n1, n2}
    NoRequest = NoRequest
    NoFilter = NoFilter
    Bell <- BellList
    Filters <- PageLists
    NoData = NoData
    NotFetching = NotFetching
    NoMutation = NoMutation
    MaxClicks = 2
    MaxEvents = 1
    Visits = {"outbox", "inbox"}
SPECIFICATION VisitSpec
SYMMETRY Symmetry
INVARIANTS LeasesAreRight DeliveredToAll ListsAreRight
PROPERTIES ImplementsDelivery 
