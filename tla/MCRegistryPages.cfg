CONSTANTS
    x = x  y = y  h1 = h1  h2 = h2  m1 = m1  m2 = m2  c1 = c1  c2 = c2  s1 = s1  d1 = d1
    Ids = {1, 2}
    Names = {x, y}
    ContractTypes = {"REST_API", "FILE_DROP"}
    HealthStatus = {"HEALTHY"}
    InitialRows <- SmallTables
    Handlers = {h1, h2}
    Unset = Unset
    NoRow = NoRow
    NoRequest = NoRequest
    Idle = Idle
    Waiting = Waiting
    Blank = Blank
    NoMapping = NoMapping
    NoFetch = NoFetch
    Unanswered = Unanswered
    OtherDtos <- PartialDtos
    MaxEvents = 3
    Mappings = {m1, m2}
    Capabilities = {c1, c2}
    Systems = {s1}
    MappingState = {"ACTIVE", "INACTIVE"}
    Details = {d1}
    MappingTables <- OneOrTwoMappings
    InitialRetired <- NoneOrOther
    Filters <- ActiveOnly
    DialogDefaults <- EmptyDialog
    NoData = NoData
    NoDialog = NoDialog
    MaxVisits = 1
    MaxMappingEvents = 2
SPECIFICATION VisitSpec
SYMMETRY Symmetry
INVARIANTS ConsumersAreRight MappingsAreRight
PROPERTIES TypedSurvives
CHECK_DEADLOCK FALSE
