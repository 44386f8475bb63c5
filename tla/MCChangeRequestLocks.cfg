CONSTANTS
    c1 = c1  c2 = c2  a1 = a1  a2 = a2  h1 = h1  h2 = h2  h3 = h3
    ChangeRequests = {c1, c2}
    Capabilities = {a1, a2}
    Handlers = {h1, h2}
    Dtos <- LockDtos
    Deciders = {"ADMIN"}
    MappedCapabilities = {}
    EffectKinds = {}
    MaxTrail = 8
    NoLock = NoLock
    NoDto = NoDto
SPECIFICATION Spec
SYMMETRY Symmetry
INVARIANTS LocksMatchExecution AppliedOnce
CHECK_DEADLOCK FALSE
\* The code does not keep to this one, put in the place of the properties above:
\* PROPERTIES AppliedOnReadState
