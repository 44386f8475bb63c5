CONSTANTS
    c1 = c1  c2 = c2  a1 = a1  a2 = a2  h1 = h1  h2 = h2  h3 = h3
    ChangeRequests = {c1}
    Capabilities = {a1, a2}
    Handlers = {h1, h2}
    Dtos <- GateDtos
    Deciders = {"CURATOR", "GOVERNANCE_APPROVER", "ADMIN"}
    MappedCapabilities = {a1}
    EffectKinds = {"audit", "event"}
    MaxTrail = 7
    NoLock = NoLock
    NoDto = NoDto
SPECIFICATION Spec
SYMMETRY HandlerSymmetry
INVARIANTS TypeOK DecisionsJustifyStatus TrailReplaysStatus ApproversBriefed EffectsReflectCommits
PROPERTIES ImplementsLifecycle
