CONSTANTS
    c1 = c1  c2 = c2  c3 = c3  m1 = m1  t1 = t1  u1 = u1  h1 = h1  h2 = h2  d1 = d1  r1 = r1
    Capabilities = {c1, c2, c3}
    Mappings = {m1}
    Tags = {t1, u1}
    SplitAt <- CommaAfter
    Handlers = {h1}
    Bodies <- TreeBodies
    OtherBodies <- RequestBodies
    MeantimeBodies <- EditBodies
    Requests = {r1}
    MaxWrites = 1
    NoParent = NoParent
    NoBody = NoBody
    NoMapping = NoMapping
    NoRequest = NoRequest
    NoPreview = NoPreview
    NoEditor = NoEditor
    NoDetail = NoDetail
    NoDomain = NoDomain
    BlankDomain = BlankDomain
    ReportRows <- SomeRows
SPECIFICATION VisitSpec
SYMMETRY Symmetry
INVARIANTS Forest FormsAreRight
PROPERTIES  WritesOnlyLocked SaveSendsOnlyEdits EditsSurvive
