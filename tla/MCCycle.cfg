CONSTANTS
    c1 = c1  c2 = c2  c3 = c3  m1 = m1  t1 = t1  h1 = h1  h2 = h2  d1 = d1
    Capabilities = {c1, c2}
    Mappings = {}
    Tags = {}
    Handlers = {h1, h2}
    Bodies <- MoveBodies
    NoParent = NoParent
    NoBody = NoBody
    NoMapping = NoMapping
    NoDomain = NoDomain
    BlankDomain = BlankDomain
    ReportRows <- SomeRows
SPECIFICATION Spec
INVARIANTS Forest
