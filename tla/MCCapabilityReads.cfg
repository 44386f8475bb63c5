CONSTANTS
    c1 = c1  c2 = c2  c3 = c3  m1 = m1  t1 = t1  h1 = h1  h2 = h2  d1 = d1
    Capabilities = {c1, c2, c3}
    Mappings = {m1}
    Tags = {t1}
    Handlers = {h1, h2}
    Bodies <- AllBodies
    Stewarded = {c1}
    NoParent = NoParent
    NoBody = NoBody
    NoMapping = NoMapping
    NoWalk = NoWalk
    NoDomain = NoDomain
    BlankDomain = BlankDomain
    ReportRows <- SomeRows
SPECIFICATION VisitSpec
INVARIANTS TypeOK ReportsAreRight ReadsAreRight 
PROPERTIES  WalkEnds
