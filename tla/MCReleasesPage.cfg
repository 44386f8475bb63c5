CONSTANTS
    u1 = u1  u2 = u2  c1 = c1  r1 = r1  r2 = r2  r3 = r3  k1 = k1
    Handlers = {u1, u2}
    NoData = NoData
    NoMutation = NoMutation
    Capabilities = {c1}
    Contents = {k1}
    Labels = {r1, r2, r3}
    BranchNames = {"what-if"}
    MaxVersions = 4
    MaxChanges = 2
    NoContent = NoContent
    NoRow = NoRow
    Gone = Gone
    Unnamed = Unnamed
    Tab = u1
    NoForm = NoForm
    Unconfirmed = Unconfirmed
    MaxForeign = 1
    MaxClicks = 4
SPECIFICATION VisitSpec
SYMMETRY Symmetry
INVARIANTS ReleasePagesAreRight
PROPERTIES ReviewedIsPublished
CHECK_DEADLOCK FALSE
