CONSTANTS
    c1 = c1  c2 = c2  h1 = h1  h2 = h2  r1 = r1  r2 = r2  x = x  y = y
    Capabilities = {c1, c2}
    Contents = {x, y}
    Handlers = {h1, h2}
    Labels = {r1, r2}
    BranchNames = {"what-if"}
    MaxVersions = 3
    MaxChanges = 3
    NoContent = NoContent
    NoRow = NoRow
    Gone = Gone
    Unnamed = Unnamed
SPECIFICATION Spec
SYMMETRY Symmetry
INVARIANTS  DiffMatchesStates
PROPERTIES ImplementsReleaseLog  BranchKeepsItsOwn
CHECK_DEADLOCK FALSE
\* The code does not keep to this one, put in the place of the properties above:
\* INVARIANTS ListShowsWhatGetFinds
