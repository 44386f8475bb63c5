CONSTANTS
    a = a  b = b  c = c  h1 = h1  h2 = h2
    Names = {a, b, c}
    Ids = {1, 2, 3}
    Contents <- PageContents
    CheckedFiles <- SmallFiles
    Handlers = {h1, h2}
    NoName = NoName
    NoId = NoId
    Unborn = Unborn
    Deleted = Deleted
    NoContent = NoContent
    NoRequest = NoRequest
    MaxReading = 1
SPECIFICATION VisitSpec
SYMMETRY Symmetry
CHECK_DEADLOCK FALSE
INVARIANTS PreviewIsRight
PROPERTIES ImportIsWhole
\* The code does not keep to these, each put in the place of the properties above:
\* INVARIANTS ConfirmsCurrentContent
\* INVARIANTS BelowOwnRow
