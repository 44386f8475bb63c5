CONSTANTS
    t1 = t1  u1 = u1  u2 = u2
    Users = {u1, u2}
    Tabs = {t1}
    Nobody = Nobody
    NoData = NoData
    Production = FALSE
    InitialAccounts <- Accounts
    NewRoles = {"VIEWER"}
    Starts <- SomeStarts
    MaxEvents = 2
    MaxVersion = 2
SPECIFICATION Spec
INVARIANTS PageIsRight
 
CHECK_DEADLOCK FALSE
\* The code does not keep to this one, put in the place of the properties above:
\* INVARIANTS LoggedOutIsUnauthenticated
