SPECIFICATION Spec
CONSTANTS
    a1 = a1
    a2 = a2
    a3 = a3
    Authorizers <- MCAuthorizers
    Connections = {c1, c2}
    InitialAuthorizers <- MCInitialAuthorizers
    InitialConnections = {c1}
    None = None
    Blank = Blank
    Typed = Typed
    MaxTasks = 4
    MaxEvents = 7
INVARIANTS
    TypeOK
    ShownIsTrue
    SavesAreMeant
CHECK_DEADLOCK FALSE
