SPECIFICATION Spec
CONSTANTS
    h1 = h1
    h2 = h2
    h3 = h3
    Hosts <- MCHosts
    Initially <- MCInitially
    Keys = {y1, y2}
    Plugins = {p1}
    None = None
    Temp = Temp
    Blank = Blank
    Typed = Typed
    MaxTasks = 2
    MaxEvents = 5
INVARIANTS
    TypeOK
    ShownIsTrue
    SavesAreMeant
    SecretsAreSeen
CHECK_DEADLOCK FALSE
