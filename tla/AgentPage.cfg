SPECIFICATION Spec
CONSTANTS
    a1 = a1
    a2 = a2
    a3 = a3
    a4 = a4
    Agents <- MCAgents
    Initially <- MCInitially
    Items = {i1}
    None = None
    Temp = Temp
    Blank = Blank
    Typed = Typed
    MaxTasks = 3
    MaxEvents = 4
INVARIANTS
    TypeOK
    ShownIsTrue
    SavesAreMeant
CHECK_DEADLOCK FALSE
