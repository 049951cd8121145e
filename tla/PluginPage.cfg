SPECIFICATION Spec
CONSTANTS
    p1 = p1
    p2 = p2
    p3 = p3
    p4 = p4
    Plugins <- MCPlugins
    Initially <- MCInitially
    Functions = {f1, f2}
    None = None
    Blank = Blank
    Typed = Typed
    MaxTasks = 3
    MaxEvents = 5
INVARIANTS
    TypeOK
    ShownIsTrue
    SavesAreMeant
CHECK_DEADLOCK FALSE
