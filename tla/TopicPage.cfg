SPECIFICATION Spec
CONSTANTS
    t1 = t1
    t2 = t2
    t3 = t3
    Topics <- MCTopics
    Initially <- MCInitially
    Agents = {a1}
    None = None
    Blank = Blank
    Typed = Typed
    MaxTasks = 3
    MaxEvents = 4
INVARIANTS
    TypeOK
    ShownIsTrue
PROPERTIES
    SpinnersEnd
CHECK_DEADLOCK FALSE
