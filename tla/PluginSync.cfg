SPECIFICATION FairSpec
CONSTANTS
    Hosts = {"h1","h2"}
    Provided <- MCProvided
    Functions = {"f"}
    Displays = {"P", "Q"}
    DisplayOf <- MCDisplayOf
    OwnersPlugins <- MCOwnersPlugins
    MaxConnects = 2
    MaxFaults = 1
    MaxEdits = 1
    MaxTasks = 2
INVARIANTS
    TypeOK
    RepeatableSync
    WelcomeIsTrue
    IdsAreTrue
PROPERTIES
    Answered
CHECK_DEADLOCK FALSE
