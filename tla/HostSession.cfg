SPECIFICATION FairSpec
CONSTANTS
    Authority = "auth"
    HostId = "host"
    Agents = {"a1", "a2"}
    Broken = {}
    TopicOf <- MCTopicOf
    Placements <- MCPlacements
    MaxFaults = 1
    MaxStarts = 2
    MaxStops = 1
    MaxEvents = 0
    MaxTasks = 2
    MaxInstances = 3
INVARIANTS
    TypeOK
    HostFlagMeansStanding
    HandledOnce
PROPERTIES
    StartConnects
    AgentsArrive
CHECK_DEADLOCK FALSE
