SPECIFICATION Spec
CONSTANTS
    Authority = "auth"
    HostId = "host"
    Agents = {"a1", "a2"}
    Broken = {"a2"}
    TopicOf <- MCTopicOf
    Placements <- MCPlacements
    MaxFaults = 1
    MaxStarts = 2
    MaxStops = 1
    MaxEvents = 3
    MaxTasks = 2
    MaxInstances = 3
INVARIANTS
    RightAgentsHear
CHECK_DEADLOCK FALSE
