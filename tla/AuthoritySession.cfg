SPECIFICATION FairSpec
CONSTANTS
    Authority = "auth"
    BrokerUriInternal = FALSE
    MaxFaults = 3
INVARIANTS
    TypeOK
    AtMostOneHandler
    FlagMeansStanding
    NoHalfSession
PROPERTIES
    KeepsServing
    KeepsPromise
