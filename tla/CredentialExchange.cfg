SPECIFICATION FairCredentialSpec
CONSTANTS
    Callers = {"c1", "c2", "c3"}
    ServiceOf <- MCServiceOf
    Connections <- MCConnections
    Editors = {"e1","e2"}
    MaxEdits = 2
    MaxFailures = 2
INVARIANTS
    CredentialTypeOK
    OneRowPerConnection
    TokensAreFresh
PROPERTIES
    CallsReturn
CHECK_DEADLOCK FALSE
